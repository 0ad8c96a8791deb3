--------------------------- MODULE Streams_proofs ---------------------------
(***************************************************************************)
(* What a client of a log stream is sent, for any sources of any length,   *)
(* any capacity of the merged channel and any number of commands: each     *)
(* source keeps the order it yields its lines in, a pause takes hold, and  *)
(* where the provider honours the time it is asked for nothing is left out *)
(* between the history and the live lines.                                 *)
(*                                                                         *)
(* Then what a stream of objects in cloud storage shows of them, for any   *)
(* finite set of objects of any size, any number of changes and of failing *)
(* calls: whole lines, each once and in order, from where they should      *)
(* begin to where they should end.                                         *)
(***************************************************************************)
EXTENDS LogStream, ObjectPoll, SequenceTheorems, FiniteSetTheorems, TLAPS

(* Until the live streams open, nothing is taken, held or discarded.       *)
StartInv ==
  /\ phase \in {"accepted", "history"} =>
       /\ fwd = [s \in Sources |-> 0] /\ out = <<>> /\ hold = <<>>
       /\ last = [s \in Sources |-> 0] /\ discarded = {}
       /\ opened = {} /\ ~reading
  /\ phase = "accepted" => shown = {}

(* While the history is fetched, what is shown of an exact source reaches   *)
(* from its oldest line shown to the position its live stream will start   *)
(* after, or begin before.                                                 *)
HistoryInv ==
  phase = "history" =>
    /\ live => shown = {} /\ fetch = {}
    /\ \A s \in Sources :
         /\ since[s] <= logged[s]
         /\ s \in fetch => Seen(s) = {}
         /\ s \in Exact => \A o \in Seen(s) : \A e \in o..since[s] : e \in Seen(s)

(* Then every entry from the oldest one in flight on is in flight, those   *)
(* that came live too: NoGap speaks of those that were shown, but an entry *)
(* is shown only when it has passed the handler's hands.                   *)
GapInv ==
  (phase = "streaming" /\ ~cancelled) =>
    \A s \in opened \cap Exact :
      \A o \in InFlight(s) : \A e \in o..(next[s] - 1) : e \in InFlight(s)

(* The next entry of a source that is not in the merged channel.           *)
Ahead(s) == IF fwd[s] = 0 THEN next[s] ELSE fwd[s]

(* OrderPerSource, place by place along the path to the client.            *)
OrderOf(s) ==
  /\ last[s] < Ahead(s) /\ fwd[s] < next[s]
  /\ hold # <<>> /\ hold[1] = s => last[s] < hold[2] /\ hold[2] < Ahead(s)
  /\ \A i \in 1..Len(out) : out[i][1] = s =>
       /\ last[s] < out[i][2] /\ out[i][2] < Ahead(s)
       /\ hold # <<>> /\ hold[1] = s => hold[2] < out[i][2]
  /\ Increases(s, out)

OrderInv == phase = "streaming" => \A s \in opened : OrderOf(s)

(* The handler read the pause flag before it took the line that it holds.  *)
PauseInv == paused => late <= 1 /\ (hold # <<>> => late = 0)

IInv == TypeOK /\ StartInv /\ HistoryInv /\ GapInv /\ OrderInv /\ PauseInv

-----------------------------------------------------------------------------
Entry == Sources \X (1..MaxLines)

LEMMA Appended ==
  ASSUME NEW S, NEW q \in Seq(S), NEW x \in S
  PROVE  /\ Append(q, x) \in Seq(S) /\ Len(Append(q, x)) = Len(q) + 1 /\ Len(q) \in Nat
         /\ \A i \in 1..Len(q) : Append(q, x)[i] = q[i]
         /\ Append(q, x)[Len(q) + 1] = x
  BY AppendProperties

LEMMA Beheaded ==
  ASSUME NEW S, NEW q \in Seq(S), q # <<>>
  PROVE  /\ Head(q) \in S /\ Head(q) = q[1]
         /\ Tail(q) \in Seq(S) /\ Len(Tail(q)) = Len(q) - 1 /\ Len(q) \in Nat /\ Len(q) >= 1
         /\ \A i \in 1..(Len(q) - 1) : Tail(q)[i] = q[i + 1]
  BY HeadTailProperties

LEMMA TypeInitially == Init => TypeOK
<1> SUFFICES ASSUME Init PROVE TypeOK
  OBVIOUS
<1>1. MaxLines \in Nat /\ Capacity \in Nat /\ MaxCommands \in Nat
  BY StreamAssumption
<1>2. out \in Seq(Entry) /\ Len(out) <= Capacity
  BY <1>1 DEF Init
<1>3. /\ live \in BOOLEAN /\ paused \in BOOLEAN /\ reading \in BOOLEAN /\ cancelled \in BOOLEAN
      /\ phase \in {"accepted", "history", "streaming", "closed"}
  BY DEF Init
<1>4. /\ since \in [Sources -> 0..MaxLines] /\ logged \in [Sources -> 0..MaxLines]
      /\ next \in [Sources -> 0..(MaxLines + 1)] /\ fwd \in [Sources -> 0..MaxLines]
      /\ last \in [Sources -> 0..MaxLines] /\ commands \in 0..MaxCommands /\ late \in Nat
  BY <1>1 DEF Init
<1>5. /\ fetch \subseteq Sources /\ opened \subseteq Sources /\ running \subseteq opened
      /\ hold \in {<<>>} \cup Entry /\ shown \subseteq Entry /\ discarded \subseteq Entry
  BY DEF Init
<1> QED BY <1>2, <1>3, <1>4, <1>5 DEF TypeOK, Entry

LEMMA TypeKeeps == TypeOK /\ [Next]_vars => TypeOK'
<1> SUFFICES ASSUME TypeOK, [Next]_vars PROVE TypeOK'
  OBVIOUS
<1> USE DEF fanin, control, account
<1>0. MaxLines \in Nat /\ Capacity \in Nat \ {0} /\ MaxCommands \in Nat /\ TailLines \in Nat
  BY StreamAssumption
<1>1. ASSUME Return PROVE TypeOK'
  BY <1>0, <1>1 DEF Return, TypeOK
<1>2. CASE Start
  BY <1>0, <1>2 DEF Start, TypeOK
<1>3. ASSUME NEW s \in Sources, Fetch(s) PROVE TypeOK'
  <2>1. \A i \in 1..(logged[s] + 1) : i..logged[s] \subseteq 1..MaxLines
    BY <1>0 DEF TypeOK
  <2>2. \A lines \in History(s) : lines \subseteq Entry
    <3>1. \A es \in Newest(s) : es \subseteq 1..MaxLines
      BY <2>1 DEF Newest
    <3>2. \A es \in SUBSET (1..logged[s]) : es \subseteq 1..MaxLines
      BY <1>0 DEF TypeOK
    <3> QED BY <3>1, <3>2 DEF History, Entry
  <2>3. shown' \subseteq Entry
    BY <2>2, <1>3 DEF Fetch, TypeOK, Entry
  <2> QED BY <2>3, <1>3 DEF Fetch, TypeOK, Entry
<1>4. ASSUME NEW s \in Sources, FetchFails(s) PROVE TypeOK'
  BY <1>4 DEF FetchFails, TypeOK
<1>5. ASSUME NEW ok \in SUBSET Sources, NEW first \in [ok -> 1..(MaxLines + 1)], Open(ok, first)
      PROVE  TypeOK'
  <2>1. next' \in [Sources -> 0..(MaxLines + 1)] /\ since' \in [Sources -> 0..MaxLines]
    <3>1. \A s \in ok : first[s] \in 0..(MaxLines + 1)
      BY <1>0
    <3>2. /\ next' = [s \in Sources |-> IF s \in ok THEN first[s] ELSE 0]
          /\ since' = [s \in Sources |-> 0]
      BY <1>5 DEF Open
    <3> QED BY <1>0, <3>1, <3>2
  <2> QED BY <2>1, <1>5 DEF Open, TypeOK
<1>6. CASE Receive
  <2>1. hold' \in Entry /\ out' \in Seq(Entry) /\ Len(out') <= Capacity
    <3>1. out \in Seq(Entry) /\ Len(out) <= Capacity /\ out # <<>>
          /\ hold' = Head(out) /\ out' = Tail(out)
      BY <1>6 DEF Receive, TypeOK, Entry
    <3>2. Head(out) \in Entry /\ Tail(out) \in Seq(Entry) /\ Len(Tail(out)) <= Capacity
      BY ONLY <1>0, <3>1, Beheaded
    <3> QED BY <3>1, <3>2
  <2> QED BY <2>1, <1>6 DEF Receive, TypeOK, Entry
<1>7. CASE Discard
  <2>1. discarded' \subseteq Entry /\ out' \in Seq(Entry) /\ Len(out') <= Capacity
    <3>1. out \in Seq(Entry) /\ Len(out) <= Capacity /\ out # <<>> /\ discarded \subseteq Entry
          /\ discarded' = discarded \cup {Head(out)} /\ out' = Tail(out)
      BY <1>7 DEF Discard, TypeOK, Entry
    <3>2. Head(out) \in Entry /\ Tail(out) \in Seq(Entry) /\ Len(Tail(out)) <= Capacity
      BY ONLY <1>0, <3>1, Beheaded
    <3> QED BY <3>1, <3>2
  <2> QED BY <2>1, <1>7 DEF Discard, TypeOK, Entry
<1>8. CASE Write
  <2>1. hold \in Entry /\ hold[1] \in Sources /\ hold[2] \in 1..MaxLines
    BY <1>8 DEF Write, TypeOK, Entry
  <2>2. shown' \subseteq Entry /\ last' \in [Sources -> 0..MaxLines] /\ late' \in Nat
    BY <1>0, <1>8, <2>1 DEF Write, TypeOK, Entry
  <2> QED BY <2>2, <1>8 DEF Write, TypeOK, Entry
<1>9. ASSUME NEW s \in Sources, Take(s) PROVE TypeOK'
  <2>1. next[s] \in 0..MaxLines /\ next[s] + 1 \in 0..(MaxLines + 1)
    BY <1>0, <1>9 DEF Take, TypeOK
  <2> QED BY <2>1, <1>9 DEF Take, TypeOK
<1>10. ASSUME NEW s \in Sources, Put(s) PROVE TypeOK'
  <2>1. <<s, fwd[s]>> \in Entry
    BY <1>0, <1>10 DEF Put, TypeOK, Entry
  <2>2. out' \in Seq(Entry) /\ Len(out') <= Capacity
    BY <1>0, <1>10, <2>1, Appended DEF Put, Room, TypeOK, Entry
  <2>3. fwd' \in [Sources -> 0..MaxLines]
    BY <1>0, <1>10 DEF Put, Kept, TypeOK
  <2> QED BY <2>2, <2>3, <1>10 DEF Put, TypeOK, Entry
<1>11. ASSUME NEW s \in Sources, EndForwarder(s) PROVE TypeOK'
  BY <1>11 DEF EndForwarder, TypeOK
<1>12. ASSUME NEW s \in Sources, LogLine(s) PROVE TypeOK'
  <2>1. logged[s] + 1 \in 0..MaxLines
    BY <1>0, <1>12 DEF LogLine, TypeOK
  <2> QED BY <2>1, <1>12 DEF LogLine, TypeOK
<1>13. ASSUME NEW p \in BOOLEAN, Command(p) PROVE TypeOK'
  <2>1. paused' \in BOOLEAN
    BY <1>13, Zenon DEF Command
  <2>2. commands' \in 0..MaxCommands /\ late' \in Nat
    BY <1>0, <1>13 DEF Command, TypeOK
  <2>3. UNCHANGED <<logged, live, phase, since, fetch, opened, next, fwd, running, out, hold,
                    reading, cancelled, shown, discarded, last>>
    BY <1>13 DEF Command
  <2> QED BY <2>1, <2>2, <2>3 DEF TypeOK
<1>14. CASE ReaderEnds
  BY <1>14 DEF ReaderEnds, TypeOK
<1>15. CASE Cancel
  BY <1>15 DEF Cancel, TypeOK
<1>16. CASE UNCHANGED vars
  BY <1>16 DEF vars, TypeOK
<1>17. CASE Handler
  BY <1>1, <1>2, <1>3, <1>4, <1>5, <1>6, <1>7, <1>8, <1>17
  DEF Handler, OpenNone, HistoryAborts, WriteFails, StreamEnds
<1>18. ASSUME NEW s \in Sources, LogLine(s) \/ Forwarder(s) \/ EndForwarder(s)
       PROVE  TypeOK'
  BY <1>9, <1>10, <1>11, <1>12, <1>18 DEF Forwarder
<1> QED
  BY <1>13, <1>14, <1>15, <1>16, <1>17, <1>18 DEF Next

-----------------------------------------------------------------------------
(* Nothing but the history is shown before the live streams open.          *)
LEMMA EarlyInitially == Init => StartInv /\ HistoryInv
  BY DEF Init, StartInv, HistoryInv

LEMMA EarlyKeeps ==
  ASSUME TypeOK, StartInv, HistoryInv, [Next]_vars
  PROVE  StartInv' /\ HistoryInv'
<1> USE DEF fanin, control, account
<1>0. MaxLines \in Nat /\ TailLines \in Nat /\ logged \in [Sources -> 0..MaxLines]
      /\ since \in [Sources -> 0..MaxLines]
  BY StreamAssumption DEF TypeOK
<1> DEFINE Early == phase \in {"accepted", "history"}
<1>1. ASSUME phase' \notin {"accepted", "history"} PROVE StartInv' /\ HistoryInv'
  BY <1>1 DEF StartInv, HistoryInv
<1>2. CASE Start
  <2>1. StartInv'
    BY <1>2 DEF Start, StartInv
  <2>2. /\ shown' = {} /\ since' = logged /\ logged' = logged /\ live' = live
        /\ live => fetch' = {}
    BY <1>2 DEF Start, StartInv
  <2> QED BY <1>0, <2>1, <2>2 DEF HistoryInv, Seen
<1>3. ASSUME NEW s \in Sources, Fetch(s) PROVE StartInv' /\ HistoryInv'
  <2>1. StartInv'
    BY <1>3 DEF Fetch, StartInv
  <2>2. /\ phase = "history" /\ s \in fetch /\ fetch' = fetch \ {s}
        /\ logged' = logged /\ since' = since /\ live' = live
    BY <1>3 DEF Fetch
  <2>3. ~live /\ since[s] <= logged[s] /\ Seen(s) = {}
    BY <2>2 DEF HistoryInv
  <2>4. PICK lines \in History(s) : shown' = shown \cup lines
    BY <1>3 DEF Fetch
  <2>5. \A t \in Sources : t # s => Seen(t)' = Seen(t)
    BY <2>4 DEF Seen, History
  <2>6. s \in Exact => \A o \in Seen(s)' : \A e \in o..since[s] : e \in Seen(s)'
    <3> SUFFICES ASSUME s \in Exact, NEW o \in Seen(s)', NEW e \in o..since[s] PROVE e \in Seen(s)'
      OBVIOUS
    <3>1. PICK first \in 1..(logged[s] + 1) : lines = {s} \X (first..logged[s])
      BY <2>4 DEF History, Newest
    <3>2. \A d \in 1..MaxLines : d \in Seen(s)' <=> d \in first..logged[s]
      BY <2>3, <2>4, <3>1 DEF Seen
    <3>3. o \in 1..MaxLines /\ o \in first..logged[s]
      BY <3>2 DEF Seen
    <3>4. e \in 1..MaxLines /\ e \in first..logged[s]
      BY <1>0, <2>3, <3>3
    <3> QED BY <3>2, <3>4
  <2>7. \A t \in Sources : /\ since[t] <= logged[t]
                           /\ t \in fetch' => Seen(t)' = {}
                           /\ t \in Exact => \A o \in Seen(t)' : \A e \in o..since[t] : e \in Seen(t)'
    BY <2>2, <2>5, <2>6 DEF HistoryInv
  <2>8. ~live'
    BY <2>2, <2>3
  <2> QED BY <2>1, <2>2, <2>7, <2>8 DEF HistoryInv
<1>4. ASSUME NEW s \in Sources, FetchFails(s) PROVE StartInv' /\ HistoryInv'
  BY <1>4 DEF FetchFails, StartInv, HistoryInv, Seen
<1>5. CASE UNCHANGED <<live, phase, since, fetch, fwd, out, hold, last, discarded, opened,
                       reading, shown>> /\ (logged' = logged \/ \E s \in Sources : LogLine(s))
  <2>1. \A s \in Sources : logged'[s] >= logged[s]
    BY <1>0, <1>5 DEF LogLine
  <2>2. \A s \in Sources : Seen(s)' = Seen(s)
    BY <1>5 DEF Seen
  <2>3. StartInv'
    BY <1>5 DEF StartInv
  <2>4. \A s \in Sources : since[s] <= logged[s] => since'[s] <= logged'[s]
    <3> TAKE s \in Sources
    <3>1. logged'[s] \in Int /\ logged[s] \in Int /\ since[s] \in Int /\ since' = since
      BY <1>0, <1>5 DEF LogLine
    <3> QED BY <2>1, <3>1
  <2> QED BY <1>5, <2>2, <2>3, <2>4 DEF HistoryInv
<1>6. CASE \/ Receive \/ Discard \/ Write \/ Return
           \/ \E ok \in SUBSET Sources : \E first \in [ok -> 1..(MaxLines + 1)] : Open(ok, first)
  <2>1. phase' \notin {"accepted", "history"}
    BY <1>6 DEF Receive, Discard, Write, Return, Open
  <2> QED BY <1>1, <2>1
<1>7. CASE Handler
  BY <1>2, <1>3, <1>4, <1>6, <1>7
  DEF Handler, OpenNone, HistoryAborts, WriteFails, StreamEnds
<1>8. ASSUME NEW s \in Sources, Forwarder(s) \/ EndForwarder(s) PROVE StartInv' /\ HistoryInv'
  <2>1. ~Early /\ phase' = phase
    BY <1>8 DEF Forwarder, Take, Put, EndForwarder, StartInv, TypeOK
  <2> QED BY <1>1, <2>1
<1>9. ASSUME NEW s \in Sources, LogLine(s) PROVE StartInv' /\ HistoryInv'
  BY <1>5, <1>9 DEF LogLine
<1>10. CASE ReaderEnds \/ \E p \in BOOLEAN : Command(p)
  <2>1. ~Early /\ phase' = phase
    BY <1>10 DEF ReaderEnds, Command, StartInv
  <2> QED BY <1>1, <2>1
<1>11. CASE Cancel \/ UNCHANGED vars
  BY <1>5, <1>11 DEF Cancel, vars
<1> QED
  BY <1>7, <1>8, <1>9, <1>10, <1>11 DEF Next

-----------------------------------------------------------------------------
(* A pause that comes between the check of the flag and the write lets one *)
(* line through.                                                           *)
LEMMA PauseInitially == Init => PauseInv
  BY DEF Init, PauseInv

LEMMA PauseKeeps ==
  ASSUME TypeOK, PauseInv, [Next]_vars
  PROVE  PauseInv'
<1> USE DEF fanin, control, account
<1>1. CASE Return
  BY <1>1 DEF Return, PauseInv
<1>2. CASE Receive
  BY <1>2 DEF Receive, IsPaused, PauseInv
<1>3. CASE Write
  BY <1>3 DEF Write, PauseInv, TypeOK
<1>4. ASSUME NEW p \in BOOLEAN, Command(p) PROVE PauseInv'
  BY <1>4 DEF Command, PauseInv
<1>5. CASE UNCHANGED <<paused, late, hold>>
  BY <1>5 DEF PauseInv
<1>6. CASE Handler
  BY <1>1, <1>2, <1>3, <1>5, <1>6
  DEF Handler, OpenNone, HistoryAborts, WriteFails, StreamEnds, Start, Fetch, FetchFails, Open,
      Discard
<1>7. ASSUME NEW s \in Sources, LogLine(s) \/ Forwarder(s) \/ EndForwarder(s) PROVE PauseInv'
  BY <1>5, <1>7 DEF LogLine, Forwarder, Take, Put, EndForwarder
<1>8. CASE ReaderEnds \/ Cancel \/ UNCHANGED vars
  BY <1>5, <1>8 DEF ReaderEnds, Cancel, vars
<1> QED
  BY <1>4, <1>6, <1>7, <1>8 DEF Next

-----------------------------------------------------------------------------
(* Where an entry of a source is, on its way to the client or past it.     *)
Holds(s, e) ==
  \/ <<s, e>> \in shown \cup discarded
  \/ fwd[s] = e \/ hold = <<s, e>>
  \/ \E i \in 1..Len(out) : out[i] = <<s, e>>

LEMMA InFlightIsHeld ==
  \A s, e : e \in InFlight(s) <=> e \in 1..MaxLines /\ Holds(s, e)
  BY DEF InFlight, Holds

(* A step that moves entries along loses none of them.                     *)
LEMMA MovesKeepGaps ==
  ASSUME GapInv, NEW s \in opened \cap Exact, next'[s] = next[s],
         phase = "streaming", ~cancelled,
         \A e \in 1..MaxLines : Holds(s, e)' <=> Holds(s, e)
  PROVE  \A o \in InFlight(s)' : \A e \in o..(next'[s] - 1) : e \in InFlight(s)'
<1>1. \A e : e \in InFlight(s)' <=> e \in InFlight(s)
  BY InFlightIsHeld DEF InFlight, Holds
<1> QED BY <1>1 DEF GapInv

LEMMA GapInitially == Init => GapInv
  BY DEF Init, GapInv

LEMMA OpenKeepsGaps ==
  ASSUME TypeOK, StartInv, HistoryInv, NEW ok \in SUBSET Sources,
         NEW first \in [ok -> 1..(MaxLines + 1)], Open(ok, first)
  PROVE  GapInv'
<1>1. /\ phase = "history" /\ opened' = ok /\ shown' = shown /\ discarded' = discarded
      /\ fwd' = fwd /\ hold' = hold /\ out' = out
      /\ \A s \in ok : next'[s] = first[s] /\ first[s] \in Begins(s)
  BY DEF Open, fanin, control, account
<1>2. fwd = [s \in Sources |-> 0] /\ hold = <<>> /\ out = <<>> /\ discarded = {}
  BY <1>1 DEF StartInv
<1>3. MaxLines \in Nat /\ since \in [Sources -> 0..MaxLines]
  BY StreamAssumption DEF TypeOK
<1>4. ASSUME NEW s \in ok, s \in Exact
      PROVE  \A o \in InFlight(s)' : \A e \in o..(next'[s] - 1) : e \in InFlight(s)'
  <2>1. \A e : e \in InFlight(s)' <=> e \in Seen(s)
    BY <1>1, <1>2 DEF InFlight, Seen
  <2>2. CASE live
    BY <1>1, <2>1, <2>2 DEF HistoryInv, Seen
  <2>3. CASE ~live
    <3>1. next'[s] \in Int /\ next'[s] - 1 <= since[s] /\ since[s] \in Int
      BY <1>1, <1>3, <1>4, <2>3 DEF From, Begins
    <3>2. \A o \in Seen(s) : \A e \in o..since[s] : e \in Seen(s)
      BY <1>1, <1>4 DEF HistoryInv
    <3>3. \A o \in Seen(s) : o \in Int
      BY DEF Seen
    <3> SUFFICES ASSUME NEW o \in Seen(s), NEW e \in o..(next'[s] - 1) PROVE e \in Seen(s)
      BY <2>1
    <3>4. e \in o..since[s]
      BY <3>1, <3>3
    <3> QED BY <3>2, <3>4
  <2> QED BY <2>2, <2>3
<1> QED BY <1>1, <1>4 DEF GapInv

LEMMA TakeKeepsGaps ==
  ASSUME TypeOK, GapInv, NEW s \in Sources, Take(s)
  PROVE  GapInv'
<1> SUFFICES ASSUME phase = "streaming", ~cancelled, NEW t \in opened \cap Exact
             PROVE  \A o \in InFlight(t)' : \A e \in o..(next'[t] - 1) : e \in InFlight(t)'
  BY DEF GapInv, Take, control, account
<1>1. /\ fwd[s] = 0 /\ fwd'[s] = next[s] /\ next'[s] = next[s] + 1
      /\ \A u \in Sources : u # s => fwd'[u] = fwd[u] /\ next'[u] = next[u]
      /\ UNCHANGED <<shown, discarded, hold, out>>
  BY DEF Take, MayTake, account, TypeOK
<1>2. t \in Sources /\ MaxLines \in Nat /\ next[s] \in Nat /\ logged[s] \in 0..MaxLines
      /\ next[s] <= logged[s] /\ next[t] \in Nat
  BY StreamAssumption DEF TypeOK, Take
<1>3. CASE t # s
  <2>1. next'[t] = next[t] /\ \A e : Holds(t, e)' <=> Holds(t, e)
    BY <1>1, <1>2, <1>3 DEF Holds
  <2> QED BY <2>1, MovesKeepGaps
<1>4. CASE t = s
  <2>1. \A e \in 1..MaxLines : Holds(s, e)' <=> Holds(s, e) \/ e = next[s]
    BY <1>1, <1>2 DEF Holds
  <2>2. \A e \in 1..MaxLines : e \in InFlight(s)' <=> e \in InFlight(s) \/ e = next[s]
    BY <2>1, InFlightIsHeld DEF InFlight, Holds
  <2>3. ASSUME NEW o \in InFlight(s)', NEW e \in o..next[s] PROVE e \in InFlight(s)'
    <3>1. o \in 1..MaxLines /\ e \in 1..MaxLines
      BY <1>2 DEF InFlight
    <3>2. CASE e = next[s]
      BY <2>2, <3>1, <3>2
    <3>3. CASE e # next[s]
      <4>1. o # next[s] /\ e \in o..(next[s] - 1)
        BY <1>2, <3>1, <3>3
      <4>2. o \in InFlight(s)
        BY <2>2, <3>1, <4>1
      <4> QED BY <1>4, <2>2, <3>1, <4>1, <4>2 DEF GapInv
    <3> QED BY <3>2, <3>3
  <2>4. next'[s] - 1 = next[s]
    BY <1>1, <1>2
  <2> QED BY <1>4, <2>3, <2>4
<1> QED BY <1>3, <1>4

LEMMA MoveKeepsGaps ==
  ASSUME TypeOK, GapInv, Receive \/ Discard \/ Write \/ \E s \in Sources : Put(s)
  PROVE  GapInv'
<1> USE DEF fanin, control, account
<1>1. next' = next /\ opened' = opened /\ phase' = phase /\ cancelled' = cancelled
  BY DEF Receive, Discard, Write, Put
<1>2. out \in Seq(Entry) /\ opened \subseteq Sources
  BY DEF TypeOK, Entry
<1> SUFFICES ASSUME NEW t \in Sources, NEW e \in 1..MaxLines
             PROVE  Holds(t, e)' <=> Holds(t, e)
  BY <1>1, <1>2, MovesKeepGaps DEF GapInv
<1> DEFINE x == <<t, e>>
<1>3. x # <<>> /\ e # 0
  BY StreamAssumption
<1>4. CASE Receive
  <2>1. (\E i \in 1..Len(out) : out[i] = x) <=>
          Head(out) = x \/ \E i \in 1..Len(Tail(out)) : Tail(out)[i] = x
    <3> HIDE DEF x
    <3>1. Receive /\ out # <<>>
      BY <1>4 DEF Receive
    <3> QED BY <1>2, <3>1, Beheaded
  <2>2. /\ hold = <<>> /\ hold' = Head(out) /\ out' = Tail(out) /\ fwd' = fwd
        /\ shown' = shown /\ discarded' = discarded
    BY <1>4 DEF Receive
  <2> QED BY <1>3, <2>1, <2>2 DEF Holds
<1>5. CASE Discard
  <2>1. (\E i \in 1..Len(out) : out[i] = x) <=>
          Head(out) = x \/ \E i \in 1..Len(Tail(out)) : Tail(out)[i] = x
    <3> HIDE DEF x
    <3>1. out # <<>>
      BY <1>5 DEF Discard
    <3> QED BY <1>2, <3>1, Beheaded
  <2>2. /\ hold' = hold /\ out' = Tail(out) /\ fwd' = fwd
        /\ shown' = shown /\ discarded' = discarded \cup {Head(out)}
    BY <1>5 DEF Discard
  <2> QED BY <1>3, <2>1, <2>2 DEF Holds
<1>6. CASE Write
  <2>1. /\ hold' = <<>> /\ out' = out /\ fwd' = fwd
        /\ shown' = shown \cup {hold} /\ discarded' = discarded
    BY <1>6 DEF Write, fanin
  <2> QED BY <1>3, <2>1 DEF Holds
<1>7. ASSUME NEW s \in Sources, Put(s) PROVE Holds(t, e)' <=> Holds(t, e)
  <2> DEFINE y == <<s, fwd[s]>>
  <2>1. /\ out' = Append(out, y) /\ fwd'[s] = 0 /\ \A u \in Sources : u # s => fwd'[u] = fwd[u]
        /\ hold' = hold /\ shown' = shown /\ discarded' = discarded
    BY <1>7 DEF Put, Kept, TypeOK
  <2>2. y \in Entry
    BY <1>7, StreamAssumption, SMTT(20) DEF Put, TypeOK, Entry
  <2>3. (\E i \in 1..Len(out') : out'[i] = x) <=> y = x \/ \E i \in 1..Len(out) : out[i] = x
    <3> HIDE DEF x, y
    <3> QED BY <1>2, <2>1, <2>2, Appended
  <2>4. y = x <=> s = t /\ fwd[s] = e
    OBVIOUS
  <2> QED BY <1>3, <2>1, <2>3, <2>4 DEF Holds
<1> QED BY <1>4, <1>5, <1>6, <1>7

LEMMA GapKeeps ==
  ASSUME TypeOK, StartInv, HistoryInv, GapInv, [Next]_vars
  PROVE  GapInv'
<1> USE DEF fanin, control, account
<1>1. ASSUME phase' # "streaming" \/ cancelled' PROVE GapInv'
  BY <1>1 DEF GapInv
<1>2. CASE UNCHANGED <<phase, cancelled, opened, next, shown, discarded, fwd, hold, out>>
  <2>1. \A s \in opened : \A e : Holds(s, e)' <=> Holds(s, e)
    BY <1>2 DEF Holds
  <2> QED BY <1>2, <2>1, MovesKeepGaps DEF GapInv
<1>3. CASE Return \/ Start \/ \E s \in Sources : Fetch(s) \/ FetchFails(s)
  BY <1>1, <1>3 DEF Return, Start, Fetch, FetchFails
<1>4. CASE Handler
  BY <1>3, <1>4, OpenKeepsGaps, MoveKeepsGaps
  DEF Handler, OpenNone, HistoryAborts, WriteFails, StreamEnds
<1>5. ASSUME NEW s \in Sources, LogLine(s) \/ Forwarder(s) \/ EndForwarder(s) PROVE GapInv'
  <2>1. LogLine(s) \/ EndForwarder(s) => GapInv'
    BY <1>2 DEF LogLine, EndForwarder
  <2>2. Take(s) \/ Put(s) => GapInv'
    BY TakeKeepsGaps, MoveKeepsGaps
  <2> QED BY <1>5, <2>1, <2>2 DEF Forwarder
<1>6. CASE Cancel
  BY <1>1, <1>6 DEF Cancel
<1>7. CASE ReaderEnds \/ UNCHANGED vars \/ \E p \in BOOLEAN : Command(p)
  BY <1>2, <1>7 DEF ReaderEnds, Command, vars
<1> QED
  BY <1>4, <1>5, <1>6, <1>7 DEF Next

-----------------------------------------------------------------------------
(* The order of each source along the path to the client.                  *)
LEMMA OrderInitially == Init => OrderInv
  BY DEF Init, OrderInv

LEMMA OpenKeepsOrder ==
  ASSUME TypeOK, StartInv, NEW ok \in SUBSET Sources,
         NEW first \in [ok -> 1..(MaxLines + 1)], Open(ok, first)
  PROVE  OrderInv'
<1>1. /\ phase = "history" /\ opened' = ok /\ last' = last
      /\ fwd' = fwd /\ hold' = hold /\ out' = out
      /\ \A s \in ok : next'[s] = first[s]
  BY DEF Open, fanin, control, account
<1>2. /\ fwd = [s \in Sources |-> 0] /\ hold = <<>> /\ out = <<>>
      /\ last = [s \in Sources |-> 0]
  BY <1>1 DEF StartInv
<1>3. \A s \in ok : first[s] > 0
  BY StreamAssumption
<1>4. \A s \in ok : /\ last'[s] = 0 /\ fwd'[s] = 0 /\ hold' = <<>> /\ out' = <<>>
                    /\ next'[s] > 0
  BY <1>1, <1>2, <1>3
<1>5. \A s \in ok : OrderOf(s)'
  BY <1>4 DEF OrderOf, Ahead, Increases
<1> QED BY <1>1, <1>5 DEF OrderInv

LEMMA TakeKeepsOrder ==
  ASSUME TypeOK, OrderInv, NEW s \in Sources, Take(s)
  PROVE  OrderInv'
<1> SUFFICES ASSUME phase = "streaming", NEW t \in opened, OrderOf(t)
             PROVE  OrderOf(t)'
  BY DEF OrderInv, Take, control, account
<1>1. /\ fwd[s] = 0 /\ fwd'[s] = next[s] /\ next'[s] = next[s] + 1
      /\ \A u \in Sources : u # s => fwd'[u] = fwd[u] /\ next'[u] = next[u]
      /\ UNCHANGED <<last, hold, out>>
  BY DEF Take, MayTake, account, TypeOK
<1>2. t \in Sources /\ next[s] \in Nat /\ next[t] \in Nat
  BY StreamAssumption DEF TypeOK
<1>3. next[s] # 0 \/ t # s
  BY <1>1, StreamAssumption DEF OrderOf, TypeOK, Ahead
<1>4. Ahead(t)' = Ahead(t) /\ fwd'[t] < next'[t]
  BY <1>1, <1>2, <1>3 DEF Ahead, OrderOf
<1> QED BY <1>1, <1>4 DEF OrderOf, Increases

LEMMA PutKeepsOrder ==
  ASSUME TypeOK, OrderInv, NEW s \in Sources, Put(s)
  PROVE  OrderInv'
<1> SUFFICES ASSUME phase = "streaming", NEW t \in opened, OrderOf(t)
             PROVE  OrderOf(t)'
  BY DEF OrderInv, Put, control, account
<1> DEFINE y == <<s, fwd[s]>>
<1>1. /\ out' = Append(out, y) /\ fwd'[s] = 0 /\ fwd[s] # 0
      /\ \A u \in Sources : u # s => fwd'[u] = fwd[u]
      /\ UNCHANGED <<last, hold, next>>
  BY DEF Put, Kept, account, TypeOK
<1>2. /\ t \in Sources /\ next[t] \in Nat /\ last[t] \in Nat /\ fwd[t] \in Nat
      /\ y[1] = s /\ y[2] = fwd[s]
  BY StreamAssumption DEF TypeOK
<1>3. out \in Seq(Entry) /\ y \in Entry
  BY <1>1, StreamAssumption, SMTT(20) DEF TypeOK, Entry
<1> HIDE DEF y
<1>4. /\ Len(out') = Len(out) + 1 /\ Len(out) \in Nat /\ out'[Len(out) + 1] = y
      /\ \A i \in 1..Len(out) : out'[i] = out[i]
  BY <1>1, <1>3, Appended
<1>5. \A i \in 1..Len(out) : out[i] \in Entry /\ out[i][2] \in Nat
  BY <1>3, StreamAssumption DEF Entry
<1>6. CASE t # s
  <2>1. Ahead(t)' = Ahead(t)
    BY <1>1, <1>2, <1>6 DEF Ahead
  <2>2. \A i \in 1..Len(out') : out'[i][1] = t => i \in 1..Len(out) /\ out'[i] = out[i]
    BY <1>2, <1>4, <1>6
  <2>3. Increases(t, out)'
    BY <1>4, <2>2 DEF OrderOf, Increases
  <2> QED BY <1>1, <1>2, <1>6, <2>1, <2>2, <2>3 DEF OrderOf
<1>7. CASE t = s
  <2>1. Ahead(s) = fwd[s] /\ Ahead(s)' = next[s] /\ fwd[s] < next[s]
    BY <1>1, <1>7 DEF Ahead, OrderOf
  <2>2. \A i \in 1..Len(out') : \/ i \in 1..Len(out) /\ out'[i] = out[i]
                                \/ i = Len(out) + 1 /\ out'[i] = y
    BY <1>4
  <2>3. last[s] < fwd[s] /\ (hold # <<>> /\ hold[1] = s => hold[2] < fwd[s])
    BY <1>7, <2>1 DEF OrderOf
  <2>4. Increases(s, out)'
    <3> SUFFICES ASSUME NEW i \in 1..Len(out'), NEW j \in 1..Len(out'), i < j,
                        out'[i][1] = s, out'[j][1] = s
                 PROVE  out'[i][2] < out'[j][2]
      BY DEF Increases
    <3>1. i \in 1..Len(out) /\ out'[i] = out[i]
      BY <1>4, <2>2
    <3>2. CASE j \in 1..Len(out) /\ out'[j] = out[j]
      BY <1>7, <3>1, <3>2 DEF OrderOf, Increases
    <3>3. CASE j = Len(out) + 1 /\ out'[j] = y
      BY <1>2, <1>7, <2>1, <3>1, <3>3 DEF OrderOf
    <3> QED BY <2>2, <3>2, <3>3
  <2>5. hold # <<>> /\ hold[1] = s => hold[2] \in Nat
    BY StreamAssumption DEF TypeOK
  <2>6. ASSUME NEW i \in 1..Len(out'), out'[i][1] = s
        PROVE  /\ last[s] < out'[i][2] /\ out'[i][2] < next[s]
               /\ hold # <<>> /\ hold[1] = s => hold[2] < out'[i][2]
    <3>1. CASE i \in 1..Len(out) /\ out'[i] = out[i]
      <4>1. /\ last[s] < out[i][2] /\ out[i][2] < fwd[s]
            /\ hold # <<>> /\ hold[1] = s => hold[2] < out[i][2]
        BY <1>7, <2>1, <2>6, <3>1 DEF OrderOf
      <4> QED BY <1>2, <1>5, <1>7, <2>1, <3>1, <4>1
    <3>2. CASE i = Len(out) + 1 /\ out'[i] = y
      BY <1>2, <2>1, <2>3, <3>2
    <3> QED BY <2>2, <3>1, <3>2
  <2>7. last[s] < next[s] /\ (hold # <<>> /\ hold[1] = s => hold[2] < next[s]) /\ fwd'[s] < next[s]
    BY <1>1, <1>2, <1>7, <2>1, <2>3, <2>5
  <2> QED BY <1>1, <1>7, <2>1, <2>3, <2>4, <2>6, <2>7 DEF OrderOf
<1> QED BY <1>6, <1>7

LEMMA OutKeepsOrder ==
  ASSUME TypeOK, OrderInv, Receive \/ Discard
  PROVE  OrderInv'
<1> SUFFICES ASSUME phase = "streaming", NEW t \in opened, OrderOf(t)
             PROVE  OrderOf(t)'
  BY DEF OrderInv, Receive, Discard, control, account
<1>1. /\ out # <<>> /\ out' = Tail(out) /\ hold = <<>> /\ (hold' = Head(out) \/ hold' = hold)
      /\ UNCHANGED <<last, next, fwd>>
  BY DEF Receive, Discard, account
<1>2. out \in Seq(Entry)
  BY DEF TypeOK, Entry
<1>3. /\ Head(out) = out[1] /\ Len(out') = Len(out) - 1 /\ Len(out) \in Nat /\ Len(out) >= 1
      /\ \A i \in 1..Len(out') : out'[i] = out[i + 1] /\ i + 1 \in 1..Len(out) /\ 1 < i + 1
  BY <1>1, <1>2, Beheaded
<1>4. Ahead(t)' = Ahead(t)
  BY <1>1 DEF Ahead
<1>5. Increases(t, out)'
  BY <1>3, SMTT(20) DEF OrderOf, Increases
<1>6. \A i \in 1..Len(out') : out'[i][1] = t =>
        /\ last[t] < out'[i][2] /\ out'[i][2] < Ahead(t)
        /\ out[1][1] = t => out[1][2] < out'[i][2]
  BY <1>3 DEF OrderOf, Increases
<1>7. 1 \in 1..Len(out)
  BY <1>3
<1>8. out[1][1] = t => last[t] < out[1][2] /\ out[1][2] < Ahead(t)
  BY <1>7 DEF OrderOf
<1> QED BY <1>1, <1>3, <1>4, <1>5, <1>6, <1>8 DEF OrderOf

LEMMA WriteKeepsOrder ==
  ASSUME TypeOK, OrderInv, Write
  PROVE  OrderInv'
<1> SUFFICES ASSUME phase = "streaming", NEW t \in opened, OrderOf(t)
             PROVE  OrderOf(t)'
  BY DEF OrderInv, Write, control, account
<1>1. /\ hold # <<>> /\ hold' = <<>> /\ last'[hold[1]] = hold[2]
      /\ \A u \in Sources : u # hold[1] => last'[u] = last[u]
      /\ UNCHANGED <<next, fwd, out>>
  BY DEF Write, fanin, TypeOK
<1>2. t \in Sources /\ Ahead(t)' = Ahead(t) /\ Increases(t, out)'
  BY <1>1 DEF Ahead, TypeOK, OrderOf, Increases
<1>3. \/ hold[1] = t /\ last'[t] = hold[2]
      \/ hold[1] # t /\ last'[t] = last[t]
  BY <1>1, <1>2
<1> QED BY <1>1, <1>2, <1>3 DEF OrderOf

LEMMA OrderKeeps ==
  ASSUME TypeOK, StartInv, OrderInv, [Next]_vars
  PROVE  OrderInv'
<1> USE DEF fanin, control, account
<1>1. ASSUME phase' # "streaming" PROVE OrderInv'
  BY <1>1 DEF OrderInv
<1>2. CASE UNCHANGED <<phase, opened, next, last, fwd, hold, out>>
  BY <1>2 DEF OrderInv, OrderOf, Ahead, Increases
<1>3. CASE Return \/ Start \/ \E s \in Sources : Fetch(s) \/ FetchFails(s)
  BY <1>1, <1>3 DEF Return, Start, Fetch, FetchFails
<1>4. CASE Handler
  BY <1>3, <1>4, OpenKeepsOrder, OutKeepsOrder, WriteKeepsOrder
  DEF Handler, OpenNone, HistoryAborts, WriteFails, StreamEnds
<1>5. ASSUME NEW s \in Sources, LogLine(s) \/ Forwarder(s) \/ EndForwarder(s) PROVE OrderInv'
  <2>1. LogLine(s) \/ EndForwarder(s) => OrderInv'
    BY <1>2 DEF LogLine, EndForwarder
  <2>2. Take(s) \/ Put(s) => OrderInv'
    BY TakeKeepsOrder, PutKeepsOrder
  <2> QED BY <1>5, <2>1, <2>2 DEF Forwarder
<1>6. CASE ReaderEnds \/ Cancel \/ UNCHANGED vars \/ \E p \in BOOLEAN : Command(p)
  BY <1>2, <1>6 DEF ReaderEnds, Cancel, Command, vars
<1> QED
  BY <1>4, <1>5, <1>6 DEF Next

-----------------------------------------------------------------------------
(* Two sequences, one after the other, keep the order of a source when each *)
(* does and what the first has of it comes before what the second has.      *)
Elems(q) == {q[i] : i \in 1..Len(q)}

LEMMA Joined ==
  ASSUME NEW S, NEW a \in Seq(S), NEW b \in Seq(S), NEW s, Increases(s, a), Increases(s, b),
         \A x \in Elems(a) : \A y \in Elems(b) : x[1] = s /\ y[1] = s => x[2] < y[2]
  PROVE  /\ a \o b \in Seq(S) /\ Increases(s, a \o b)
         /\ Elems(a \o b) = Elems(a) \cup Elems(b)
<1> DEFINE c == a \o b
<1>1. /\ c \in Seq(S) /\ Len(c) = Len(a) + Len(b) /\ Len(a) \in Nat /\ Len(b) \in Nat
      /\ \A k \in 1..(Len(a) + Len(b)) : c[k] = IF k <= Len(a) THEN a[k] ELSE b[k - Len(a)]
  BY ConcatProperties
<1> HIDE DEF c
<1>2. ASSUME NEW k \in 1..Len(c)
      PROVE  \/ k \in 1..Len(a) /\ c[k] = a[k]
             \/ k - Len(a) \in 1..Len(b) /\ k > Len(a) /\ c[k] = b[k - Len(a)]
  <2>1. k <= Len(a) => k \in 1..Len(a)
    BY <1>1
  <2>2. ~(k <= Len(a)) => k - Len(a) \in 1..Len(b) /\ k > Len(a)
    BY <1>1
  <2> QED BY <1>1, <2>1, <2>2
<1>3. Elems(c) = Elems(a) \cup Elems(b)
  <2>1. Elems(c) \subseteq Elems(a) \cup Elems(b)
    BY <1>2 DEF Elems
  <2>2. ASSUME NEW i \in 1..Len(a) PROVE i \in 1..Len(c) /\ c[i] = a[i]
    BY <1>1
  <2>3. ASSUME NEW j \in 1..Len(b) PROVE Len(a) + j \in 1..Len(c) /\ c[Len(a) + j] = b[j]
    <3>1. Len(a) + j \in 1..(Len(a) + Len(b)) /\ ~(Len(a) + j <= Len(a)) /\ Len(a) + j - Len(a) = j
      BY <1>1
    <3> QED BY <1>1, <3>1
  <2>4. Elems(a) \subseteq Elems(c)
    BY <2>2 DEF Elems
  <2>5. Elems(b) \subseteq Elems(c)
    BY <2>3 DEF Elems
  <2> QED BY <2>1, <2>4, <2>5
<1>4. Increases(s, c)
  <2> SUFFICES ASSUME NEW i \in 1..Len(c), NEW j \in 1..Len(c), i < j, c[i][1] = s, c[j][1] = s
               PROVE  c[i][2] < c[j][2]
    BY DEF Increases
  <2>1. CASE j \in 1..Len(a) /\ c[j] = a[j]
    <3>1. i \in 1..Len(a) /\ c[i] = a[i]
      BY <1>1, <1>2, <2>1
    <3> QED BY <2>1, <3>1 DEF Increases
  <2>2. CASE j - Len(a) \in 1..Len(b) /\ c[j] = b[j - Len(a)]
    <3>1. CASE i \in 1..Len(a) /\ c[i] = a[i]
      BY <2>2, <3>1 DEF Elems
    <3>2. CASE i - Len(a) \in 1..Len(b) /\ c[i] = b[i - Len(a)]
      <4>1. i - Len(a) < j - Len(a)
        BY <1>1
      <4> QED BY <2>2, <3>2, <4>1 DEF Increases
    <3> QED BY <1>2, <3>1, <3>2
  <2> QED BY <1>2, <2>1, <2>2
<1> QED BY <1>1, <1>3, <1>4 DEF c

LEMMA Single ==
  ASSUME NEW S, NEW x \in S, NEW s
  PROVE  <<x>> \in Seq(S) /\ Increases(s, <<x>>) /\ Elems(<<x>>) = {x}
  BY DEF Increases, Elems

LEMMA None ==
  ASSUME NEW S, NEW s
  PROVE  <<>> \in Seq(S) /\ Increases(s, <<>>) /\ Elems(<<>>) = {}
  BY DEF Increases, Elems

LEMMA PathIncreases ==
  ASSUME TypeOK, NEW s \in opened, OrderOf(s)
  PROVE  Increases(s, Path(s))
<1> DEFINE S == Sources \X Nat
           shownLast == <<s, last[s]>>
           coming    == <<s, next[s]>>
           p0 == <<shownLast>>
           p1 == p0 \o Held
           p2 == p1 \o out
           p3 == p2 \o Taken(s)
<1>1. /\ s \in Sources /\ shownLast \in S /\ coming \in S
      /\ shownLast[2] = last[s] /\ coming[2] = next[s]
      /\ last[s] \in Nat /\ next[s] \in Nat /\ fwd[s] \in Nat /\ <<s, fwd[s]>> \in S
  BY StreamAssumption DEF TypeOK
<1>2. out \in Seq(S) /\ (hold # <<>> => hold \in S)
  <2>1. Entry \subseteq S
    BY StreamAssumption DEF Entry
  <2>2. out \in Seq(Entry) /\ (hold # <<>> => hold \in Entry)
    BY DEF TypeOK, Entry
  <2>3. out \in [1..Len(out) -> S] /\ Len(out) \in Nat
    BY <2>1, <2>2
  <2> QED BY <2>1, <2>2, <2>3, SeqDef
<1>3. Held \in Seq(S) /\ Increases(s, Held) /\ Elems(Held) = IF hold = <<>> THEN {} ELSE {hold}
  BY <1>2, Single, None DEF Held
<1>4. /\ Taken(s) \in Seq(S) /\ Increases(s, Taken(s))
      /\ Elems(Taken(s)) = IF fwd[s] = 0 THEN {} ELSE {<<s, fwd[s]>>}
  BY <1>1, Single, None DEF Taken
<1>5. p0 \in Seq(S) /\ Increases(s, p0) /\ Elems(p0) = {shownLast}
  BY <1>1, Single
<1>6. /\ <<coming>> \in Seq(S) /\ Increases(s, <<coming>>) /\ Elems(<<coming>>) = {coming}
  BY <1>1, Single
<1>7. \A x \in S : x[2] \in Nat
  OBVIOUS
<1> HIDE DEF S, shownLast, coming, p0
<1>8. p1 \in Seq(S) /\ Increases(s, p1) /\ Elems(p1) = {shownLast} \cup Elems(Held)
  <2>1. \A x \in Elems(p0) : \A y \in Elems(Held) : x[1] = s /\ y[1] = s => x[2] < y[2]
    BY <1>1, <1>3, <1>5 DEF OrderOf
  <2> QED BY <1>3, <1>5, <2>1, Joined
<1>9. \A x \in Elems(p1) : x[1] = s => x[2] < Ahead(s)
  BY <1>1, <1>3, <1>8 DEF OrderOf
<1> HIDE DEF p1
<1>10. p2 \in Seq(S) /\ Increases(s, p2) /\ Elems(p2) = Elems(p1) \cup Elems(out)
  <2>1. \A x \in Elems(p1) : \A y \in Elems(out) : x[1] = s /\ y[1] = s => x[2] < y[2]
    BY <1>1, <1>3, <1>8 DEF OrderOf, Elems
  <2>2. Increases(s, out)
    BY DEF OrderOf
  <2> QED BY <1>2, <1>8, <2>1, <2>2, Joined
<1>11. \A x \in Elems(p2) : x[1] = s => x[2] < Ahead(s)
  <2>1. \A x \in Elems(out) : x[1] = s => x[2] < Ahead(s)
    BY DEF Elems, OrderOf
  <2> QED BY <1>9, <1>10, <2>1
<1> HIDE DEF p2
<1>12. p3 \in Seq(S) /\ Increases(s, p3) /\ Elems(p3) = Elems(p2) \cup Elems(Taken(s))
  <2>1. \A x \in Elems(p2) : \A y \in Elems(Taken(s)) : x[1] = s /\ y[1] = s => x[2] < y[2]
    BY <1>4, <1>11 DEF Ahead
  <2> QED BY <1>4, <1>10, <2>1, Joined
<1>13. \A x \in Elems(p3) : x[1] = s => x[2] < next[s]
  <2>1. \A x \in Elems(p2) : x[1] = s => x[2] < next[s]
    <3>1. \A x \in Elems(p2) : x[2] \in Nat
      BY <1>7, <1>10 DEF Elems
    <3>2. Ahead(s) <= next[s] /\ Ahead(s) \in Nat
      BY <1>1 DEF Ahead, OrderOf
    <3> QED BY <1>1, <1>11, <3>1, <3>2
  <2> QED BY <1>4, <1>12, <2>1 DEF OrderOf
<1> HIDE DEF p3
<1>14. Increases(s, p3 \o <<coming>>)
  BY <1>1, <1>6, <1>12, <1>13, Joined
<1> QED BY <1>14 DEF Path, p0, p1, p2, p3, shownLast, coming

-----------------------------------------------------------------------------
LEMMA SentInitially == Init => IInv
  BY TypeInitially, EarlyInitially, GapInitially, OrderInitially, PauseInitially DEF IInv

LEMMA SentKeeps == IInv /\ [Next]_vars => IInv'
<1> SUFFICES ASSUME IInv, [Next]_vars PROVE IInv'
  OBVIOUS
<1> QED BY TypeKeeps, EarlyKeeps, GapKeeps, OrderKeeps, PauseKeeps DEF IInv

(* Every reachable state of a stream is well typed (stream.go, MergeAll).  *)
THEOREM TypeCorrect == Spec => []TypeOK
<1>1. IInv => TypeOK
  BY DEF IInv
<1> QED BY <1>1, SentInitially, SentKeeps, PTL DEF Spec

(* What a client is sent keeps the order each source yields, stops when it *)
(* asks for a pause, and has no gap after the history of a source whose    *)
(* provider honours the time asked for (handleWebSocketStream, MergeAll),  *)
(* whatever the others make of it, whatever the sources log, the           *)
(* forwarders' turns and when the connection ends.                         *)
THEOREM ClientsAreSentFaithfully == Spec => []SentFaithfully
<1>1. IInv => NoGap
  <2> SUFFICES ASSUME TypeOK, GapInv, phase = "streaming", ~cancelled,
                      NEW s \in opened \cap Exact, NEW e \in 1..(next[s] - 1), NEW o \in Seen(s), o <= e
               PROVE  e \in InFlight(s)
    BY DEF IInv, NoGap
  <2>1. o \in InFlight(s)
    BY DEF Seen, InFlight
  <2>2. o \in Nat /\ next[s] \in Nat
    BY StreamAssumption DEF Seen, TypeOK
  <2>3. e \in o..(next[s] - 1)
    BY <2>2
  <2> QED BY <2>1, <2>3 DEF GapInv
<1>2. IInv => OrderPerSource
  BY PathIncreases DEF IInv, OrderInv, OrderPerSource
<1>3. IInv => PauseTakesHold
  BY DEF IInv, PauseInv, PauseTakesHold
<1> QED BY <1>1, <1>2, <1>3, SentInitially, SentKeeps, PTL DEF Spec, SentFaithfully

-----------------------------------------------------------------------------

(* An operator of the library stands for one value wherever it is applied  *)
(* to one set.                                                             *)
LEMMA SameCardinality == \A S : Cardinality(S) = Cardinality(S)
  BY DEF Cardinality, Cardinality

(* The elements of a set of integers, listed from the least. *)
Increasing(q, n) == \A i, j \in 1..n : i < j => q[i] < q[j]

Lists(q, n, E) ==
  /\ q \in [1..n -> E] /\ Increasing(q, n)
  /\ \A e \in E : \E j \in 1..n : q[j] = e

(* The j-th of them is no less than j of them.                             *)
Counts(q, n, E) == \A j \in 1..n : Cardinality({e \in E : e <= q[j]}) = j

(* How many elements are no greater than each: all counts occur.           *)
LEMMA RanksOnto ==
  ASSUME NEW K, K \subseteq Int, IsFiniteSet(K)
  PROVE  /\ Cardinality(K) \in Nat
         /\ \A k \in 1..Cardinality(K) : \E i \in K : Cardinality({j \in K : j <= i}) = k
         /\ \A i, h \in K : i <= h => Cardinality({j \in K : j <= i}) <= Cardinality({j \in K : j <= h})
<1> DEFINE Upto(i) == {j \in K : j <= i}
           rank == [i \in K |-> Cardinality(Upto(i))]
           N == Cardinality(K)
<1>1. N \in Nat
  BY FS_CardinalityType
<1>2. ASSUME NEW i \in K PROVE IsFiniteSet(Upto(i)) /\ Cardinality(Upto(i)) \in 1..N
  <2>1. Upto(i) \subseteq K
    OBVIOUS
  <2>2. i \in Upto(i)
    OBVIOUS
  <2> HIDE DEF Upto
  <2>3. IsFiniteSet(Upto(i)) /\ Cardinality(Upto(i)) \in Nat /\ Cardinality(Upto(i)) <= N
    BY <1>1, <2>1, FS_Subset, FS_CardinalityType
  <2>4. Cardinality(Upto(i)) # 0
    BY <2>2, <2>3, FS_EmptySet
  <2> QED BY <1>1, <2>3, <2>4
<1>3. ASSUME NEW i \in K, NEW h \in K, i <= h
      PROVE  /\ Cardinality(Upto(i)) <= Cardinality(Upto(h))
             /\ i # h => Cardinality(Upto(i)) # Cardinality(Upto(h))
  <2>0. \A j \in K : j \in Int
    OBVIOUS
  <2>1. Upto(i) \subseteq Upto(h) /\ h \in Upto(h) /\ (i # h => h \notin Upto(i))
    <3>2. \A j \in K : j <= i => j <= h
      BY <1>3, <2>0
    <3>3. h <= h /\ (i # h => ~(h <= i))
      BY <1>3, <2>0
    <3> QED BY <3>2, <3>3
  <2>2. IsFiniteSet(Upto(h))
    BY <1>2
  <2> HIDE DEF Upto
  <2>3. Upto(i) \in SUBSET Upto(h)
    BY <2>1
  <2>4. /\ Cardinality(Upto(i)) <= Cardinality(Upto(h))
        /\ Cardinality(Upto(h)) = Cardinality(Upto(i)) => Upto(h) = Upto(i)
    BY ONLY <2>2, <2>3, FS_Subset
  <2> QED BY <2>1, <2>4
<1>4. \A i, h \in K : Cardinality(Upto(i)) = Cardinality(Upto(h)) => i = h
  <2> SUFFICES ASSUME NEW i \in K, NEW h \in K, Cardinality(Upto(i)) = Cardinality(Upto(h)) PROVE i = h
    OBVIOUS
  <2>1. i \in Int /\ h \in Int
    OBVIOUS
  <2>2. i <= h \/ h <= i
    BY <2>1
  <2> HIDE DEF Upto
  <2> QED BY <1>3, <2>2
<1>5. rank \in Injection(K, 1..N)
  <2> HIDE DEF Upto, N
  <2> QED BY <1>2, <1>4 DEF Injection, IsInjective
<1> HIDE DEF rank
<1>6. Cardinality(1..N) = N /\ IsFiniteSet(1..N)
  BY <1>1, FS_Interval
<1>7. rank \in Surjection(K, 1..N)
  BY <1>1, <1>5, <1>6, FS_Injection
<1>8. \A k \in 1..N : \E i \in K : Cardinality(Upto(i)) = k
  <2> HIDE DEF Upto, N
  <2> QED BY <1>7 DEF Surjection, rank
<1> QED BY <1>1, <1>3, <1>8

(* InOrder does list the set: the elements, put by how many are no greater,*)
(* are such a list.                                                        *)
LEMMA InOrderLists ==
  ASSUME NEW K, K \subseteq Int, IsFiniteSet(K)
  PROVE  Cardinality(K) \in Nat /\ Lists(InOrder(K), Cardinality(K), K)
<1> DEFINE Rank(i) == Cardinality({j \in K : j <= i})
           N == Cardinality(K)
           Good(q) == q \in [1..N -> K] /\ \A i, j \in DOMAIN q : i < j => q[i] < q[j]
           r == [j \in 1..N |-> CHOOSE i \in K : Rank(i) = j]
           q == InOrder(K)
<1>1. /\ N \in Nat
      /\ \A k \in 1..N : \E i \in K : Rank(i) = k
      /\ \A i, h \in K : i <= h => Rank(i) <= Rank(h)
  BY RanksOnto
<1>2. \A j \in 1..N : r[j] \in K /\ Rank(r[j]) = j
  <2> HIDE DEF Rank, N
  <2> QED BY <1>1
<1>3. Good(r)
  <2>1. r \in [1..N -> K] /\ DOMAIN r = 1..N
    BY <1>2
  <2>2. ASSUME NEW i \in 1..N, NEW j \in 1..N, i < j PROVE r[i] < r[j]
    <3>1. r[i] \in Int /\ r[j] \in Int
      BY <1>2
    <3>2. ~(Rank(r[j]) <= Rank(r[i]))
      <4>1. Rank(r[i]) = i /\ Rank(r[j]) = j
        BY <1>2
      <4>2. i \in Int /\ j \in Int
        OBVIOUS
      <4> HIDE DEF Rank, N, r
      <4> QED BY <2>2, <4>1, <4>2
    <3>3. ~(r[j] <= r[i])
      <4> HIDE DEF Rank, N, r
      <4> QED BY <1>1, <1>2, <3>2
    <3> QED BY <3>1, <3>3
  <2> HIDE DEF r
  <2> QED BY <2>1, <2>2
<1>4. q = CHOOSE x \in [1..N -> K] : \A i, j \in DOMAIN x : i < j => x[i] < x[j]
  BY SameCardinality DEF InOrder
<1>5. Good(q)
  <2> HIDE DEF r, q, N
  <2> QED BY <1>3, <1>4
<1> HIDE DEF r, q, Good, Rank
<1>6. q \in [1..N -> K] /\ Increasing(q, N)
  BY <1>5 DEF Good, Increasing
<1>7. q \in Injection(1..N, K)
  <2> SUFFICES ASSUME NEW i \in 1..N, NEW j \in 1..N, q[i] = q[j] PROVE i = j
    BY <1>6 DEF Injection, IsInjective
  <2>1. q[i] \in Int
    BY <1>6
  <2>2. i \in Int /\ j \in Int
    OBVIOUS
  <2> HIDE DEF N
  <2>3. ~(q[i] < q[j]) /\ ~(q[j] < q[i])
    BY <2>1
  <2> QED BY <1>6, <2>2, <2>3 DEF Increasing
<1>8. IsFiniteSet(1..N) /\ Cardinality(1..N) = N
  BY <1>1, FS_Interval
<1>9. q \in Surjection(1..N, K)
  BY <1>7, <1>8, FS_Injection, SameCardinality
<1>10. \A e \in K : \E j \in 1..N : q[j] = e
  BY <1>9 DEF Surjection
<1> HIDE DEF N
<1>11. N \in Nat /\ Lists(q, N, K)
  BY <1>1, <1>6, <1>10 DEF Lists
<1> QED BY <1>11 DEF N, q

(* Counting up to the j-th gives j. *)
LEMMA ListedCount ==
  ASSUME NEW n \in Nat, NEW K, K \subseteq Int, NEW q, Lists(q, n, K)
  PROVE  /\ IsFiniteSet(K) /\ Cardinality(K) = n
         /\ Counts(q, n, K)
<1>1. q \in [1..n -> K] /\ Increasing(q, n) /\ \A e \in K : \E j \in 1..n : q[j] = e
  BY DEF Lists
<1>2. \A j \in 1..n : q[j] \in K /\ q[j] \in Int
  BY <1>1
<1>3. ASSUME NEW j \in 0..n, NEW S, S = {q[i] : i \in 1..j}
      PROVE  IsFiniteSet(S) /\ Cardinality(S) = j
  <2> DEFINE f == [i \in 1..j |-> q[i]]
  <2>1. j \in Nat /\ 1..j \subseteq 1..n
    OBVIOUS
  <2>2. f \in Injection(1..j, S)
    <3>1. f \in [1..j -> S]
      BY <1>3
    <3>2. ASSUME NEW i \in 1..j, NEW h \in 1..j, f[i] = f[h] PROVE i = h
      <4>1. i \in 1..n /\ h \in 1..n /\ q[i] = q[h]
        BY <2>1, <3>2
      <4>2. q[i] \in Int /\ ~(q[i] < q[h]) /\ ~(q[h] < q[i])
        BY <1>2, <4>1
      <4> QED BY <1>1, <4>1, <4>2 DEF Increasing
    <3> HIDE DEF f
    <3> QED BY <3>1, <3>2 DEF Injection, IsInjective
  <2>3. f \in Surjection(1..j, S)
    BY <1>3, <2>2 DEF Surjection, Injection
  <2> HIDE DEF f
  <2>4. ExistsBijection(1..j, S)
    BY <2>2, <2>3 DEF ExistsBijection, Bijection
  <2>5. IsFiniteSet(1..j) /\ Cardinality(1..j) = j
    BY <2>1, FS_Interval
  <2> QED BY <2>4, <2>5, FS_Bijection
<1>4. K = {q[i] : i \in 1..n}
  BY <1>1, <1>2
<1>5. n \in 0..n
  OBVIOUS
<1>6. IsFiniteSet(K) /\ Cardinality(K) = n
  BY <1>3, <1>4, <1>5
<1>7. ASSUME NEW j \in 1..n PROVE {k \in K : k <= q[j]} = {q[i] : i \in 1..j}
  <2>1. ASSUME NEW i \in 1..n PROVE q[i] <= q[j] <=> i <= j
    <3>1. q[i] \in Int /\ q[j] \in Int
      BY <1>2
    <3>2. CASE i < j
      <4>1. q[i] < q[j]
        BY <1>1, <3>2 DEF Increasing
      <4> QED BY <3>1, <3>2, <4>1
    <3>3. CASE i = j
      BY <3>1, <3>3
    <3>4. CASE j < i
      <4>1. q[j] < q[i]
        BY <1>1, <3>4 DEF Increasing
      <4> QED BY <3>1, <3>4, <4>1
    <3> QED BY <3>2, <3>3, <3>4
  <2>2. \A i \in 1..j : i \in 1..n /\ i <= j
    OBVIOUS
  <2>3. \A i \in 1..n : i <= j => i \in 1..j
    OBVIOUS
  <2>4. ASSUME NEW k \in K, k <= q[j] PROVE k \in {q[i] : i \in 1..j}
    <3>1. PICK i \in 1..n : q[i] = k
      BY <1>1
    <3> QED BY <2>1, <2>3, <2>4, <3>1
  <2>5. ASSUME NEW i \in 1..j PROVE q[i] \in {k \in K : k <= q[j]}
    BY <1>2, <2>1, <2>2
  <2> QED BY <2>4, <2>5
<1>8. ASSUME NEW j \in 1..n PROVE Cardinality({e \in K : e <= q[j]}) = j
  <2>1. j \in 0..n
    OBVIOUS
  <2> QED BY <1>3, <1>7, <2>1
<1> QED BY <1>6, <1>8 DEF Counts

(* So there is one way to list a set in order. *)
LEMMA InOrderIs ==
  ASSUME NEW n \in Nat, NEW K, K \subseteq Int, NEW f, Lists(f, n, K)
  PROVE  InOrder(K) = f
<1> DEFINE q == InOrder(K)
<1>1. IsFiniteSet(K) /\ Cardinality(K) = n
  BY ListedCount
<1>2. Lists(q, n, K)
  <2>1. Lists(q, Cardinality(K), K)
    BY <1>1, InOrderLists
  <2> QED BY <1>1, <2>1
<1> HIDE DEF q
<1>3. ASSUME NEW j \in 1..n PROVE q[j] = f[j]
  <2>1. q[j] \in K
    BY <1>2 DEF Lists
  <2>2. PICK h \in 1..n : f[h] = q[j]
    BY <2>1 DEF Lists
  <2>3. Cardinality({e \in K : e <= f[h]}) = h
    <3>1. Counts(f, n, K)
      BY ListedCount
    <3> QED BY <3>1 DEF Counts
  <2>4. Cardinality({e \in K : e <= q[j]}) = j
    <3>1. Counts(q, n, K)
      BY <1>2, ListedCount
    <3> QED BY <3>1 DEF Counts
  <2> QED BY <2>2, <2>3, <2>4
<1>4. q \in [1..n -> K] /\ f \in [1..n -> K]
  BY <1>2 DEF Lists
<1>5. q = f
  BY <1>3, <1>4
<1> QED BY <1>5 DEF q

(* What each line after an offset covers. *)
FromOf(o, q, j) == IF j = 1 THEN o + 1 ELSE q[j - 1] + 1
LastOf(s, q, j) == IF s[q[j]] = "n" THEN q[j] - 1 ELSE q[j]
ToOf(s, o, q, j) ==
  IF LastOf(s, q, j) >= FromOf(o, q, j) /\ s[LastOf(s, q, j)] = "r"
  THEN LastOf(s, q, j) - 1 ELSE LastOf(s, q, j)

(* What is read from an offset: one span for each end, in their order. *)
Spans(s, o, q, n, lines) ==
  /\ n \in Nat /\ Lists(q, n, LineEnds(s, o))
  /\ lines = [j \in 1..n |-> <<FromOf(o, q, j), ToOf(s, o, q, j)>>]

(* Lines gives these spans.                                                *)
LEMMA LinesAreSpans ==
  ASSUME NEW s, Len(s) \in Nat, NEW o \in Nat
  PROVE  \E n \in Nat : Spans(s, o, Ends(s, o), n, Lines(s, o))
<1> DEFINE E == LineEnds(s, o)
           n == Cardinality(E)
           q == Ends(s, o)
<1>1. E \subseteq Int /\ IsFiniteSet(E)
  <2>1. IsFiniteSet((o + 1)..Len(s))
    BY FS_Interval
  <2>2. E \subseteq (o + 1)..Len(s)
    BY DEF LineEnds
  <2>3. E \subseteq Int
    BY <2>2
  <2>4. E \in SUBSET ((o + 1)..Len(s))
    BY <2>2
  <2> HIDE DEF E
  <2>5. IsFiniteSet(E)
    BY <2>1, <2>4, FS_Subset
  <2> QED BY <2>3, <2>5
<1>2. q = InOrder(E)
  BY DEF Ends
<1> HIDE DEF E
<1>3. n \in Nat /\ Lists(q, n, E)
  BY <1>1, <1>2, InOrderLists
<1> HIDE DEF n
<1>4. q \in [1..n -> E]
  BY <1>3 DEF Lists
<1>5. Len(q) = n
  BY <1>3, <1>4
<1>6. Lines(s, o) = [j \in 1..Len(q) |-> <<FromOf(o, q, j), ToOf(s, o, q, j)>>]
  BY DEF Lines, FromOf, ToOf, LastOf
<1> HIDE DEF q
<1>7. Lines(s, o) = [j \in 1..n |-> <<FromOf(o, q, j), ToOf(s, o, q, j)>>]
  BY <1>5, <1>6
<1>8. Spans(s, o, q, n, Lines(s, o))
  BY <1>3, <1>7 DEF Spans, E
<1> QED BY <1>3, <1>8 DEF q

(* The spans of a read are places of the object, in order, and between two *)
(* of them there is a newline.                                             *)
LEMMA SpansFit ==
  ASSUME NEW s, Len(s) \in Nat, NEW o \in Nat, NEW q, NEW n, NEW lines,
         Spans(s, o, q, n, lines)
  PROVE  /\ lines = [j \in 1..n |-> lines[j]] /\ Len(lines) = n /\ n \in Nat
         /\ \A j \in 1..n :
              /\ lines[j] = <<lines[j][1], lines[j][2]>>
              /\ q[j] \in (o + 1)..Len(s) /\ (j < n => s[q[j]] = "n")
              /\ lines[j][1] \in (o + 1)..Len(s) /\ lines[j][2] \in 0..Len(s)
              /\ lines[j][1] - 1 <= lines[j][2]
              /\ lines[j][2] <= q[j] /\ (s[q[j]] = "n" => lines[j][2] < q[j])
              /\ IF j = 1 THEN lines[j][1] = o + 1 ELSE lines[j][1] = q[j - 1] + 1
<1>1. n \in Nat /\ q \in [1..n -> LineEnds(s, o)] /\ Increasing(q, n)
  BY DEF Spans, Lists
<1>2. lines = [j \in 1..n |-> <<FromOf(o, q, j), ToOf(s, o, q, j)>>]
  BY DEF Spans
<1>3. lines = [j \in 1..n |-> lines[j]] /\ Len(lines) = n
  BY <1>1, <1>2
<1>4. \A j \in 1..n : q[j] \in (o + 1)..Len(s) /\ (s[q[j]] = "n" \/ q[j] = Len(s))
  BY <1>1 DEF LineEnds
<1>5. \A i, j \in 1..n : i < j => q[i] < q[j]
  BY <1>1 DEF Increasing
<1>6. ASSUME NEW j \in 1..n, j < n PROVE s[q[j]] = "n"
  <2>1. j + 1 \in 1..n /\ j < j + 1
    BY <1>1, <1>6
  <2>2. q[j] < q[j + 1] /\ q[j + 1] \in (o + 1)..Len(s) /\ q[j] \in (o + 1)..Len(s)
    BY <1>4, <1>5, <2>1
  <2>3. q[j] # Len(s)
    BY <2>2
  <2> QED BY <1>4, <2>3
<1>7. ASSUME NEW j \in 1..n
      PROVE  /\ FromOf(o, q, j) \in (o + 1)..Len(s) /\ FromOf(o, q, j) <= q[j]
             /\ IF j = 1 THEN FromOf(o, q, j) = o + 1 ELSE FromOf(o, q, j) = q[j - 1] + 1
  <2>1. q[j] \in (o + 1)..Len(s)
    BY <1>4
  <2>2. CASE j = 1
    BY <2>1, <2>2 DEF FromOf
  <2>3. CASE j # 1
    <3>1. j - 1 \in 1..n /\ j - 1 < j
      BY <1>1, <2>3
    <3>2. q[j - 1] \in (o + 1)..Len(s) /\ q[j - 1] < q[j]
      BY <1>4, <1>5, <3>1
    <3> QED BY <2>1, <2>3, <3>2 DEF FromOf
  <2> QED BY <2>2, <2>3
<1>8. ASSUME NEW j \in 1..n
      PROVE  /\ ToOf(s, o, q, j) \in 0..Len(s) /\ FromOf(o, q, j) - 1 <= ToOf(s, o, q, j)
             /\ ToOf(s, o, q, j) <= q[j] /\ (s[q[j]] = "n" => ToOf(s, o, q, j) < q[j])
  <2>1. FromOf(o, q, j) \in (o + 1)..Len(s) /\ FromOf(o, q, j) <= q[j] /\ q[j] \in (o + 1)..Len(s)
    BY <1>4, <1>7
  <2>2. /\ LastOf(s, q, j) \in Int /\ FromOf(o, q, j) - 1 <= LastOf(s, q, j) /\ LastOf(s, q, j) <= q[j]
        /\ s[q[j]] = "n" => LastOf(s, q, j) < q[j]
    BY <2>1 DEF LastOf
  <2>3. ToOf(s, o, q, j) = LastOf(s, q, j)
          \/ (ToOf(s, o, q, j) = LastOf(s, q, j) - 1 /\ LastOf(s, q, j) >= FromOf(o, q, j))
    BY DEF ToOf
  <2> QED BY <2>1, <2>2, <2>3
<1>9. \A j \in 1..n : lines[j] = <<FromOf(o, q, j), ToOf(s, o, q, j)>>
  BY <1>2
<1>10. ASSUME NEW j \in 1..n
       PROVE  /\ lines[j][1] = FromOf(o, q, j) /\ lines[j][2] = ToOf(s, o, q, j)
              /\ lines[j] = <<lines[j][1], lines[j][2]>>
  BY <1>9
<1> QED BY <1>1, <1>3, <1>4, <1>6, <1>7, <1>8, <1>10

(* A read of all of s moves the offset forward, and at most one byte past  *)
(* its end.                                                                *)
LEMMA AllReadStaysInside ==
  ASSUME NEW s, Len(s) \in Nat, NEW o \in Nat, o <= Len(s)
  PROVE  BytesRead(o, Lines(s, o)) \in o..(Len(s) + 1)
<1>0. PICK n \in Nat : Spans(s, o, Ends(s, o), n, Lines(s, o))
  BY LinesAreSpans
<1> DEFINE q == Ends(s, o)
           lines == Lines(s, o)
           B == Bytes(lines)
           N == {q[j] : j \in 1..(n - 1)}
<1>1. Spans(s, o, q, n, lines)
  BY <1>0
<1> HIDE DEF q, lines
<1>2. /\ lines = [j \in 1..n |-> lines[j]] /\ Len(lines) = n /\ n \in Nat
      /\ \A j \in 1..n :
              /\ lines[j] = <<lines[j][1], lines[j][2]>>
              /\ q[j] \in (o + 1)..Len(s) /\ (j < n => s[q[j]] = "n")
              /\ lines[j][1] \in (o + 1)..Len(s) /\ lines[j][2] \in 0..Len(s)
              /\ lines[j][1] - 1 <= lines[j][2]
              /\ lines[j][2] <= q[j] /\ (s[q[j]] = "n" => lines[j][2] < q[j])
              /\ IF j = 1 THEN lines[j][1] = o + 1 ELSE lines[j][1] = q[j - 1] + 1
  BY <1>1, SpansFit
<1>3. \A i, j \in 1..n : i < j => q[i] < q[j]
  BY <1>1 DEF Spans, Lists, Increasing
<1>4. B \subseteq (o + 1)..Len(s)
  <2> SUFFICES ASSUME NEW j \in 1..n, NEW i \in lines[j][1]..lines[j][2] PROVE i \in (o + 1)..Len(s)
    BY <1>2 DEF Bytes
  <2> QED BY <1>2
<1>5. N \subseteq (o + 1)..Len(s)
  <2> SUFFICES ASSUME NEW j \in 1..(n - 1) PROVE q[j] \in (o + 1)..Len(s)
    OBVIOUS
  <2> j \in 1..n
    OBVIOUS
  <2> QED BY <1>2
<1>6. B \cap N = {}
  <2> SUFFICES ASSUME NEW j \in 1..n, NEW h \in 1..(n - 1), q[h] \in lines[j][1]..lines[j][2]
               PROVE  FALSE
    <3>1. ASSUME NEW i \in B, i \in N PROVE \E j \in 1..n, h \in 1..(n - 1) : q[h] \in lines[j][1]..lines[j][2]
      <4>1. PICK j \in 1..n : i \in lines[j][1]..lines[j][2]
        BY <1>2 DEF Bytes
      <4>2. PICK h \in 1..(n - 1) : i = q[h]
        BY <3>1
      <4> QED BY <4>1, <4>2
    <3> HIDE DEF B, N
    <3> QED BY <3>1
  <2>1. h \in 1..n /\ h < n
    OBVIOUS
  <2>2. s[q[h]] = "n" /\ q[h] \in Int /\ q[j] \in Int /\ lines[j][1] \in Int /\ lines[j][2] \in Int
    BY <1>2, <2>1
  <2>3. CASE h < j
    <3>1. j # 1 /\ j - 1 \in 1..n
      BY <2>3
    <3>2. lines[j][1] = q[j - 1] + 1 /\ q[j - 1] \in Int
      BY <1>2, <3>1
    <3>3. q[h] <= q[j - 1]
      <4>1. h < j - 1 \/ h = j - 1
        BY <2>3
      <4>2. CASE h < j - 1
        BY <1>3, <2>1, <2>2, <3>1, <3>2, <4>2
      <4> QED BY <2>2, <4>1, <4>2
    <3> QED BY <2>2, <3>2, <3>3
  <2>4. CASE h = j
    BY <1>2, <2>2, <2>4
  <2>5. CASE j < h
    <3>1. q[j] < q[h] /\ lines[j][2] <= q[j]
      BY <1>2, <1>3, <2>1, <2>5
    <3> QED BY <2>2, <3>1
  <2> QED BY <2>3, <2>4, <2>5
<1>7. IsFiniteSet((o + 1)..Len(s)) /\ Cardinality((o + 1)..Len(s)) = Len(s) - o
  <2>1. o + 1 \in Int /\ Len(s) \in Int
    OBVIOUS
  <2>2. IsFiniteSet((o + 1)..Len(s)) /\ Cardinality((o + 1)..Len(s)) = IF o + 1 > Len(s) THEN 0 ELSE Len(s) - (o + 1) + 1
    BY <2>1, FS_Interval
  <2> QED BY <2>2
<1>8. IsFiniteSet(B) /\ Cardinality(B) \in Nat
  <2> HIDE DEF B
  <2> QED BY <1>4, <1>7, FS_Subset, FS_CardinalityType
<1>9. n # 0 => IsFiniteSet(N) /\ Cardinality(N) = n - 1
  <2> SUFFICES ASSUME n # 0 PROVE IsFiniteSet(N) /\ Cardinality(N) = n - 1
    OBVIOUS
  <2> DEFINE p == [j \in 1..(n - 1) |-> q[j]]
  <2>1. \A i, j \in 1..(n - 1) : i < j => q[i] < q[j]
    <3>1. 1..(n - 1) \subseteq 1..n
      OBVIOUS
    <3> QED BY <1>3, <3>1
  <2>2. p \in [1..(n - 1) -> N] /\ \A e \in N : \E j \in 1..(n - 1) : p[j] = e
    OBVIOUS
  <2>3. \A i, j \in 1..(n - 1) : i < j => p[i] < p[j]
    BY <2>1
  <2>4. N \subseteq Int
    BY <1>5
  <2> HIDE DEF p, N
  <2>5. Lists(p, n - 1, N)
    BY <2>2, <2>3 DEF Lists, Increasing
  <2>6. n - 1 \in Nat
    OBVIOUS
  <2> QED BY <2>4, <2>5, <2>6, ListedCount
<1> DEFINE c == Cardinality(B)
<1>10. BytesRead(o, lines) = o + c + n
  BY <1>2 DEF BytesRead
<1>11. c + n <= Len(s) - o + 1 /\ c \in Nat
  <2>1. CASE n = 0
    <3>1. B = {}
      BY <1>2, <2>1 DEF Bytes
    <3>2. c = 0
      <4> HIDE DEF B
      <4> QED BY <3>1, FS_EmptySet
    <3> QED BY <2>1, <3>2
  <2>2. CASE n # 0
    <3> DEFINE d == Cardinality(B \cup N)
               M == Cardinality(N)
    <3>1. IsFiniteSet(N) /\ M = n - 1
      BY <1>9, <2>2
    <3> HIDE DEF B, N
    <3>2. B \cup N \subseteq (o + 1)..Len(s)
      BY <1>4, <1>5
    <3>3. d = Cardinality(B) + Cardinality(N) - Cardinality(B \cap N)
      BY ONLY <1>8, <3>1, FS_Union
    <3>4. Cardinality(B \cap N) = 0
      BY <1>6, FS_EmptySet
    <3>5. d <= Len(s) - o
      <4> DEFINE U == B \cup N
      <4>1. U \in SUBSET ((o + 1)..Len(s))
        BY <3>2
      <4> HIDE DEF U
      <4>2. Cardinality(U) <= Cardinality((o + 1)..Len(s))
        BY <1>7, <4>1, FS_Subset
      <4>3. Cardinality(U) <= Len(s) - o
        BY <1>7, <4>2
      <4> QED BY <4>3 DEF U
    <3>6. d = c + (n - 1) - 0
      BY <3>1, <3>3, <3>4
    <3> HIDE DEF d, c
    <3>7. c \in Nat
      BY <1>8 DEF c
    <3> QED BY <2>2, <3>5, <3>6, <3>7
  <2> QED BY <2>1, <2>2
<1> HIDE DEF c
<1>12. BytesRead(o, lines) \in o..(Len(s) + 1)
  BY <1>10, <1>11
<1> QED BY <1>12 DEF lines

(* A read moves the offset forward, and at most one byte past what was read *)
(* of the object: by the newline that a last line without one is counted    *)
(* with.  So it is wherever the body breaks off, and wherever the scan stops *)
(* at a line that does not fit its buffer (bytesRead of readContentBuffered, *)
(* readAndStream).                                                          *)
THEOREM ReadStaysInside ==
  ASSUME NEW s \in Seq({"c", "r", "n"}), NEW o \in Nat, NEW p \in o..Len(s)
  PROVE  BytesRead(o, Lines(SubSeq(s, 1, p), o)) \in o..(p + 1)
<1> DEFINE t == SubSeq(s, 1, p)
<1>1. Len(t) = p /\ Len(t) \in Nat /\ o <= Len(t)
  <2>1. Len(s) \in Nat /\ p \in Nat /\ p <= Len(s) /\ o <= p
    OBVIOUS
  <2>2. Len(t) = p
    BY <2>1
  <2> QED BY <2>1, <2>2
<1> HIDE DEF t
<1>2. BytesRead(o, Lines(t, o)) \in o..(Len(t) + 1)
  BY <1>1, AllReadStaysInside
<1> QED BY <1>1, <1>2 DEF t

(* A plain object: characters and newlines, none of them after its last line.*)
Regular(s) ==
  /\ \A i \in 1..Len(s) : s[i] # "r"
  /\ Len(s) > 0 => s[Len(s)] = "n"

Newlines(s) == {i \in 1..Len(s) : s[i] = "n"}
LineCount(s) == Len(InOrder(Newlines(s)))

(* Where its line j ends, what the line covers, and whether it fits the    *)
(* scanner's buffer.                                                       *)
At(s, j) == IF j = 0 THEN 0 ELSE InOrder(Newlines(s))[j]
Line(s, j) == <<At(s, j - 1) + 1, At(s, j) - 1>>
Fits(s, j) == At(s, j) - At(s, j - 1) - 1 <= MaxLine
AllFit(s, d, n) == \A j \in (d + 1)..n : Fits(s, j)

(* Its lines d+1 to n. *)
LinesOf(s, d, n) == [i \in 1..(n - d) |-> Line(s, d + i)]

(* The m newlines of s, in order. *)
Breaks(s, m) ==
  /\ m \in Nat /\ At(s, 0) = 0
  /\ \A j \in 1..m : At(s, j) \in 1..Len(s) /\ s[At(s, j)] = "n"
  /\ \A i, j \in 0..m : i < j => At(s, i) < At(s, j)
  /\ \A e \in 1..Len(s) : s[e] = "n" => \E j \in 1..m : At(s, j) = e

LEMMA NewlinesListed ==
  ASSUME NEW s, Len(s) \in Nat
  PROVE  /\ LineCount(s) \in Nat /\ Newlines(s) \subseteq Int
         /\ Lists(InOrder(Newlines(s)), LineCount(s), Newlines(s))
<1> DEFINE E == Newlines(s)
           q == InOrder(E)
           n == Cardinality(E)
<1>1. E \in SUBSET (1..Len(s)) /\ E \subseteq Int
  BY DEF Newlines
<1>2. IsFiniteSet(1..Len(s))
  BY FS_Interval
<1> HIDE DEF E
<1>3. IsFiniteSet(E)
  BY <1>1, <1>2, FS_Subset
<1>4. n \in Nat /\ Lists(q, n, E)
  BY <1>1, <1>3, InOrderLists
<1> HIDE DEF q, n
<1>5. Len(q) = n
  BY <1>4 DEF Lists
<1>6. Len(q) \in Nat /\ Lists(q, Len(q), E) /\ E \subseteq Int
  BY <1>1, <1>4, <1>5
<1> QED BY <1>6 DEF LineCount, q, E

LEMMA BreaksOf ==
  ASSUME NEW s, Len(s) \in Nat
  PROVE  Breaks(s, LineCount(s))
<1> DEFINE q == InOrder(Newlines(s))
           m == LineCount(s)
<1>1. m \in Nat /\ Lists(q, m, Newlines(s))
  BY NewlinesListed
<1> HIDE DEF m
<1>2. At(s, 0) = 0 /\ \A j \in 1..m : At(s, j) = q[j]
  BY DEF At
<1> HIDE DEF q
<1>3. \A j \in 1..m : q[j] \in 1..Len(s) /\ s[q[j]] = "n"
  BY <1>1 DEF Lists, Newlines
<1>4. \A j \in 1..m : At(s, j) \in 1..Len(s) /\ s[At(s, j)] = "n"
  BY <1>2, <1>3
<1>5. ASSUME NEW i \in 0..m, NEW j \in 0..m, i < j PROVE At(s, i) < At(s, j)
  <2>1. j \in 1..m
    BY <1>1, <1>5
  <2>2. CASE i = 0
    BY <1>2, <1>4, <2>1, <2>2
  <2>3. CASE i # 0
    <3>1. i \in 1..m
      BY <1>1, <2>3
    <3>2. q[i] < q[j]
      BY <1>1, <1>5, <2>1, <3>1 DEF Lists, Increasing
    <3> QED BY <1>2, <2>1, <3>1, <3>2
  <2> QED BY <2>2, <2>3
<1>6. ASSUME NEW e \in 1..Len(s), s[e] = "n" PROVE \E j \in 1..m : At(s, j) = e
  <2>1. e \in Newlines(s)
    BY <1>6 DEF Newlines
  <2>2. PICK j \in 1..m : q[j] = e
    BY <1>1, <2>1 DEF Lists
  <2> QED BY <1>2, <2>2
<1> QED BY <1>1, <1>2, <1>4, <1>5, <1>6 DEF Breaks, m

(* Between two newlines next to each other there is none, and after the    *)
(* last of a plain object there is nothing.                                *)
LEMMA BreaksFacts ==
  ASSUME NEW s, Len(s) \in Nat, NEW m, Breaks(s, m)
  PROVE  /\ \A j \in 0..m : At(s, j) \in 0..Len(s) /\ At(s, j) \in Int
         /\ \A i, j \in 0..m : i <= j => At(s, i) <= At(s, j)
         /\ \A j \in 1..m : \A i \in (At(s, j - 1) + 1)..(At(s, j) - 1) : s[i] # "n"
         /\ Regular(s) => At(s, m) = Len(s)
<1>1. m \in Nat /\ At(s, 0) = 0 /\ \A i, j \in 0..m : i < j => At(s, i) < At(s, j)
  BY DEF Breaks
<1>2. ASSUME NEW j \in 0..m PROVE At(s, j) \in 0..Len(s) /\ At(s, j) \in Int
  <2>1. CASE j = 0
    BY <1>1, <2>1
  <2>2. CASE j # 0
    <3>1. j \in 1..m
      BY <1>1, <2>2
    <3>2. At(s, j) \in 1..Len(s)
      BY <3>1 DEF Breaks
    <3> QED BY <3>2
  <2> QED BY <2>1, <2>2
<1>3. ASSUME NEW i \in 0..m, NEW j \in 0..m, i <= j PROVE At(s, i) <= At(s, j)
  <2>1. i = j \/ i < j
    BY <1>1, <1>3
  <2> QED BY <1>1, <1>2, <2>1
<1>4. ASSUME NEW j \in 1..m, NEW i \in (At(s, j - 1) + 1)..(At(s, j) - 1), s[i] = "n" PROVE FALSE
  <2>1. j - 1 \in 0..m /\ j \in 0..m
    BY <1>1
  <2>2. At(s, j - 1) \in 0..Len(s) /\ At(s, j) \in 0..Len(s)
    BY <1>2, <2>1
  <2>3. i \in 1..Len(s) /\ At(s, j - 1) < i /\ i < At(s, j)
    BY <2>2
  <2>4. PICK h \in 1..m : At(s, h) = i
    BY <1>4, <2>3 DEF Breaks
  <2>5. h \in 0..m /\ (h <= j - 1 \/ j <= h)
    BY <1>1
  <2>6. ~(h <= j - 1)
    BY <1>3, <2>1, <2>2, <2>3, <2>4, <2>5
  <2>7. ~(j <= h)
    BY <1>3, <2>1, <2>2, <2>3, <2>4, <2>5
  <2> QED BY <2>5, <2>6, <2>7
<1>5. ASSUME Regular(s) PROVE At(s, m) = Len(s)
  <2>1. m \in 0..m /\ At(s, m) \in 0..Len(s)
    BY <1>1, <1>2
  <2>2. CASE Len(s) = 0
    BY <2>1, <2>2
  <2>3. CASE Len(s) # 0
    <3>1. Len(s) \in 1..Len(s) /\ s[Len(s)] = "n"
      BY <1>5, <2>3 DEF Regular
    <3>2. PICK j \in 1..m : At(s, j) = Len(s)
      BY <3>1 DEF Breaks
    <3>3. j \in 0..m /\ j <= m
      OBVIOUS
    <3>4. Len(s) <= At(s, m)
      BY <1>3, <2>1, <3>2, <3>3
    <3> QED BY <2>1, <3>4
  <2> QED BY <2>2, <2>3
<1> QED BY <1>2, <1>3, <1>4, <1>5

(* The least of some integers. *)
LEMMA LeastOf ==
  ASSUME NEW K, K \subseteq Int, IsFiniteSet(K), NEW e \in K
  PROVE  \E x \in K : \A y \in K : x <= y
<1> DEFINE q == InOrder(K)
           n == Cardinality(K)
<1>1. n \in Nat /\ Lists(q, n, K)
  BY InOrderLists
<1> HIDE DEF q, n
<1>2. PICK j \in 1..n : q[j] = e
  BY <1>1 DEF Lists
<1>3. 1 \in 1..n
  BY <1>1
<1>4. q[1] \in K /\ q[1] \in Int
  BY <1>1, <1>3 DEF Lists
<1>5. ASSUME NEW y \in K PROVE q[1] <= y
  <2>1. PICK i \in 1..n : q[i] = y
    BY <1>1 DEF Lists
  <2>2. i = 1 \/ 1 < i
    OBVIOUS
  <2>3. 1 < i => q[1] < q[i]
    BY <1>1, <1>3 DEF Lists, Increasing
  <2>4. y \in Int
    OBVIOUS
  <2> QED BY <1>4, <2>1, <2>2, <2>3, <2>4
<1> QED BY <1>4, <1>5

(* An object that grows keeps the newlines it had. *)
LEMMA Extends ==
  ASSUME NEW s, Len(s) \in Nat, NEW t, Len(t) \in Nat, Len(s) <= Len(t),
         \A i \in 1..Len(s) : t[i] = s[i]
  PROVE  LineCount(s) <= LineCount(t) /\ \A j \in 0..LineCount(s) : At(t, j) = At(s, j)
<1> DEFINE E == Newlines(s)
           F == Newlines(t)
           q == InOrder(E)
           r == InOrder(F)
           m == LineCount(s)
           n == LineCount(t)
<1>1. m \in Nat /\ n \in Nat /\ Lists(q, m, E) /\ Lists(r, n, F) /\ E \subseteq Int /\ F \subseteq Int
  BY NewlinesListed
<1>2. \A e \in 1..Len(s) : e \in E <=> e \in F
  BY DEF Newlines
<1>3. E \subseteq 1..Len(s)
  BY DEF Newlines
<1> HIDE DEF E, F, m, n, q, r
<1>4. ASSUME NEW j \in 1..m PROVE j <= n /\ r[j] = q[j]
  <2>1. q[j] \in E /\ q[j] \in 1..Len(s)
    BY <1>1, <1>3 DEF Lists
  <2>2. PICK h \in 1..n : r[h] = q[j]
    BY <1>1, <1>2, <2>1 DEF Lists
  <2>3. {e \in F : e <= r[h]} = {e \in E : e <= q[j]}
    <3>1. ASSUME NEW e \in F, e <= r[h] PROVE e \in E
      <4>1. e \in 1..Len(t)
        BY DEF F, Newlines
      <4>2. e \in 1..Len(s)
        BY <2>1, <2>2, <3>1, <4>1
      <4> QED BY <1>2, <4>2
    <3>2. ASSUME NEW e \in E PROVE e \in F
      BY <1>2, <1>3
    <3> QED BY <2>2, <3>1, <3>2
  <2>4. Cardinality({e \in E : e <= q[j]}) = j
    <3>1. Counts(q, m, E)
      BY <1>1, ListedCount
    <3> QED BY <3>1 DEF Counts
  <2>5. Cardinality({e \in F : e <= r[h]}) = h
    <3>1. Counts(r, n, F)
      BY <1>1, ListedCount
    <3> QED BY <3>1 DEF Counts
  <2>6. h = j
    BY <2>3, <2>4, <2>5
  <2> QED BY <2>2, <2>6
<1>5. m <= n
  <2>1. CASE m = 0
    BY <1>1, <2>1
  <2>2. CASE m # 0
    <3>1. m \in 1..m
      BY <1>1, <2>2
    <3> QED BY <1>4, <3>1
  <2> QED BY <2>1, <2>2
<1>6. ASSUME NEW j \in 0..m PROVE At(t, j) = At(s, j)
  <2>1. CASE j = 0
    BY <2>1 DEF At
  <2>2. CASE j # 0
    <3>1. j \in 1..m
      BY <1>1, <2>2
    <3>2. At(t, j) = r[j] /\ At(s, j) = q[j]
      BY <2>2 DEF At, r, q, E, F
    <3> QED BY <1>4, <3>1, <3>2
  <2> QED BY <2>1, <2>2
<1> QED BY <1>5, <1>6 DEF m, n

LEMMA Concatenation ==
  ASSUME NEW S, NEW a \in Seq(S), NEW b \in Seq(S)
  PROVE  /\ a \o b \in Seq(S) /\ Len(a \o b) = Len(a) + Len(b) /\ Len(a) \in Nat /\ Len(b) \in Nat
         /\ a \o b = [i \in 1..(Len(a) + Len(b)) |-> IF i <= Len(a) THEN a[i] ELSE b[i - Len(a)]]
         /\ \A i \in 1..Len(a) : (a \o b)[i] = a[i]
         /\ \A i \in 1..Len(b) : (a \o b)[Len(a) + i] = b[i]
<1>1. Len(a) \in Nat /\ Len(b) \in Nat /\ a \o b \in Seq(S) /\ Len(a \o b) = Len(a) + Len(b)
  OBVIOUS
<1> DEFINE r == a \o b
<1>3. \A i \in 1..(Len(a) + Len(b)) : r[i] = IF i <= Len(a) THEN a[i] ELSE b[i - Len(a)]
  BY ConcatProperties
<1>2. r = [i \in 1..(Len(a) + Len(b)) |-> IF i <= Len(a) THEN a[i] ELSE b[i - Len(a)]]
  <2>1. r = [i \in 1..Len(r) |-> r[i]] /\ Len(r) = Len(a) + Len(b)
    <3> HIDE DEF r
    <3>1. r \in Seq(S) /\ Len(r) = Len(a) + Len(b)
      BY <1>1 DEF r
    <3> QED BY <3>1
  <2> HIDE DEF r
  <2> QED BY <1>3, <2>1
<1> HIDE DEF r
<1>4. \A i \in 1..Len(a) : r[i] = a[i]
  BY <1>1, <1>3
<1>5. ASSUME NEW i \in 1..Len(b) PROVE r[Len(a) + i] = b[i]
  <2>1. Len(a) + i \in 1..(Len(a) + Len(b)) /\ ~(Len(a) + i <= Len(a)) /\ Len(a) + i - Len(a) = i
    BY <1>1
  <2> QED BY <1>3, <2>1
<1> QED BY <1>1, <1>2, <1>4, <1>5 DEF r

(* A read of a plain object from a newline on, t: it takes whole lines, all *)
(* of them that came before the first that does not fit.                    *)
Reaches(s, t, m, n, x) ==
  /\ AllFit(s, n, x)
  /\ LineEnds(t, At(s, n)) = {At(s, j) : j \in (n + 1)..x}
  /\ x # m => At(s, x + 1) > Len(t) \/ ~Fits(s, x + 1)
  /\ Len(t) = Len(s) => x = m \/ ~Fits(s, x + 1)

LEMMA EndsOfRead ==
  ASSUME NEW s, Len(s) \in Nat, Regular(s), NEW m, Breaks(s, m), NEW n \in 0..m,
         NEW p \in At(s, n)..Len(s), NEW t, Len(t) = p, \A i \in 1..p : t[i] = s[i],
         ~(p < Len(s) /\ p \in LineEnds(t, At(s, n)) /\ s[p] # "n")
  PROVE  \E x \in n..m : Reaches(s, t, m, n, x)
<1> DEFINE o == At(s, n)
           K == {j \in (n + 1)..m : At(s, j) > p \/ ~Fits(s, j)}
<1>1. /\ m \in Nat /\ MaxLine \in Nat /\ n \in Nat /\ n <= m /\ At(s, 0) = 0
      /\ \A j \in 1..m : At(s, j) \in 1..Len(s) /\ s[At(s, j)] = "n"
      /\ \A i, j \in 0..m : i < j => At(s, i) < At(s, j)
      /\ \A e \in 1..Len(s) : s[e] = "n" => \E j \in 1..m : At(s, j) = e
  BY PollAssumption DEF Breaks
<1>2. /\ \A j \in 0..m : At(s, j) \in 0..Len(s) /\ At(s, j) \in Int
      /\ \A i, j \in 0..m : i <= j => At(s, i) <= At(s, j)
      /\ \A j \in 1..m : \A i \in (At(s, j - 1) + 1)..(At(s, j) - 1) : s[i] # "n"
      /\ At(s, m) = Len(s)
  BY BreaksFacts
<1>3. o \in 0..Len(s) /\ p \in Nat /\ p <= Len(s) /\ o <= p
  BY <1>2
<1>4. \E x \in n..m : (\A j \in (n + 1)..x : j \notin K) /\ (x = m \/ x + 1 \in K)
  <2>1. K \in SUBSET ((n + 1)..m) /\ K \subseteq Int /\ IsFiniteSet((n + 1)..m)
    BY <1>1, FS_Interval
  <2>2. \A j \in K : j \in (n + 1)..m
    OBVIOUS
  <2> HIDE DEF K
  <2>3. IsFiniteSet(K)
    BY <2>1, FS_Subset
  <2>4. CASE K = {}
    <3>1. m \in n..m
      BY <1>1
    <3> QED BY <2>4, <3>1
  <2>5. CASE K # {}
    <3>1. PICK h \in K : \A y \in K : h <= y
      BY <2>1, <2>3, <2>5, LeastOf
    <3>2. h - 1 \in n..m /\ (h - 1) + 1 = h /\ \A j \in (n + 1)..(h - 1) : ~(h <= j)
      BY <1>1, <2>2, <3>1
    <3> QED BY <3>1, <3>2
  <2> QED BY <2>4, <2>5
<1>5. PICK x \in n..m : (\A j \in (n + 1)..x : j \notin K) /\ (x = m \/ x + 1 \in K)
  BY <1>4
<1>6. \A j \in (n + 1)..x : j \in (n + 1)..m /\ j \in 1..m /\ j \in 0..m /\ j - 1 \in 0..m
  BY <1>1
<1>7. \A j \in (n + 1)..x : At(s, j) <= p /\ Fits(s, j)
  <2> SUFFICES ASSUME NEW j \in (n + 1)..x PROVE At(s, j) <= p /\ Fits(s, j)
    OBVIOUS
  <2>1. j \in (n + 1)..m /\ j \notin K
    BY <1>5, <1>6
  <2>2. At(s, j) \in Int
    BY <1>2, <1>6
  <2> QED BY <1>3, <2>1, <2>2
<1>8. ASSUME NEW j \in (n + 1)..x PROVE At(s, j) \in LineEnds(t, o)
  <2>1. At(s, j) \in Int /\ o < At(s, j) /\ At(s, j) <= p /\ s[At(s, j)] = "n" /\ At(s, j) \in 1..p
    <3>1. n \in 0..m /\ n < j /\ j \in 0..m /\ j \in 1..m
      BY <1>1, <1>6
    <3>2. At(s, n) < At(s, j) /\ s[At(s, j)] = "n" /\ At(s, j) \in 1..Len(s)
      BY <1>1, <3>1
    <3> QED BY <1>3, <1>7, <3>2
  <2>2. ASSUME NEW i \in TooLong(t, o), i <= At(s, j) PROVE FALSE
    <3>1. i \in (o + MaxLine + 1)..p /\ \A h \in (i - MaxLine)..i : t[h] # "n"
      BY DEF TooLong
    <3>2. i \in Int /\ o < i /\ i >= o + MaxLine + 1 /\ i \in 1..p
      BY <1>1, <1>3, <3>1
    <3>3. \A h \in (i - MaxLine)..i : s[h] # "n"
      <4> SUFFICES ASSUME NEW h \in (i - MaxLine)..i PROVE s[h] # "n"
        OBVIOUS
      <4>1. h \in 1..p
        BY <1>1, <1>3, <3>1
      <4> QED BY <3>1, <4>1
    <3> DEFINE H == {h \in (n + 1)..j : i <= At(s, h)}
    <3>4. \E h \in H : \A y \in H : h <= y
      <4>0. j \in Int /\ n + 1 \in Int
        BY <1>1
      <4>4. IsFiniteSet((n + 1)..j)
        BY <4>0, FS_Interval
      <4>1. H \in SUBSET ((n + 1)..j) /\ H \subseteq Int
        OBVIOUS
      <4>2. j \in H
        BY <1>1, <2>2
      <4> HIDE DEF H
      <4>3. IsFiniteSet(H)
        BY <4>1, <4>4, FS_Subset
      <4> QED BY <4>1, <4>2, <4>3, LeastOf
    <3>5. PICK h \in H : \A y \in H : h <= y
      BY <3>4
    <3>6. h \in (n + 1)..x /\ h - 1 \in 0..m /\ h \in 1..m /\ i <= At(s, h)
      BY <1>1, <1>6, <3>5
    <3>7. At(s, h) \in Int /\ At(s, h - 1) \in Int /\ s[At(s, h)] = "n" /\ h \in 0..m
      BY <1>1, <1>2, <3>6
    <3>8. i # At(s, h)
      <4>1. i \in (i - MaxLine)..i
        BY <1>1, <3>2
      <4> QED BY <3>3, <3>7, <4>1
    <3>9. At(s, h - 1) < i - MaxLine
      <4>1. CASE h = n + 1
        <5>1. h - 1 = n
          BY <1>1, <4>1
        <5> QED BY <1>1, <1>3, <3>2, <5>1
      <4>2. CASE h # n + 1
        <5>1. h - 1 \in (n + 1)..j /\ h - 1 \in 1..m /\ ~(h <= h - 1)
          BY <1>1, <3>5, <3>6, <4>2
        <5>2. h - 1 \notin H
          BY <3>5, <5>1
        <5>3. At(s, h - 1) < i
          BY <3>2, <3>7, <5>1, <5>2
        <5>4. s[At(s, h - 1)] = "n"
          BY <1>1, <5>1
        <5>5. At(s, h - 1) \notin (i - MaxLine)..i
          BY <3>3, <5>4
        <5> QED BY <1>1, <3>2, <3>7, <5>3, <5>5
      <4> QED BY <4>1, <4>2
    <3>10. At(s, h) - At(s, h - 1) - 1 <= MaxLine
      BY <1>7, <3>6 DEF Fits
    <3> DEFINE a == At(s, h)
               b == At(s, h - 1)
    <3>11. a \in Int /\ b \in Int /\ i \in Int /\ MaxLine \in Int
           /\ i <= a /\ i # a /\ b < i - MaxLine /\ a - b - 1 <= MaxLine
      BY <1>1, <3>2, <3>6, <3>7, <3>8, <3>9, <3>10
    <3> HIDE DEF a, b
    <3> QED BY <3>11
  <2>3. \A i \in TooLong(t, o) : At(s, j) < i
    <3> SUFFICES ASSUME NEW i \in TooLong(t, o) PROVE At(s, j) < i
      OBVIOUS
    <3>1. i \in Int
      BY <1>1, <1>3 DEF TooLong
    <3> QED BY <2>1, <2>2, <3>1
  <2>4. At(s, j) \in (o + 1)..Len(t) /\ t[At(s, j)] = "n"
    BY <1>3, <2>1
  <2> QED BY <2>3, <2>4 DEF LineEnds
<1>9. ASSUME NEW e \in LineEnds(t, o) PROVE \E j \in (n + 1)..x : At(s, j) = e
  <2>1. e \in (o + 1)..p /\ (t[e] = "n" \/ e = p) /\ \A j \in TooLong(t, o) : e < j
    BY DEF LineEnds
  <2>2. e \in 1..p /\ e \in 1..Len(s) /\ o < e /\ e \in Int
    BY <1>3, <2>1
  <2>3. s[e] = "n"
    <3>1. CASE t[e] = "n"
      BY <2>2, <3>1
    <3>2. CASE e = p
      <4>1. CASE p < Len(s)
        BY <3>2, <4>1
      <4>2. CASE ~(p < Len(s))
        <5>1. p = Len(s) /\ Len(s) > 0
          BY <1>3, <2>2, <4>2
        <5> QED BY <3>2, <5>1 DEF Regular
      <4> QED BY <4>1, <4>2
    <3> QED BY <2>1, <3>1, <3>2
  <2>4. PICK j \in 1..m : At(s, j) = e
    BY <1>1, <2>2, <2>3
  <2>5. j \in (n + 1)..m /\ j \in 0..m /\ n \in 0..m
    <3>1. j \in 0..m /\ n \in 0..m
      BY <1>1
    <3>2. ~(j <= n)
      BY <1>2, <2>2, <2>4, <3>1
    <3> QED BY <1>1, <3>1, <3>2
  <2>6. ASSUME j > x PROVE FALSE
    <3>1. x + 1 \in K /\ x + 1 <= j /\ x + 1 \in 1..m /\ x + 1 \in 0..m /\ x \in 0..m /\ (x + 1) - 1 = x
          /\ x + 1 \in (n + 1)..m
      BY <1>1, <1>5, <2>5, <2>6
    <3>2. At(s, x + 1) \in Int /\ At(s, x) \in Int /\ At(s, x + 1) <= e /\ o <= At(s, x) /\ o \in Int
      BY <1>1, <1>2, <2>4, <2>5, <3>1
    <3>3. ~(At(s, x + 1) > p)
      BY <1>3, <2>2, <3>2
    <3>4. ~Fits(s, x + 1)
      BY <3>1, <3>3
    <3>5. At(s, x + 1) - At(s, x) - 1 > MaxLine
      BY <1>1, <3>1, <3>2, <3>4 DEF Fits
    <3> DEFINE a == At(s, x)
               b == At(s, x + 1)
               i == a + MaxLine + 1
    <3>10. /\ a \in Int /\ b \in Int /\ MaxLine \in Nat /\ e \in Int /\ p \in Int /\ o \in Int /\ o >= 0
           /\ b - a - 1 > MaxLine /\ b <= e /\ o <= a /\ e <= p
      BY <1>1, <1>3, <2>2, <3>2, <3>5
    <3> HIDE DEF a, b
    <3>6. i \in (o + MaxLine + 1)..p /\ i < b /\ i <= e
      BY <3>10
    <3>7. ASSUME NEW h \in (i - MaxLine)..i PROVE t[h] # "n"
      <4>1. h \in (a + 1)..(b - 1) /\ h \in 1..p
        BY <3>6, <3>10
      <4>2. s[h] # "n"
        BY <1>2, <3>1, <4>1 DEF a, b
      <4> QED BY <4>1, <4>2
    <3>8. i \in TooLong(t, o)
      BY <3>6, <3>7 DEF TooLong
    <3>9. e < i
      BY <2>1, <3>8
    <3> QED BY <3>6, <3>9, <3>10
  <2>7. j \in (n + 1)..x
    BY <1>1, <2>5, <2>6
  <2> QED BY <2>4, <2>7
<1>10. LineEnds(t, o) = {At(s, j) : j \in (n + 1)..x}
  BY <1>8, <1>9
<1>11. AllFit(s, n, x)
  BY <1>7 DEF AllFit
<1>12. ASSUME Len(t) = Len(s), x # m PROVE ~Fits(s, x + 1)
  <2>1. x + 1 \in K /\ x + 1 \in 0..m
    BY <1>1, <1>5, <1>12
  <2>2. At(s, x + 1) \in 0..Len(s)
    BY <1>2, <2>1
  <2>3. ~(At(s, x + 1) > p)
    BY <1>12, <2>2
  <2> QED BY <2>1, <2>3
<1>13. ASSUME x # m PROVE At(s, x + 1) > Len(t) \/ ~Fits(s, x + 1)
  BY <1>5, <1>13
<1> QED BY <1>10, <1>11, <1>12, <1>13 DEF Reaches

(* What it then sends and counts. *)
LEMMA LinesOfRead ==
  ASSUME NEW s, Len(s) \in Nat, Regular(s), NEW m, Breaks(s, m), NEW n \in 0..m,
         NEW t, Len(t) \in Nat, Len(t) <= Len(s), \A i \in 1..Len(t) : t[i] = s[i],
         NEW x \in n..m, Reaches(s, t, m, n, x)
  PROVE  /\ Lines(t, At(s, n)) = LinesOf(s, n, x)
         /\ BytesRead(At(s, n), LinesOf(s, n, x)) = At(s, x)
<1> DEFINE o == At(s, n)
           c == x - n
           E == LineEnds(t, o)
           f == [i \in 1..c |-> At(s, n + i)]
           N == {At(s, n + i) : i \in 1..c}
           B == Bytes(LinesOf(s, n, x))
           I == (o + 1)..At(s, x)
<1>1. /\ m \in Nat /\ n \in Nat /\ x \in Nat /\ n <= x /\ x <= m /\ c \in Nat /\ At(s, 0) = 0
      /\ \A j \in 1..m : At(s, j) \in 1..Len(s) /\ s[At(s, j)] = "n"
      /\ \A i, j \in 0..m : i < j => At(s, i) < At(s, j)
  BY DEF Breaks
<1>2. /\ \A j \in 0..m : At(s, j) \in 0..Len(s) /\ At(s, j) \in Int
      /\ \A i, j \in 0..m : i <= j => At(s, i) <= At(s, j)
      /\ \A j \in 1..m : \A i \in (At(s, j - 1) + 1)..(At(s, j) - 1) : s[i] # "n"
  BY BreaksFacts
<1>3. o \in Nat /\ At(s, x) \in Nat /\ o <= At(s, x) /\ E \subseteq Int /\ E \subseteq (o + 1)..Len(t)
  <2>1. n \in 0..m /\ x \in 0..m
    BY <1>1
  <2> QED BY <1>1, <1>2, <2>1 DEF LineEnds
<1>4. E = {At(s, j) : j \in (n + 1)..x}
  BY DEF Reaches
<1>5. \A i \in 1..c : n + i \in (n + 1)..x /\ n + i \in 1..m /\ n + i \in 0..m /\ (n + i) - 1 \in 0..m
  BY <1>1
<1>6. \A j \in (n + 1)..x : j - n \in 1..c /\ n + (j - n) = j
  BY <1>1
<1>7. \A i, j \in 1..c : i < j => f[i] < f[j]
  <2> SUFFICES ASSUME NEW i \in 1..c, NEW j \in 1..c, i < j PROVE At(s, n + i) < At(s, n + j)
    OBVIOUS
  <2>1. n + i < n + j
    BY <1>1
  <2> QED BY <1>1, <1>5, <2>1
<1> HIDE DEF c
<1>8. /\ E = N /\ f \in [1..c -> N] /\ \A e \in N : \E i \in 1..c : f[i] = e
      /\ Len(f) = c /\ \A i \in 1..c : f[i] = At(s, n + i)
  BY <1>1, <1>4, <1>5, <1>6
<1> HIDE DEF E, N, f
<1>9. Lists(f, c, N) /\ N \subseteq Int
  BY <1>3, <1>7, <1>8 DEF Lists, Increasing
<1>10. Ends(t, o) = f
  <2>1. InOrder(E) = f
    BY <1>1, <1>8, <1>9, InOrderIs
  <2> QED BY <2>1 DEF Ends, E
<1>11. Lines(t, o) = [j \in 1..c |-> <<FromOf(o, f, j), ToOf(t, o, f, j)>>]
  <2> HIDE DEF o
  <2> QED BY <1>8, <1>10 DEF Lines, FromOf, ToOf, LastOf
<1>12. ASSUME NEW j \in 1..c
       PROVE  FromOf(o, f, j) = At(s, (n + j) - 1) + 1 /\ ToOf(t, o, f, j) = At(s, n + j) - 1
  <2>1. f[j] = At(s, n + j) /\ f[j] \in E
    BY <1>8
  <2>2. FromOf(o, f, j) = At(s, (n + j) - 1) + 1
    <3>1. CASE j = 1
      <4>1. (n + j) - 1 = n
        BY <1>1, <3>1
      <4> QED BY <3>1, <4>1 DEF FromOf
    <3>2. CASE j # 1
      <4>1. j - 1 \in 1..c /\ n + (j - 1) = (n + j) - 1
        BY <1>1, <3>2
      <4>2. f[j - 1] = At(s, (n + j) - 1)
        BY <1>8, <4>1
      <4> QED BY <3>2, <4>2 DEF FromOf
    <3> QED BY <3>1, <3>2
  <2>3. f[j] \in 1..Len(t) /\ t[f[j]] = "n" /\ f[j] \in Int
    <3>1. f[j] \in (o + 1)..Len(t)
      BY <1>3, <2>1
    <3>2. f[j] \in 1..Len(t)
      BY <1>3, <3>1
    <3>3. s[f[j]] = "n"
      BY <1>1, <1>5, <2>1
    <3> QED BY <3>2, <3>3
  <2>4. LastOf(t, f, j) = f[j] - 1
    BY <2>3 DEF LastOf
  <2>5. ToOf(t, o, f, j) = f[j] - 1
    <3>1. CASE f[j] - 1 >= FromOf(o, f, j)
      <4>1. (n + j) - 1 \in 0..m
        BY <1>5
      <4>2. At(s, (n + j) - 1) \in 0..Len(s)
        BY <1>2, <4>1
      <4>3. f[j] - 1 \in 1..Len(t) /\ f[j] - 1 \in 1..Len(s)
        BY <2>2, <2>3, <3>1, <4>2
      <4>4. t[f[j] - 1] # "r"
        BY <4>3 DEF Regular
      <4> QED BY <2>4, <4>4 DEF ToOf
    <3>2. CASE ~(f[j] - 1 >= FromOf(o, f, j))
      BY <2>4, <3>2 DEF ToOf
    <3> QED BY <3>1, <3>2
  <2> QED BY <2>1, <2>2, <2>5
<1>13. Lines(t, o) = LinesOf(s, n, x)
  BY <1>11, <1>12 DEF LinesOf, Line, c
<1>14. /\ Len(LinesOf(s, n, x)) = c
       /\ \A j \in 1..c : /\ LinesOf(s, n, x)[j][1] = At(s, (n + j) - 1) + 1
                         /\ LinesOf(s, n, x)[j][2] = At(s, n + j) - 1
  BY <1>1 DEF LinesOf, Line, c
<1>15. \A i : i \in B <=> \E j \in 1..c : i \in (At(s, (n + j) - 1) + 1)..(At(s, n + j) - 1)
  BY <1>14 DEF Bytes
<1> HIDE DEF B
<1>16. N \subseteq I
  <2> SUFFICES ASSUME NEW i \in 1..c PROVE At(s, n + i) \in I
    BY DEF N
  <2>1. n < n + i /\ n + i <= x /\ n + i \in 0..m /\ n \in 0..m /\ x \in 0..m
    BY <1>1, <1>5 DEF c
  <2>2. At(s, n) < At(s, n + i) /\ At(s, n + i) <= At(s, x) /\ At(s, n + i) \in Int
    BY <1>1, <1>2, <2>1
  <2> QED BY <1>3, <2>2
<1>17. B \subseteq I
  <2> SUFFICES ASSUME NEW i, NEW j \in 1..c, i \in (At(s, (n + j) - 1) + 1)..(At(s, n + j) - 1)
               PROVE  i \in I
    BY <1>15
  <2>1. n <= (n + j) - 1 /\ (n + j) - 1 \in 0..m /\ n \in 0..m
    BY <1>1, <1>5
  <2>2. At(s, n) <= At(s, (n + j) - 1) /\ At(s, (n + j) - 1) \in Int
    BY <1>2, <2>1
  <2>3. At(s, n + j) \in I
    BY <1>16 DEF N
  <2> QED BY <1>3, <2>2, <2>3
<1>18. B \cap N = {}
  <2> SUFFICES ASSUME NEW i \in N, NEW j \in 1..c, i \in (At(s, (n + j) - 1) + 1)..(At(s, n + j) - 1)
               PROVE  FALSE
    BY <1>15
  <2>1. PICK h \in 1..c : i = At(s, n + h)
    BY DEF N
  <2>2. s[i] = "n"
    BY <1>1, <1>5, <2>1
  <2> QED BY <1>2, <1>5, <2>2
<1>19. I \subseteq B \cup N
  <2> SUFFICES ASSUME NEW i \in I, i \notin N PROVE i \in B
    OBVIOUS
  <2> DEFINE H == {h \in 1..c : i <= At(s, n + h)}
  <2>1. c # 0 /\ c \in 1..c /\ n + c = x
    <3>1. c # 0
      BY <1>3 DEF c
    <3> QED BY <1>1, <3>1 DEF c
  <2>2. c \in H
    BY <1>3, <2>1
  <2>3. H \in SUBSET (1..c) /\ H \subseteq Int
    OBVIOUS
  <2>4. IsFiniteSet(1..c)
    BY <1>1, FS_Interval
  <2>5. \E h \in H : \A y \in H : h <= y
    <3> HIDE DEF H
    <3>1. IsFiniteSet(H)
      BY <2>3, <2>4, FS_Subset
    <3> QED BY <2>2, <2>3, <3>1, LeastOf
  <2>6. PICK h \in H : \A y \in H : h <= y
    BY <2>5
  <2>7. h \in 1..c /\ i <= At(s, n + h) /\ i # At(s, n + h) /\ At(s, n + h) \in Int /\ i \in Int
    BY <1>2, <1>3, <1>5 DEF N
  <2>8. At(s, (n + h) - 1) < i
    <3>1. CASE h = 1
      <4>1. (n + h) - 1 = n
        BY <1>1, <3>1
      <4> QED BY <1>3, <4>1
    <3>2. CASE h # 1
      <4>1. h - 1 \in 1..c /\ ~(h <= h - 1) /\ n + (h - 1) = (n + h) - 1
        BY <1>1, <2>7, <3>2
      <4>2. h - 1 \notin H
        BY <2>6, <4>1
      <4>3. At(s, (n + h) - 1) \in Int
        BY <1>2, <1>5, <2>7
      <4> QED BY <2>7, <4>1, <4>2, <4>3
    <3> QED BY <3>1, <3>2
  <2>9. At(s, (n + h) - 1) \in Int
    BY <1>2, <1>5, <2>7
  <2>10. i \in (At(s, (n + h) - 1) + 1)..(At(s, n + h) - 1)
    BY <2>7, <2>8, <2>9
  <2> QED BY <1>15, <2>7, <2>10
<1>20. IsFiniteSet(I) /\ Cardinality(I) = At(s, x) - o
  <2>1. o + 1 \in Int /\ At(s, x) \in Int
    BY <1>3
  <2>2. IsFiniteSet(I) /\ Cardinality(I) = IF o + 1 > At(s, x) THEN 0 ELSE At(s, x) - (o + 1) + 1
    BY <2>1, FS_Interval
  <2> QED BY <1>3, <2>2
<1>21. IsFiniteSet(N) /\ Cardinality(N) = c
  BY <1>1, <1>9, ListedCount
<1> HIDE DEF I
<1>22. IsFiniteSet(B) /\ Cardinality(B) \in Nat
  <2>1. B \in SUBSET I
    BY <1>17
  <2> QED BY <1>20, <2>1, FS_Subset, FS_CardinalityType
<1>23. Cardinality(B \cup N) = Cardinality(B) + Cardinality(N) - Cardinality(B \cap N)
  BY ONLY <1>21, <1>22, FS_Union
<1>24. B \cup N = I /\ Cardinality(B \cap N) = 0
  <2>1. B \cup N = I
    BY <1>16, <1>17, <1>19
  <2>2. B \cap N = {}
    BY <1>18
  <2>3. Cardinality(B \cap N) = 0
    <3> HIDE DEF B, N
    <3> QED BY <2>2, FS_EmptySet, Zenon
  <2> QED BY <2>1, <2>3
<1>25. Cardinality(B) = At(s, x) - o - c
  <2> DEFINE u == Cardinality(B)
             v == Cardinality(B \cap N)
             w == Cardinality(I)
  <2>1. w = u + c - v /\ v = 0 /\ u \in Nat /\ w = At(s, x) - o
    BY <1>20, <1>21, <1>22, <1>23, <1>24
  <2>2. At(s, x) - o = u + c
    <3> HIDE DEF u, v, w, o
    <3>1. c \in Nat /\ u \in Nat
      BY <1>1, <2>1
    <3>2. u + c - v = u + c
      BY <2>1, <3>1
    <3> QED BY <2>1, <3>2, Zenon
  <2>3. At(s, x) \in Int /\ o \in Int /\ c \in Int /\ u \in Int
    BY <1>1, <1>3, <2>1
  <2> DEFINE a == At(s, x)
  <2> HIDE DEF u, v, w, a, o
  <2>4. u = a - o - c
    <3>1. a - o = u + c /\ a \in Int /\ o \in Int /\ c \in Int /\ u \in Int
      BY <2>2, <2>3 DEF a
    <3> QED BY ONLY <3>1
  <2> QED BY <2>4 DEF u, a
<1>26. BytesRead(o, LinesOf(s, n, x)) = o + Cardinality(B) + c
  BY <1>14 DEF BytesRead, B
<1>27. BytesRead(o, LinesOf(s, n, x)) = At(s, x)
  BY <1>1, <1>3, <1>22, <1>25, <1>26
<1> QED BY <1>13, <1>27

(* An object that grows by a line is plain still. *)
LEMMA RegularGrows ==
  ASSUME NEW s \in Seq({"c", "r", "n"}), Regular(s), NEW piece \in {Whole, Long}
  PROVE  /\ Regular(s \o piece) /\ s \o piece \in Seq({"c", "r", "n"})
         /\ Len(s) \in Nat /\ Len(s) <= Len(s \o piece)
         /\ \A i \in 1..Len(s) : (s \o piece)[i] = s[i]
<1>1. /\ piece \in Seq({"c", "r", "n"}) /\ Len(piece) > 0 /\ piece[Len(piece)] = "n"
      /\ \A i \in 1..Len(piece) : piece[i] # "r"
  <2>1. CASE piece = Whole
    BY <2>1 DEF Whole
  <2>2. CASE piece = Long
    <3>1. MaxLine + 2 \in Nat /\ MaxLine + 2 > 0
      BY PollAssumption
    <3>2. Len(Long) = MaxLine + 2 /\ Long \in Seq({"c", "r", "n"})
          /\ \A i \in 1..(MaxLine + 2) : Long[i] = IF i = MaxLine + 2 THEN "n" ELSE "c"
      BY <3>1 DEF Long
    <3> QED BY <2>2, <3>1, <3>2
  <2> QED BY <2>1, <2>2
<1> DEFINE C == {"c", "r", "n"}
           t == s \o piece
<1>2. s \in Seq(C) /\ piece \in Seq(C)
  BY <1>1
<1> HIDE DEF C
<1>3. /\ t \in Seq(C) /\ Len(t) = Len(s) + Len(piece) /\ Len(s) \in Nat /\ Len(piece) \in Nat
      /\ \A i \in 1..Len(s) : t[i] = s[i]
      /\ \A i \in 1..Len(piece) : t[Len(s) + i] = piece[i]
  BY <1>2, Concatenation
<1> HIDE DEF t
<1>4. ASSUME NEW i \in 1..Len(t) PROVE t[i] # "r"
  <2>1. CASE i <= Len(s)
    <3>1. i \in 1..Len(s)
      BY <1>3, <2>1
    <3> QED BY <1>3, <3>1 DEF Regular
  <2>2. CASE ~(i <= Len(s))
    <3>1. i - Len(s) \in 1..Len(piece) /\ Len(s) + (i - Len(s)) = i
      BY <1>3, <2>2
    <3>2. t[i] = piece[i - Len(s)]
      BY <1>3, <3>1
    <3> QED BY <1>1, <3>1, <3>2
  <2> QED BY <2>1, <2>2
<1>5. t[Len(t)] = "n"
  <2>1. Len(piece) \in 1..Len(piece)
    BY <1>1, <1>3
  <2> QED BY <1>1, <1>3, <2>1
<1>6. Regular(t)
  BY <1>4, <1>5 DEF Regular
<1>7. Len(s) <= Len(t)
  BY <1>3
<1> QED BY <1>3, <1>6, <1>7 DEF t, C

(* A line that does not fit, in bytes. *)
Blocked(s, o) ==
  /\ o + MaxLine + 1 <= Len(s)
  /\ \A j \in (o + 1)..(o + MaxLine + 1) : s[j] # "n"

LEMMA NoFitBlocks ==
  ASSUME NEW s, Len(s) \in Nat, NEW m, Breaks(s, m), NEW x \in 0..m, x # m, ~Fits(s, x + 1)
  PROVE  Blocked(s, At(s, x))
<1>1. m \in Nat /\ MaxLine \in Nat
  BY PollAssumption DEF Breaks
<1>2. x + 1 \in 1..m /\ x + 1 \in 0..m /\ (x + 1) - 1 = x
  BY <1>1
<1>3. At(s, x) \in 0..Len(s) /\ At(s, x + 1) \in 0..Len(s)
      /\ \A i \in (At(s, x) + 1)..(At(s, x + 1) - 1) : s[i] # "n"
  BY <1>2, BreaksFacts
<1>4. At(s, x + 1) - At(s, x) - 1 > MaxLine
  BY <1>1, <1>2, <1>3 DEF Fits
<1> DEFINE a == At(s, x)
           b == At(s, x + 1)
<1> HIDE DEF a, b
<1>5. /\ a \in 0..Len(s) /\ b \in 0..Len(s) /\ b - a - 1 > MaxLine
      /\ \A i \in (a + 1)..(b - 1) : s[i] # "n"
  BY <1>3, <1>4 DEF a, b
<1>6. a + MaxLine + 1 <= Len(s) /\ \A j \in (a + 1)..(a + MaxLine + 1) : j \in (a + 1)..(b - 1)
  BY <1>1, <1>5
<1>7. Blocked(s, a)
  BY <1>5, <1>6 DEF Blocked
<1> QED BY <1>7 DEF a

AllLines(s) == {Line(s, j) : j \in Nat}

LinesAre(s, d, n) ==
  /\ LinesOf(s, d, n) \in Seq(AllLines(s)) /\ Len(LinesOf(s, d, n)) = n - d
  /\ \A i \in 1..(n - d) :
       /\ LinesOf(s, d, n)[i] = Line(s, d + i)
       /\ LinesOf(s, d, n)[i][1] = At(s, (d + i) - 1) + 1
       /\ LinesOf(s, d, n)[i][2] = At(s, d + i) - 1

LEMMA LinesOfFacts ==
  ASSUME NEW s, NEW d \in Nat, NEW n \in Nat, d <= n
  PROVE  LinesAre(s, d, n)
<1> DEFINE q == LinesOf(s, d, n)
           c == n - d
<1>1. c \in Nat /\ q = [i \in 1..c |-> Line(s, d + i)]
  BY DEF LinesOf
<1>2. \A i \in 1..c : Line(s, d + i) \in AllLines(s)
  <2> SUFFICES ASSUME NEW i \in 1..c PROVE Line(s, d + i) \in AllLines(s)
    OBVIOUS
  <2>1. d + i \in Nat
    BY <1>1
  <2> QED BY <2>1 DEF AllLines
<1> HIDE DEF q, c
<1>3. q \in Seq(AllLines(s)) /\ Len(q) = c /\ \A i \in 1..c : q[i] = Line(s, d + i)
  <2> DEFINE T == AllLines(s)
             g(i) == Line(s, d + i)
  <2>1. q = [i \in 1..c |-> g(i)] /\ \A i \in 1..c : g(i) \in T
    BY <1>1, <1>2
  <2> HIDE DEF T, g
  <2>2. q \in Seq(T) /\ Len(q) = c /\ \A i \in 1..c : q[i] = g(i)
    BY <1>1, <2>1
  <2> QED BY <2>2 DEF T, g
<1>4. \A i \in 1..c : q[i][1] = At(s, (d + i) - 1) + 1 /\ q[i][2] = At(s, d + i) - 1
  BY <1>3 DEF Line
<1> QED BY <1>3, <1>4 DEF q, c, LinesAre

(* Lines that are read next follow on those that were read.                *)
LEMMA LinesOfAppend ==
  ASSUME NEW s, NEW d \in Nat, NEW n \in Nat, NEW m \in Nat, d <= n, n <= m
  PROVE  LinesOf(s, d, n) \o LinesOf(s, n, m) = LinesOf(s, d, m)
<1> DEFINE a == LinesOf(s, d, n)
           b == LinesOf(s, n, m)
           r == LinesOf(s, d, m)
<1>1. Len(a) = n - d /\ Len(b) = m - n /\ \A i \in 1..(n - d) : a[i] = Line(s, d + i)
  <2>1. LinesAre(s, d, n) /\ LinesAre(s, n, m)
    BY LinesOfFacts
  <2> QED BY <2>1 DEF LinesAre
<1>2. \A i \in 1..(m - n) : b[i] = Line(s, n + i)
  <2>1. LinesAre(s, n, m)
    BY LinesOfFacts
  <2> QED BY <2>1 DEF LinesAre
<1>3. r = [i \in 1..(m - d) |-> Line(s, d + i)]
  BY DEF LinesOf
<1>4. a \o b = [i \in 1..(Len(a) + Len(b)) |-> IF i <= Len(a) THEN a[i] ELSE b[i - Len(a)]]
  <2>0. LinesAre(s, d, n) /\ LinesAre(s, n, m)
    BY LinesOfFacts
  <2>1. a \in Seq(AllLines(s)) /\ b \in Seq(AllLines(s))
    BY <2>0 DEF LinesAre
  <2> HIDE DEF a, b
  <2> QED BY <2>1, Concatenation
<1> HIDE DEF a, b, r
<1>5. ASSUME NEW i \in 1..(m - d) PROVE (IF i <= Len(a) THEN a[i] ELSE b[i - Len(a)]) = Line(s, d + i)
  <2>1. CASE i <= n - d
    BY <1>1, <2>1
  <2>2. CASE ~(i <= n - d)
    <3>1. i - (n - d) \in 1..(m - n) /\ n + (i - (n - d)) = d + i
      BY <2>2
    <3> QED BY <1>1, <1>2, <2>2, <3>1
  <2> QED BY <2>1, <2>2
<1>6. Len(a) + Len(b) = m - d
  BY <1>1
<1>7. a \o b = r
  BY <1>3, <1>4, <1>5, <1>6
<1> QED BY <1>7 DEF a, b, r

LEMMA LinesFromStart ==
  ASSUME NEW s, NEW n \in Nat
  PROVE  /\ LinesOf(s, 0, n) \in Seq(AllLines(s)) /\ Len(LinesOf(s, 0, n)) = n
         /\ \A i \in 1..n : LinesOf(s, 0, n)[i] = Line(s, i)
<1> DEFINE d == 0
           q == LinesOf(s, d, n)
<1>1. d \in Nat /\ d <= n /\ n - d = n /\ \A i \in 1..n : d + i = i
  OBVIOUS
<1> HIDE DEF d
<1>2. q \in Seq(AllLines(s)) /\ Len(q) = n - d /\ \A i \in 1..(n - d) : q[i] = Line(s, d + i)
  <2>1. LinesAre(s, d, n)
    BY <1>1, LinesOfFacts
  <2> QED BY <2>1 DEF LinesAre
<1> HIDE DEF q
<1>3. q \in Seq(AllLines(s)) /\ Len(q) = n /\ \A i \in 1..n : q[i] = Line(s, i)
  BY <1>1, <1>2
<1> QED BY <1>3 DEF q, d

(* The lines of an object k in a batch: next to each other, after the first *)
(* b entries, and they are its lines d+1 to d+n.                            *)
Block(s, q, k, b, n, d) ==
  /\ b \in Nat /\ n \in Nat /\ d \in Nat /\ Len(q) \in Nat /\ b + n <= Len(q)
  /\ \A i \in 1..Len(q) : q[i][1] = k <=> (b < i /\ i <= b + n)
  /\ \A j \in 1..n : q[b + j][2] = Line(s, d + j)

(* What is sent of a batch of an object's is then those lines.             *)
LEMMA BlockSpans ==
  ASSUME NEW s, NEW q, NEW k, NEW b, NEW n, NEW d, Block(s, q, k, b, n, d)
  PROVE  SentSpans(k, q) = LinesOf(s, d, d + n)
<1> DEFINE E == {i \in 1..Len(q) : q[i][1] = k}
           f == [j \in 1..n |-> b + j]
<1>1. b \in Nat /\ n \in Nat /\ d \in Nat /\ Len(q) \in Nat /\ b + n <= Len(q)
  BY DEF Block
<1>2. \A i \in 1..Len(q) : q[i][1] = k <=> (b < i /\ i <= b + n)
  BY DEF Block
<1>3. \A j \in 1..n : b + j \in E
  <2> SUFFICES ASSUME NEW j \in 1..n PROVE b + j \in E
    OBVIOUS
  <2>1. b + j \in 1..Len(q) /\ b < b + j /\ b + j <= b + n
    BY <1>1
  <2> QED BY <1>2, <2>1
<1>4. ASSUME NEW e \in E PROVE \E j \in 1..n : b + j = e
  <2>1. b < e /\ e <= b + n /\ e \in Int
    BY <1>2
  <2>2. e - b \in 1..n /\ b + (e - b) = e
    BY <1>1, <2>1
  <2> QED BY <2>2
<1>5. Lists(f, n, E)
  <2>1. f \in [1..n -> E]
    BY <1>3
  <2>2. \A i, j \in 1..n : i < j => f[i] < f[j]
    BY <1>1
  <2>3. \A e \in E : \E j \in 1..n : f[j] = e
    BY <1>4
  <2> HIDE DEF E, f
  <2> QED BY <2>1, <2>2, <2>3 DEF Lists, Increasing
<1>6. InOrder(E) = f
  <2>1. E \subseteq Int
    OBVIOUS
  <2> HIDE DEF E, f
  <2> QED BY <1>1, <1>5, <2>1, InOrderIs
<1>7. Len(f) = n /\ \A j \in 1..n : f[j] = b + j
  BY <1>1
<1>8. SentSpans(k, q) = [j \in 1..Len(f) |-> q[f[j]][2]]
  <2> HIDE DEF f
  <2> QED BY <1>6 DEF SentSpans
<1> HIDE DEF f
<1>9. \A j \in 1..n : q[f[j]][2] = Line(s, d + j)
  BY <1>7 DEF Block
<1>10. SentSpans(k, q) = [j \in 1..n |-> Line(s, d + j)]
  BY <1>7, <1>8, <1>9
<1>11. (d + n) - d = n
  BY <1>1
<1> QED BY <1>10, <1>11 DEF LinesOf

(* The last entries of what was collected hold the last of its lines. *)
LEMMA BlockOfLast ==
  ASSUME NEW s, NEW S, NEW q \in Seq(S), NEW k, NEW b, NEW n, Block(s, q, k, b, n, 0),
         NEW c \in Nat \ {0}
  PROVE  \E d \in 0..n, a \in Nat :
           /\ Block(s, LastOnes(q, c), k, a, n - d, d)
           /\ (b = 0 /\ n = Len(q)) => n - d = c \/ (d = 0 /\ n < c)
<1>1. b \in Nat /\ n \in Nat /\ Len(q) \in Nat /\ b + n <= Len(q)
  BY DEF Block
<1>2. \A i \in 1..Len(q) : q[i][1] = k <=> (b < i /\ i <= b + n)
  BY DEF Block
<1>3. \A j \in 1..n : q[b + j][2] = Line(s, j)
  BY DEF Block
<1>4. CASE ~(Len(q) > c)
  <2>1. LastOnes(q, c) = q
    BY <1>4 DEF LastOnes
  <2>2. 0 \in 0..n /\ n - 0 = n /\ b \in Nat
    BY <1>1
  <2>3. Block(s, LastOnes(q, c), k, b, n - 0, 0)
    BY <2>1, <2>2
  <2>4. (b = 0 /\ n = Len(q)) => n - 0 = c \/ n < c
    BY <1>1, <1>4
  <2> QED BY <2>2, <2>3, <2>4
<1>5. CASE Len(q) > c
  <2> DEFINE cut == Len(q) - c
             r == LastOnes(q, c)
             d == IF cut <= b THEN 0 ELSE IF cut <= b + n THEN cut - b ELSE n
             a == IF cut <= b THEN b - cut ELSE 0
  <2>1. cut \in Nat /\ cut < Len(q) /\ cut # 0
    BY <1>1, <1>5
  <2>2. r = SubSeq(q, cut + 1, Len(q))
    BY <1>5 DEF LastOnes
  <2>3. Len(r) = c /\ \A i \in 1..c : r[i] = q[cut + i] /\ cut + i \in 1..Len(q)
    BY <1>1, <2>1, <2>2
  <2>4. d \in 0..n /\ a \in Nat /\ a + (n - d) <= c
    BY <1>1, <2>1
  <2> HIDE DEF r
  <2>5. ASSUME NEW i \in 1..c PROVE r[i][1] = k <=> (a < i /\ i <= a + (n - d))
    <3>1. r[i][1] = k <=> (b < cut + i /\ cut + i <= b + n)
      BY <1>2, <2>3
    <3> QED BY <1>1, <2>1, <3>1
  <2>6. ASSUME NEW j \in 1..(n - d) PROVE r[a + j][2] = Line(s, d + j)
    <3>1. a + j \in 1..c /\ cut + (a + j) = b + (d + j) /\ d + j \in 1..n
      BY <1>1, <2>1, <2>4
    <3>2. r[a + j] = q[b + (d + j)]
      <4> HIDE DEF cut, a, d
      <4> QED BY <2>3, <3>1
    <3> HIDE DEF a, d
    <3> QED BY <1>3, <3>1, <3>2
  <2>7. (b = 0 /\ n = Len(q)) => n - d = c
    BY <1>1, <2>1
  <2> HIDE DEF a, d, cut
  <2>8. Block(s, r, k, a, n - d, d)
    <3>1. n - d \in Nat /\ d \in Nat /\ Len(r) \in Nat
      BY <1>1, <2>3, <2>4
    <3> QED BY <2>3, <2>4, <2>5, <2>6, <3>1 DEF Block
  <2> QED BY <2>4, <2>7, <2>8 DEF r
<1> QED BY <1>4, <1>5

(* And the first ones the first. *)
LEMMA BlockOfFirst ==
  ASSUME NEW s, NEW S, NEW q \in Seq(S), NEW k, NEW b, NEW n, Block(s, q, k, b, n, 0),
         NEW c \in Nat
  PROVE  \E m \in 0..n, a \in Nat : Block(s, FirstOnes(q, c), k, a, m, 0) /\ m <= c
<1>1. b \in Nat /\ n \in Nat /\ Len(q) \in Nat /\ b + n <= Len(q)
  BY DEF Block
<1>2. \A i \in 1..Len(q) : q[i][1] = k <=> (b < i /\ i <= b + n)
  BY DEF Block
<1>3. \A j \in 1..n : q[b + j][2] = Line(s, j)
  BY DEF Block
<1>4. CASE ~(Len(q) > c)
  <2>1. FirstOnes(q, c) = q
    BY <1>4 DEF FirstOnes
  <2>2. n \in 0..n /\ n <= c
    BY <1>1, <1>4
  <2> QED BY <1>1, <2>1, <2>2
<1>5. CASE Len(q) > c
  <2> DEFINE r == FirstOnes(q, c)
             m == IF c <= b THEN 0 ELSE IF b + n <= c THEN n ELSE c - b
             a == IF c <= b THEN 0 ELSE b
  <2>1. r = SubSeq(q, 1, c)
    BY <1>5 DEF FirstOnes
  <2>2. Len(r) = c /\ \A i \in 1..c : r[i] = q[i] /\ i \in 1..Len(q)
    BY <1>1, <1>5, <2>1
  <2> HIDE DEF r
  <2>3. m \in 0..n /\ a \in Nat /\ a + m <= c /\ m <= c
    BY <1>1
  <2>4. ASSUME NEW i \in 1..c PROVE r[i][1] = k <=> (a < i /\ i <= a + m)
    <3>1. r[i][1] = k <=> (b < i /\ i <= b + n)
      BY <1>2, <2>2
    <3> QED BY <1>1, <3>1
  <2>5. ASSUME NEW j \in 1..m PROVE r[a + j][2] = Line(s, 0 + j)
    <3>1. a + j \in 1..c /\ a + j = b + j /\ j \in 1..n /\ 0 + j = j
      BY <1>1, <2>3
    <3> HIDE DEF a, m
    <3> QED BY <1>3, <2>2, <3>1
  <2> HIDE DEF a, m
  <2>6. Block(s, r, k, a, m, 0)
    <3>1. m \in Nat /\ Len(r) \in Nat
      BY <1>1, <2>2, <2>3
    <3> QED BY <2>2, <2>3, <2>4, <2>5, <3>1 DEF Block
  <2> QED BY <2>3, <2>6 DEF r
<1> QED BY <1>4, <1>5

LEMMA TaggedFacts ==
  ASSUME NEW k, NEW lines, NEW n \in Nat, Len(lines) = n
  PROVE  /\ Tagged(k, lines) = [i \in 1..n |-> <<k, lines[i]>>] /\ Len(Tagged(k, lines)) = n
         /\ \A i \in 1..n : Tagged(k, lines)[i] = <<k, lines[i]>>
  BY DEF Tagged

(* Reading an object into what is collected leaves the others' lines where  *)
(* they are,                                                                *)
LEMMA BlockStays ==
  ASSUME NEW s, NEW S, NEW q \in Seq(S), NEW t \in Seq(S), NEW k, NEW b, NEW n, Block(s, q, k, b, n, 0),
         \A i \in 1..Len(t) : t[i][1] # k
  PROVE  Block(s, q \o t, k, b, n, 0)
<1> DEFINE r == q \o t
<1>1. b \in Nat /\ n \in Nat /\ Len(q) \in Nat /\ b + n <= Len(q)
  BY DEF Block
<1>2. /\ Len(r) = Len(q) + Len(t) /\ Len(t) \in Nat
      /\ \A i \in 1..Len(q) : r[i] = q[i]
      /\ \A i \in 1..Len(t) : r[Len(q) + i] = t[i]
  BY Concatenation
<1> HIDE DEF r
<1>3. ASSUME NEW i \in 1..Len(r) PROVE r[i][1] = k <=> (b < i /\ i <= b + n)
  <2>1. CASE i <= Len(q)
    <3>1. i \in 1..Len(q)
      BY <1>1, <2>1
    <3> QED BY <1>2, <3>1 DEF Block
  <2>2. CASE ~(i <= Len(q))
    <3>1. i - Len(q) \in 1..Len(t) /\ Len(q) + (i - Len(q)) = i /\ ~(i <= b + n)
      BY <1>1, <1>2, <2>2
    <3>2. r[i] = t[i - Len(q)]
      BY <1>2, <3>1
    <3> QED BY <3>1, <3>2
  <2> QED BY <2>1, <2>2
<1>4. ASSUME NEW j \in 1..n PROVE r[b + j][2] = Line(s, 0 + j)
  <2>1. b + j \in 1..Len(q)
    BY <1>1
  <2> QED BY <1>2, <2>1 DEF Block
<1>5. Block(s, r, k, b, n, 0)
  <2>1. Len(r) \in Nat /\ b + n <= Len(r)
    BY <1>1, <1>2
  <2> QED BY <1>1, <1>3, <1>4, <2>1 DEF Block
<1> QED BY <1>5 DEF r

(* and puts its own together.                                              *)
LEMMA BlockBegins ==
  ASSUME NEW s, NEW S, NEW q \in Seq(S), NEW k, NEW m \in Nat, Tagged(k, LinesOf(s, 0, m)) \in Seq(S),
         \A i \in 1..Len(q) : q[i][1] # k
  PROVE  Block(s, q \o Tagged(k, LinesOf(s, 0, m)), k, Len(q), m, 0)
<1> DEFINE t == Tagged(k, LinesOf(s, 0, m))
           r == q \o t
<1>1. Len(LinesOf(s, 0, m)) = m /\ \A i \in 1..m : LinesOf(s, 0, m)[i] = Line(s, i)
  BY LinesFromStart
<1>2. Len(t) = m /\ \A i \in 1..m : t[i] = <<k, Line(s, i)>>
  BY <1>1, TaggedFacts
<1> HIDE DEF t
<1>3. /\ Len(r) = Len(q) + m /\ Len(q) \in Nat
      /\ \A i \in 1..Len(q) : r[i] = q[i]
      /\ \A i \in 1..m : r[Len(q) + i] = t[i]
  <2>1. t \in Seq(S)
    BY DEF t
  <2>2. /\ Len(r) = Len(q) + Len(t) /\ Len(q) \in Nat
        /\ \A i \in 1..Len(q) : r[i] = q[i]
        /\ \A i \in 1..Len(t) : r[Len(q) + i] = t[i]
    BY <2>1, Concatenation
  <2> HIDE DEF r
  <2> QED BY <1>2, <2>2
<1> HIDE DEF r
<1>4. ASSUME NEW i \in 1..Len(r) PROVE r[i][1] = k <=> (Len(q) < i /\ i <= Len(q) + m)
  <2>1. CASE i <= Len(q)
    <3>1. i \in 1..Len(q) /\ ~(Len(q) < i)
      BY <1>3, <2>1
    <3> QED BY <1>3, <3>1
  <2>2. CASE ~(i <= Len(q))
    <3>1. i - Len(q) \in 1..m /\ Len(q) + (i - Len(q)) = i /\ Len(q) < i /\ i <= Len(q) + m
      BY <1>3, <2>2
    <3>2. r[i] = t[i - Len(q)]
      BY <1>3, <3>1
    <3>3. r[i][1] = k
      BY <1>2, <3>1, <3>2
    <3> QED BY <3>1, <3>3
  <2> QED BY <2>1, <2>2
<1>5. ASSUME NEW j \in 1..m PROVE r[Len(q) + j][2] = Line(s, 0 + j)
  BY <1>2, <1>3
<1>6. Block(s, r, k, Len(q), m, 0)
  <2>1. Len(r) \in Nat /\ Len(q) + m <= Len(r)
    BY <1>3
  <2> QED BY <1>3, <1>4, <1>5, <2>1 DEF Block
<1> QED BY <1>6 DEF r, t

LEMMA NoBlock ==
  ASSUME NEW s, NEW q, Len(q) \in Nat, NEW k, \A i \in 1..Len(q) : q[i][1] # k
  PROVE  Block(s, q, k, 0, 0, 0)
<1>1. \A i \in 1..Len(q) : ~(i <= 0 + 0)
  OBVIOUS
<1> QED BY <1>1 DEF Block

(* The first lines of an object are a prefix of its lines, the last ones a *)
(* suffix.                                                                 *)
LEMMA FirstLines ==
  ASSUME NEW s, NEW n \in Nat, NEW m \in Nat, n <= m
  PROVE  IsPrefix(LinesOf(s, 0, n), LinesOf(s, 0, m))
<1> DEFINE a == LinesOf(s, 0, n)
           b == LinesOf(s, 0, m)
<1>1. a \in Seq(AllLines(s)) /\ Len(a) = n /\ \A i \in 1..n : a[i] = Line(s, i)
  BY LinesFromStart
<1>2. b \in Seq(AllLines(s)) /\ Len(b) = m /\ \A i \in 1..m : b[i] = Line(s, i)
  BY LinesFromStart
<1> HIDE DEF a, b
<1>3. SubSeq(a, 1, n) = [i \in 1..n |-> Line(s, i)]
  BY <1>1
<1>4. SubSeq(b, 1, n) = [i \in 1..n |-> Line(s, i)]
  BY <1>2
<1>5. IsPrefix(a, b)
  BY <1>1, <1>2, <1>3, <1>4 DEF IsPrefix
<1> QED BY <1>5 DEF a, b

LEMMA LastLines ==
  ASSUME NEW s, NEW d \in Nat, NEW n \in Nat, d <= n
  PROVE  IsSuffix(LinesOf(s, d, n), LinesOf(s, 0, n))
<1> DEFINE a == LinesOf(s, d, n)
           b == LinesOf(s, 0, n)
           ra == Reverse(a)
           rb == Reverse(b)
           c == n - d
<1>1. Len(a) = c /\ c \in Nat /\ c <= n /\ \A i \in 1..c : a[i] = Line(s, d + i)
  <2>1. LinesAre(s, d, n)
    BY LinesOfFacts
  <2> QED BY <2>1 DEF LinesAre
<1>2. Len(b) = n /\ \A i \in 1..n : b[i] = Line(s, i)
  BY LinesFromStart
<1> HIDE DEF a, b
<1>3. ASSUME NEW i \in 1..c PROVE a[(c - i) + 1] = Line(s, n + 1 - i)
  <2>1. (c - i) + 1 \in 1..c /\ d + ((c - i) + 1) = n + 1 - i
    OBVIOUS
  <2> QED BY <1>1, <2>1
<1>4. ASSUME NEW i \in 1..n PROVE b[(n - i) + 1] = Line(s, n + 1 - i)
  <2>1. (n - i) + 1 \in 1..n /\ (n - i) + 1 = n + 1 - i
    OBVIOUS
  <2> QED BY <1>2, <2>1
<1> HIDE DEF c
<1>5. ra = [i \in 1..c |-> Line(s, n + 1 - i)]
  BY <1>1, <1>3 DEF Reverse
<1>6. rb = [i \in 1..n |-> Line(s, n + 1 - i)]
  BY <1>2, <1>4 DEF Reverse
<1> HIDE DEF ra, rb
<1>7. Len(ra) = c /\ Len(rb) = n
  BY <1>1, <1>5, <1>6
<1>8. SubSeq(ra, 1, c) = [i \in 1..c |-> Line(s, n + 1 - i)]
  BY <1>1, <1>5
<1>9. SubSeq(rb, 1, c) = [i \in 1..c |-> Line(s, n + 1 - i)]
  BY <1>1, <1>6
<1>10. IsPrefix(ra, rb)
  BY <1>1, <1>7, <1>8, <1>9 DEF IsPrefix
<1> QED BY <1>10 DEF IsSuffix, ra, rb, a, b

(* What was read and sent of an object stays what it is when it grows. *)
LEMMA LinesKept ==
  ASSUME NEW s, NEW t, NEW m \in Nat, \A j \in 0..m : At(t, j) = At(s, j),
         NEW n \in 0..m, NEW d \in 0..n
  PROVE  LinesOf(t, d, n) = LinesOf(s, d, n) /\ (AllFit(s, d, n) => AllFit(t, d, n))
<1>1. \A j \in (d + 1)..n : j \in 0..m /\ j - 1 \in 0..m
  OBVIOUS
<1>2. \A i \in 1..(n - d) : d + i \in (d + 1)..n
  OBVIOUS
<1>3. \A j \in (d + 1)..n : Line(t, j) = Line(s, j) /\ (Fits(s, j) <=> Fits(t, j))
  BY <1>1 DEF Line, Fits
<1> QED BY <1>2, <1>3 DEF LinesOf, AllFit

LEMMA BlockKept ==
  ASSUME NEW s, NEW t, NEW m \in Nat, \A j \in 0..m : At(t, j) = At(s, j),
         NEW n \in 0..m, NEW q, NEW k, NEW b, Block(s, q, k, b, n, 0)
  PROVE  Block(t, q, k, b, n, 0)
<1>1. ASSUME NEW j \in 1..n PROVE Line(t, 0 + j) = Line(s, 0 + j)
  <2>1. 0 + j \in 0..m /\ (0 + j) - 1 \in 0..m
    OBVIOUS
  <2> QED BY <2>1 DEF Line
<1> QED BY <1>1 DEF Block


(* A listing names each object that exists once, with its size. *)
LEMMA ListedFacts ==
  ASSUME IsFiniteSet(Keys)
  PROVE  /\ \E S : Listed \in Seq(S)
         /\ \A i \in 1..Len(Listed) : \E k \in Existing \cap Watched :
              Listed[i] = [key |-> k, size |-> Size(k), stamp |-> stamp[k]]
         /\ \A i, j \in 1..Len(Listed) : Listed[i].key = Listed[j].key => i = j
<1> DEFINE K == Existing \cap Watched
           E == {[key |-> k, size |-> Size(k), stamp |-> stamp[k]] : k \in K}
           N == Cardinality(E)
           q == Listed
<1>1. IsFiniteSet(E)
  <2> DEFINE f == [k \in K |-> [key |-> k, size |-> Size(k), stamp |-> stamp[k]]]
  <2>1. K \in SUBSET Keys
    BY DEF Existing
  <2>2. f \in Surjection(K, E)
    BY DEF Surjection
  <2> HIDE DEF K, E, f
  <2>3. IsFiniteSet(K)
    BY <2>1, FS_Subset
  <2> QED BY <2>2, <2>3, FS_Surjection
<1>2. q = CHOOSE f \in [1..N -> E] : IsInjective(f)
  BY SameCardinality DEF Listed, SetToSeq
<1>3. N \in Nat /\ \E f \in [1..N -> E] : IsInjective(f)
  <2> HIDE DEF E
  <2>1. N \in Nat /\ ExistsBijection(1..N, E)
    BY <1>1, FS_CardinalityType, SameCardinality
  <2> QED BY <2>1 DEF ExistsBijection, Bijection, Injection
<1> HIDE DEF q
<1>4. q \in [1..N -> E] /\ IsInjective(q)
  <2> HIDE DEF E, N
  <2> QED BY <1>2, <1>3
<1>5. Len(q) = N /\ q \in Seq(E)
  <2> HIDE DEF E, N
  <2> QED BY <1>3, <1>4
<1>6. ASSUME NEW i \in 1..N
      PROVE  \E k \in K : q[i] = [key |-> k, size |-> Size(k), stamp |-> stamp[k]]
  BY <1>4
<1>7. ASSUME NEW i \in 1..N, NEW j \in 1..N, q[i].key = q[j].key PROVE i = j
  <2>1. q[i] = q[j]
    <3> DEFINE Row(k) == [key |-> k, size |-> Size(k), stamp |-> stamp[k]]
    <3>1. \A k : Row(k).key = k
      OBVIOUS
    <3>2. PICK k \in K : q[i] = Row(k)
      BY <1>6
    <3>3. PICK h \in K : q[j] = Row(h)
      BY <1>6
    <3> HIDE DEF Row
    <3> QED BY <1>7, <3>1, <3>2, <3>3
  <2> HIDE DEF N, E
  <2> QED BY <1>4, <2>1 DEF IsInjective
<1> HIDE DEF N
<1> QED BY <1>5, <1>6, <1>7 DEF q

-----------------------------------------------------------------------------

(* Lines are being collected, and sent only once all of them are there. *)
Collecting == Buffers /\ at = "first"

(* A plain object is whole lines, and never shorter than it was. *)
StoreInv ==
  \A k \in plain : k \notin Zipped /\ before[k] <= Size(k) /\ Regular(content[k])

(* Reading stops between two of its lines. *)
OffsetInv ==
  \A k \in plain : \E n \in 0..LineCount(content[k]) : offset[k] = At(content[k], n)

(* What a listing showed of a plain object is still there; and at the first *)
(* look every object comes once, and is not read yet when it comes.         *)
TodoInv ==
  /\ \A i \in 1..Len(todo) : todo[i].key \in plain => todo[i].size <= Size(todo[i].key)
  /\ at = "first" => \A i \in 1..Len(todo) :
       /\ offset[todo[i].key] = 0
       /\ \A j \in 1..Len(buffer) : buffer[j][1] # todo[i].key
       /\ \A j \in 1..Len(todo) : todo[i].key = todo[j].key => i = j

(* What holds at each point of the goroutine.                              *)
PhaseInv ==
  /\ at = "open" => todo = <<>> /\ tracked = {} /\ \A k \in Keys : offset[k] = 0 /\ sent[k] = <<>>
  /\ at \in {"mark", "follow"} => todo = <<>>
  /\ ~Collecting => buffer = <<>>
  /\ mode = "head" => kind = "one" /\ at \in {"open", "first", "ended"}
  /\ at = "mark" => kind = "one"
  /\ at = "first" => ~Skips
  /\ (kind = "one" /\ at \in {"open", "first", "mark"}) => tracked = {}

(* What was sent of a plain object is the lines d+1 to n of it, for some d, *)
(* all of which fit; while the stream goes on, so does reading, right after *)
(* them.                                                                    *)
SentUpTo(k, n, d) ==
  /\ AllFit(content[k], d, n) /\ sent[k] = LinesOf(content[k], d, n)
  /\ IF Collecting THEN d = n ELSE at # "ended" => offset[k] = At(content[k], n)

SentInv ==
  /\ \A k \in Keys \ plain : sent[k] = <<>>
  /\ \A k \in plain : \E n \in 0..LineCount(content[k]) : \E d \in 0..n : SentUpTo(k, n, d)

(* What is collected of it is all its lines up to where reading got. *)
CollectedUpTo(k, n, b) ==
  /\ offset[k] = At(content[k], n) /\ AllFit(content[k], 0, n)
  /\ Block(content[k], buffer, k, b, n, 0)

BlockInv ==
  Collecting => \A k \in plain : \E n \in 0..LineCount(content[k]) : \E b \in Nat : CollectedUpTo(k, n, b)

(* A stream of one object knows of no other; a head is its first lines, a  *)
(* tail its last lines when following begins, and a stream that skips what *)
(* is there begins where it ended.                                         *)
HeadIs(n) ==
  /\ n <= LineCount(content[Target]) /\ AllFit(content[Target], 0, n)
  /\ sent[Target] = LinesOf(content[Target], 0, n)

TailIs(n, d) ==
  /\ AllFit(content[Target], 0, n) /\ offset[Target] = At(content[Target], n)
  /\ sent[Target] = LinesOf(content[Target], d, n)
  /\ n - d = Count \/ (d = 0 /\ n < Count)

OneInv ==
  kind = "one" =>
    /\ \A k \in Keys \ {Target} : offset[k] = 0 /\ sent[k] = <<>>
    /\ \A i \in 1..Len(buffer) : buffer[i][1] = Target
    /\ Target \in plain =>
         /\ mode = "head" => \E n \in 0..Count : HeadIs(n)
         /\ (mode = "tail" /\ at = "mark") =>
              \E n \in 0..LineCount(content[Target]) : \E d \in 0..n : TailIs(n, d)
         /\ (mode = "live" /\ failures = 0) =>
              /\ at \in {"open", "ended"} \/ before[Target] <= offset[Target]
              /\ \A i \in 1..Len(sent[Target]) : sent[Target][i][1] > before[Target]

PollInv ==
  /\ PollTypeOK /\ StoreInv /\ OffsetInv /\ TodoInv /\ PhaseInv /\ SentInv
  /\ BlockInv /\ NotedIsRead /\ OneInv

LEMMA NoLines ==
  ASSUME NEW s, NEW n \in Nat
  PROVE  LinesOf(s, n, n) = <<>> /\ AllFit(s, n, n)
<1>1. n - n = 0 /\ \A j \in (n + 1)..n : FALSE
  OBVIOUS
<1> QED BY <1>1 DEF LinesOf, AllFit

LEMMA AtStart ==
  ASSUME NEW s, Len(s) \in Nat
  PROVE  /\ LineCount(s) \in Nat /\ 0 \in 0..LineCount(s) /\ 0 \in 0..0 /\ At(s, 0) = 0
         /\ LinesOf(s, 0, 0) = <<>> /\ AllFit(s, 0, 0)
<1>1. LineCount(s) \in Nat
  BY NewlinesListed
<1>2. At(s, 0) = 0
  BY DEF At
<1> QED BY <1>1, <1>2, NoLines

LEMMA AtItsEnd ==
  ASSUME NEW s, Len(s) \in Nat, Regular(s), NEW m, m = LineCount(s)
  PROVE  /\ m \in 0..LineCount(s) /\ m \in Nat /\ m \in 0..m /\ At(s, m) = Len(s)
         /\ LinesOf(s, m, m) = <<>> /\ AllFit(s, m, m)
<1>1. m \in Nat
  BY NewlinesListed
<1>2. Breaks(s, m)
  BY BreaksOf
<1>3. At(s, m) = Len(s)
  BY <1>2, BreaksFacts
<1> QED BY <1>1, <1>3, NoLines

(* A place up to which an object was read is one of its newlines, or its   *)
(* beginning.                                                              *)
LEMMA PlaceFacts ==
  ASSUME NEW s, Len(s) \in Nat, NEW n \in 0..LineCount(s)
  PROVE  /\ LineCount(s) \in Nat /\ n \in Nat /\ At(s, n) \in 0..Len(s) /\ At(s, n) \in Int
         /\ n # 0 => At(s, n) \in 1..Len(s) /\ s[At(s, n)] = "n"
<1>1. LineCount(s) \in Nat /\ Breaks(s, LineCount(s))
  BY BreaksOf, NewlinesListed
<1>2. At(s, n) \in 0..Len(s) /\ At(s, n) \in Int
  BY <1>1, BreaksFacts
<1>3. n # 0 => n \in 1..LineCount(s)
  BY <1>1
<1> QED BY <1>1, <1>2, <1>3 DEF Breaks

LEMMA LinesTyped ==
  ASSUME NEW s, Len(s) \in Nat, Len(s) <= MaxBytes, NEW n \in 0..LineCount(s), NEW d \in 0..n
  PROVE  LinesOf(s, d, n) \in Seq(Span)
<1>1. n - d \in Nat /\ MaxBytes \in Nat /\ n \in Nat /\ LineCount(s) \in Nat
  BY PollAssumption, NewlinesListed
<1>2. \A i \in 1..(n - d) : Line(s, d + i) \in Span
  <2> SUFFICES ASSUME NEW i \in 1..(n - d) PROVE Line(s, d + i) \in Span
    OBVIOUS
  <2>1. d + i \in 1..LineCount(s) /\ d + i \in 0..LineCount(s) /\ (d + i) - 1 \in 0..LineCount(s)
    BY <1>1
  <2> DEFINE a == At(s, (d + i) - 1)
             b == At(s, d + i)
  <2>2. a \in 0..Len(s) /\ b \in 1..Len(s)
    <3>1. Breaks(s, LineCount(s))
      BY BreaksOf
    <3>2. a \in 0..Len(s)
      BY <2>1, <3>1, BreaksFacts
    <3>3. b \in 1..Len(s)
      BY <2>1, <3>1 DEF Breaks
    <3> QED BY <3>2, <3>3
  <2>3. Breaks(s, LineCount(s))
    BY BreaksOf
  <2>4. a < b
    <3>1. (d + i) - 1 < d + i
      BY <1>1
    <3> HIDE DEF a, b
    <3>2. \A x, y \in 0..LineCount(s) : x < y => At(s, x) < At(s, y)
      BY <2>3 DEF Breaks
    <3> QED BY <2>1, <3>1, <3>2 DEF a, b
  <2> HIDE DEF a, b
  <2>5. a + 1 \in 1..MaxBytes /\ b - 1 \in 0..MaxBytes
    BY <1>1, <2>2, <2>4
  <2> QED BY <2>5 DEF Line, Span, a, b
<1>3. LinesOf(s, d, n) = [i \in 1..(n - d) |-> Line(s, d + i)]
  BY DEF LinesOf
<1> QED
  <2> DEFINE g(i) == Line(s, d + i)
             c == n - d
  <2>1. c \in Nat /\ LinesOf(s, d, n) = [i \in 1..c |-> g(i)] /\ \A i \in 1..c : g(i) \in Span
    BY <1>1, <1>2, <1>3
  <2> HIDE DEF g, c
  <2> QED BY <2>1

LEMMA PollInit_Inv == PollInit => PollInv
<1> SUFFICES ASSUME PollInit PROVE PollInv
  OBVIOUS
<1> USE DEF PollInit
<1>0. /\ content \in [Keys -> {<<>>, Whole}] /\ kind \in {"all", "one"}
      /\ mode \in {"whole", "tail", "head", "live"} /\ at = "open"
      /\ todo = <<>> /\ buffer = <<>> /\ tracked = {}
      /\ offset = [k \in Keys |-> 0] /\ sent = [k \in Keys |-> <<>>]
      /\ before = [k \in Keys |-> Size(k)] /\ plain = Keys \ Zipped
      /\ kind = "all" => mode # "head"
  OBVIOUS
<1>1. MaxBytes \in Nat /\ MaxBytes >= 2 /\ MaxChanges \in Nat /\ MaxFailures \in Nat /\ Target \in Keys
      /\ Count \in Nat /\ Count > 0
  BY PollAssumption
<1>2. \A k \in Keys : content[k] \in Seq({"c", "r", "n"}) /\ Size(k) \in 0..MaxBytes
        /\ Regular(content[k])
  <2> SUFFICES ASSUME NEW k \in Keys PROVE content[k] \in Seq({"c", "r", "n"}) /\ Size(k) \in 0..MaxBytes
        /\ Regular(content[k])
    OBVIOUS
  <2>1. CASE content[k] = <<>>
    <3>1. Regular(content[k])
      BY <2>1 DEF Regular
    <3> QED BY <1>1, <2>1, <3>1 DEF Size
  <2>2. CASE content[k] = Whole
    <3>1. Whole \in Seq({"c", "r", "n"}) /\ Len(Whole) = 2 /\ Whole[1] = "c" /\ Whole[2] = "n"
      BY DEF Whole
    <3>2. Regular(content[k])
      BY <2>2, <3>1 DEF Regular
    <3> QED BY <1>1, <2>2, <3>1, <3>2 DEF Size
  <2> QED BY <1>0, <2>1, <2>2
<1>3. PollTypeOK
  <2>1. NotSeen \in [size : 0..MaxBytes, stamp : 0..MaxChanges]
    BY <1>1 DEF NotSeen
  <2>2. content \in [Keys -> Seq({"c", "r", "n"})]
    BY <1>0, <1>2
  <2>3. \A k \in Keys : Size(k) <= MaxBytes
    BY <1>2
  <2>4. before \in [Keys -> 0..MaxBytes]
    BY <1>0, <1>2
  <2>5. seen \in [Keys -> [size : 0..MaxBytes, stamp : 0..MaxChanges]]
    BY <2>1
  <2>6. stamp \in [Keys -> 0..MaxChanges] /\ offset \in [Keys -> 0..(MaxBytes + 1)] /\ sent \in [Keys -> Seq(Span)]
    BY <1>1
  <2>7. todo \in Seq(Listing) /\ buffer \in Seq(Watched \X Span)
    BY <1>0
  <2>8. changes \in 0..MaxChanges /\ failures \in 0..MaxFailures /\ plain \subseteq Keys /\ missed \subseteq Keys
        /\ tracked \subseteq Watched
    BY <1>1
  <2> QED BY <1>0, <2>2, <2>3, <2>4, <2>5, <2>6, <2>7, <2>8 DEF PollTypeOK
<1>4. StoreInv
  <2>1. \A k \in plain : k \in Keys /\ k \notin Zipped /\ before[k] = Size(k)
    BY <1>0
  <2> QED BY <1>2, <2>1 DEF StoreInv
<1>5. ASSUME NEW k \in plain
      PROVE  /\ k \in Keys /\ offset[k] = At(content[k], 0) /\ sent[k] = LinesOf(content[k], 0, 0)
             /\ AllFit(content[k], 0, 0) /\ 0 \in 0..LineCount(content[k]) /\ 0 \in 0..0
  <2>1. k \in Keys
    BY <1>0
  <2>2. Len(content[k]) \in Nat
    BY <1>1, <1>2, <2>1 DEF Size
  <2> QED BY <1>0, <2>1, <2>2, AtStart
<1>6. OffsetInv
  BY <1>5 DEF OffsetInv
<1>7. TodoInv
  BY <1>0 DEF TodoInv
<1>8. PhaseInv
  BY <1>0 DEF PhaseInv
<1>9. SentInv
  <2>1. \A k \in plain : SentUpTo(k, 0, 0)
    BY <1>5 DEF SentUpTo
  <2> QED BY <1>0, <1>5, <2>1 DEF SentInv
<1>10. BlockInv /\ NotedIsRead
  BY <1>0 DEF BlockInv, Collecting, NotedIsRead
<1>11. OneInv
  <2>1. HeadIs(0) /\ 0 \in 0..Count
    <3>1. Len(content[Target]) \in Nat
      BY <1>1, <1>2 DEF Size
    <3>2. 0 <= LineCount(content[Target])
      BY <3>1, AtStart
    <3> QED BY <1>0, <1>1, <3>1, <3>2, AtStart DEF HeadIs
  <2>2. \A k \in Keys : offset[k] = 0 /\ sent[k] = <<>>
    BY <1>0
  <2>3. Len(sent[Target]) = 0 /\ Len(buffer) = 0
    BY <1>0, <1>1
  <2>4. \A i \in 1..0 : FALSE
    OBVIOUS
  <2> QED BY <1>0, <2>1, <2>2, <2>3, <2>4 DEF OneInv
<1> QED BY <1>3, <1>4, <1>6, <1>7, <1>8, <1>9, <1>10, <1>11 DEF PollInv

LEMMA StuckIs ==
  /\ \A k : Stuck(k) <=> Blocked(content[k], offset[k])
  /\ \A k : Stuck(k)' <=> Blocked(content'[k], offset'[k])
  BY DEF Stuck, Blocked, Size

LEMMA BlockedStays ==
  ASSUME NEW s, Len(s) \in Nat, NEW t, Len(t) \in Nat, Len(s) <= Len(t),
         \A i \in 1..Len(s) : t[i] = s[i], NEW o \in Nat, Blocked(s, o)
  PROVE  Blocked(t, o)
<1>1. MaxLine \in Nat
  BY PollAssumption
<1>2. o + MaxLine + 1 <= Len(s) /\ \A j \in (o + 1)..(o + MaxLine + 1) : s[j] # "n"
  BY DEF Blocked
<1>3. \A j \in (o + 1)..(o + MaxLine + 1) : j \in 1..Len(s)
  BY <1>1, <1>2
<1>4. o + MaxLine + 1 <= Len(t)
  BY <1>1, <1>2
<1> QED BY <1>2, <1>3, <1>4 DEF Blocked

(* The lines of an object are the first lines of what it grows into. *)
GrownInto(s, t) ==
  /\ LineCount(s) \in Nat /\ LineCount(t) \in Nat
  /\ LineCount(s) <= LineCount(t)
  /\ \A j \in 0..LineCount(s) : At(t, j) = At(s, j)
  /\ \A n \in 0..LineCount(s) :
       /\ n \in 0..LineCount(t) /\ 0 \in 0..n
       /\ \A d \in 0..n : LinesOf(t, d, n) = LinesOf(s, d, n) /\ (AllFit(s, d, n) => AllFit(t, d, n))

LEMMA GrowthKeeps ==
  ASSUME NEW s, Len(s) \in Nat, NEW t, Len(t) \in Nat, Len(s) <= Len(t),
         \A i \in 1..Len(s) : t[i] = s[i]
  PROVE  GrownInto(s, t)
<1>1. LineCount(s) \in Nat /\ LineCount(t) \in Nat
  BY NewlinesListed
<1>2. LineCount(s) <= LineCount(t) /\ \A j \in 0..LineCount(s) : At(t, j) = At(s, j)
  BY Extends
<1>3. ASSUME NEW n \in 0..LineCount(s), NEW d \in 0..n
      PROVE  LinesOf(t, d, n) = LinesOf(s, d, n) /\ (AllFit(s, d, n) => AllFit(t, d, n))
  BY <1>1, <1>2, LinesKept
<1>4. \A n \in 0..LineCount(s) : n \in 0..LineCount(t) /\ 0 \in 0..n
  BY <1>1, <1>2
<1> QED BY <1>1, <1>2, <1>3, <1>4 DEF GrownInto

(* A change of the store.  What it does to the objects that stay plain is *)
(* to add whole lines to them.                                            *)
LEMMA ChangeKeeps ==
  ASSUME PollInv, plain' \subseteq plain,
         content' \in [Keys -> Seq({"c", "r", "n"})],
         \A j \in Keys : Len(content'[j]) <= MaxBytes,
         \A j \in plain' : /\ Size(j) <= Len(content'[j]) /\ Regular(content'[j])
                           /\ \A i \in 1..Size(j) : content'[j][i] = content[j][i],
         changes < MaxChanges, changes' = changes + 1, at # "ended",
         \E k : stamp' \in {stamp, [stamp EXCEPT ![k] = changes + 1]},
         sent' = [o \in Keys |-> IF o \in plain' THEN sent[o] ELSE <<>>],
         UNCHANGED <<setup, at, todo, tracked, seen, offset, buffer, failures, missed>>
  PROVE  PollInv'
<1> USE DEF Size
<1>0. /\ kind' = kind /\ mode' = mode /\ before' = before /\ at' = at /\ todo' = todo
      /\ tracked' = tracked /\ seen' = seen /\ offset' = offset /\ buffer' = buffer
      /\ failures' = failures /\ missed' = missed
  BY DEF setup
<1>1. /\ PollTypeOK /\ StoreInv /\ OffsetInv /\ TodoInv /\ PhaseInv /\ SentInv
      /\ BlockInv /\ NotedIsRead /\ OneInv
  BY DEF PollInv
<1>2. Watched' = Watched /\ Buffers' = Buffers /\ Collecting' = Collecting /\ Skips' = Skips
  BY <1>0 DEF Watched, Buffers, Collecting, Skips
<1>4. /\ plain \subseteq Keys /\ plain' \subseteq Keys
      /\ \A k \in Keys : Size(k) \in Nat /\ Len(content'[k]) \in Nat
  BY <1>1 DEF PollTypeOK
<1>5. \A k \in plain' : k \in plain /\ k \in Keys /\ Size(k) <= Len(content'[k]) /\ sent'[k] = sent[k]
  BY <1>4
<1>6. \A k \in Keys \ plain' : sent'[k] = <<>>
  OBVIOUS
<1>7. StoreInv'
  <2> SUFFICES ASSUME NEW k \in plain'
               PROVE  k \notin Zipped /\ before'[k] <= Len(content'[k]) /\ Regular(content'[k])
    BY DEF StoreInv
  <2>1. k \notin Zipped /\ before[k] <= Size(k) /\ before[k] \in Nat
    BY <1>1, <1>5 DEF StoreInv, PollTypeOK
  <2> QED BY <1>0, <1>4, <1>5, <2>1
<1>20. ASSUME NEW k \in plain'
       PROVE  GrownInto(content[k], content'[k])
  <2>1. /\ Len(content[k]) \in Nat /\ Len(content'[k]) \in Nat /\ Len(content[k]) <= Len(content'[k])
        /\ \A i \in 1..Len(content[k]) : content'[k][i] = content[k][i]
    BY <1>4, <1>5
  <2> QED BY <2>1, GrowthKeeps
<1>8. OffsetInv'
  <2> SUFFICES ASSUME NEW k \in plain'
               PROVE  \E n \in 0..LineCount(content'[k]) : offset'[k] = At(content'[k], n)
    BY DEF OffsetInv
  <2>1. PICK n \in 0..LineCount(content[k]) : offset[k] = At(content[k], n)
    BY <1>1, <1>5 DEF OffsetInv
  <2>2. n \in 0..LineCount(content'[k]) /\ At(content'[k], n) = At(content[k], n)
    BY <1>20 DEF GrownInto
  <2> QED BY <1>0, <2>1, <2>2
<1>9. SentInv'
  <2> SUFFICES ASSUME NEW k \in plain'
               PROVE  \E n \in 0..LineCount(content'[k]) : \E d \in 0..n :
                        /\ AllFit(content'[k], d, n) /\ sent'[k] = LinesOf(content'[k], d, n)
                        /\ IF Collecting' THEN d = n ELSE at' # "ended" => offset'[k] = At(content'[k], n)
    BY <1>6 DEF SentInv, SentUpTo
  <2>1. PICK n \in 0..LineCount(content[k]) : \E d \in 0..n : SentUpTo(k, n, d)
    BY <1>1, <1>5 DEF SentInv
  <2>2. PICK d \in 0..n : SentUpTo(k, n, d)
    BY <2>1
  <2>3. /\ AllFit(content[k], d, n) /\ sent[k] = LinesOf(content[k], d, n)
        /\ IF Collecting THEN d = n ELSE at # "ended" => offset[k] = At(content[k], n)
    BY <2>2 DEF SentUpTo
  <2>4. /\ n \in 0..LineCount(content'[k]) /\ At(content'[k], n) = At(content[k], n)
        /\ LinesOf(content'[k], d, n) = LinesOf(content[k], d, n) /\ AllFit(content'[k], d, n)
    BY <1>20, <2>3 DEF GrownInto
  <2>5. sent'[k] = LinesOf(content'[k], d, n)
    BY <1>5, <2>3, <2>4
  <2>6. IF Collecting' THEN d = n ELSE at' # "ended" => offset'[k] = At(content'[k], n)
    BY <1>0, <1>2, <2>3, <2>4
  <2> QED BY <2>4, <2>5, <2>6
<1>10. PollTypeOK'
  <2>1. sent' \in [Keys -> Seq(Span)]
    <3>1. \A k \in plain' : sent'[k] \in Seq(Span)
      BY <1>1, <1>4, <1>5 DEF PollTypeOK
    <3>2. \A k \in Keys \ plain' : sent'[k] \in Seq(Span)
      BY <1>6
    <3> QED BY <1>6, <3>1, <3>2
  <2>2. changes' \in 0..MaxChanges
    <3>1. changes \in 0..MaxChanges /\ MaxChanges \in Nat
      BY <1>1, PollAssumption DEF PollTypeOK
    <3> QED BY <3>1
  <2>3. stamp' \in [Keys -> 0..MaxChanges]
    <3>1. stamp \in [Keys -> 0..MaxChanges] /\ changes + 1 \in 0..MaxChanges
      BY <1>1, PollAssumption DEF PollTypeOK
    <3> QED BY <3>1
  <2>4. \A k \in Keys : Len(content'[k]) <= MaxBytes
    OBVIOUS
  <2>5. Listing' = Listing
    BY <1>2 DEF Listing
  <2>6. plain' \subseteq Keys
    BY <1>4
  <2> QED BY <1>0, <1>1, <1>2, <2>1, <2>2, <2>3, <2>4, <2>5, <2>6 DEF PollTypeOK
<1>11. TodoInv'
  <2>1. ASSUME NEW i \in 1..Len(todo), todo[i].key \in plain'
        PROVE  todo[i].size <= Len(content'[todo[i].key])
    <3>1. todo[i].size <= Size(todo[i].key)
      BY <1>1, <1>5, <2>1 DEF TodoInv
    <3>2. todo[i] \in Listing
      BY <1>1 DEF PollTypeOK
    <3>3. todo[i].size \in Nat
      BY <3>2 DEF Listing
    <3> DEFINE k == todo[i].key
    <3>4. k \in plain' /\ todo[i].size <= Size(k)
      BY <2>1, <3>1
    <3> HIDE DEF k
    <3>5. todo[i].size <= Len(content'[k])
      BY <1>4, <1>5, <3>3, <3>4
    <3> QED BY <3>5 DEF k
  <2>2. \A i \in 1..Len(todo') : todo'[i].key \in plain' => todo'[i].size <= Len(content'[todo'[i].key])
    BY <1>0, <2>1
  <2> QED BY <1>0, <1>1, <2>2 DEF TodoInv
<1>12. PhaseInv'
  <2>1. at = "open" => \A k \in Keys : sent'[k] = <<>>
    BY <1>1, <1>5, <1>6 DEF PhaseInv
  <2> QED BY <1>0, <1>1, <1>2, <2>1 DEF PhaseInv
<1>13. BlockInv'
  <2> SUFFICES ASSUME Collecting, NEW k \in plain'
               PROVE  \E n \in 0..LineCount(content'[k]) : \E b \in Nat :
                        /\ offset'[k] = At(content'[k], n) /\ AllFit(content'[k], 0, n)
                        /\ Block(content'[k], buffer', k, b, n, 0)
    BY <1>2 DEF BlockInv, CollectedUpTo
  <2>1. PICK n \in 0..LineCount(content[k]) : \E b \in Nat : CollectedUpTo(k, n, b)
    BY <1>1, <1>5 DEF BlockInv
  <2>2. PICK b \in Nat : CollectedUpTo(k, n, b)
    BY <2>1
  <2>3. offset[k] = At(content[k], n) /\ AllFit(content[k], 0, n) /\ Block(content[k], buffer, k, b, n, 0)
    BY <2>2 DEF CollectedUpTo
  <2>4. 0 \in 0..n
    BY <1>20 DEF GrownInto
  <2>5. /\ n \in 0..LineCount(content'[k]) /\ At(content'[k], n) = At(content[k], n)
        /\ AllFit(content'[k], 0, n)
    BY <1>20, <2>3, <2>4 DEF GrownInto
  <2>6. Block(content'[k], buffer, k, b, n, 0)
    <3>1. GrownInto(content[k], content'[k])
      BY <1>20
    <3> QED BY <2>3, <3>1, BlockKept DEF GrownInto
  <2> QED BY <1>0, <2>3, <2>5, <2>6
<1>14. NotedIsRead'
  <2> SUFFICES ASSUME NEW k \in plain', k \in tracked, k \notin missed, ~Blocked(content'[k], offset'[k])
               PROVE  seen[k].size <= offset[k]
    BY <1>0, StuckIs DEF NotedIsRead
  <2>1. ~Blocked(content[k], offset[k])
    <3> SUFFICES ASSUME Blocked(content[k], offset[k]) PROVE FALSE
      OBVIOUS
    <3>1. /\ Len(content[k]) \in Nat /\ Len(content'[k]) \in Nat /\ Len(content[k]) <= Len(content'[k])
          /\ \A i \in 1..Len(content[k]) : content'[k][i] = content[k][i]
      BY <1>4, <1>5
    <3>2. offset[k] \in Nat
      BY <1>1, <1>5, PollAssumption DEF PollTypeOK
    <3>3. Blocked(content'[k], offset[k])
      BY <3>1, <3>2, BlockedStays
    <3> QED BY <1>0, <3>3
  <2> QED BY <1>1, <1>5, <2>1, StuckIs DEF NotedIsRead
<1>15. OneInv'
  <2> SUFFICES ASSUME kind = "one" PROVE OneInv'
    BY <1>0 DEF OneInv
  <2>1. /\ \A k \in Keys \ {Target} : offset[k] = 0 /\ sent'[k] = <<>>
        /\ \A i \in 1..Len(buffer) : buffer[i][1] = Target
    BY <1>1, <1>5, <1>6 DEF OneInv
  <2>2. ASSUME Target \in plain', mode = "head"
        PROVE  \E n \in 0..Count : HeadIs(n)'
    <3>1. PICK n \in 0..Count : HeadIs(n)
      BY <1>1, <1>5, <2>2 DEF OneInv
    <3>2. /\ n <= LineCount(content[Target]) /\ AllFit(content[Target], 0, n)
          /\ sent[Target] = LinesOf(content[Target], 0, n) /\ GrownInto(content[Target], content'[Target])
      BY <1>20, <2>2, <3>1 DEF HeadIs
    <3>3. n \in 0..LineCount(content[Target]) /\ 0 \in 0..n
      <4>1. LineCount(content[Target]) \in Nat /\ n \in Nat
        BY <3>2, PollAssumption DEF GrownInto
      <4> QED BY <3>2, <4>1
    <3>4. /\ n <= LineCount(content'[Target]) /\ AllFit(content'[Target], 0, n)
          /\ LinesOf(content'[Target], 0, n) = LinesOf(content[Target], 0, n)
      <4>1. /\ n \in Nat /\ LineCount(content[Target]) \in Nat /\ LineCount(content'[Target]) \in Nat
            /\ LineCount(content[Target]) <= LineCount(content'[Target])
        BY <3>2, PollAssumption DEF GrownInto
      <4>2. n <= LineCount(content'[Target])
        BY <3>2, <4>1
      <4> QED BY <3>2, <3>3, <4>2 DEF GrownInto
    <3> QED BY <1>5, <2>2, <3>2, <3>4 DEF HeadIs
  <2>3. ASSUME Target \in plain', mode = "tail", at = "mark"
        PROVE  \E n \in 0..LineCount(content'[Target]) : \E d \in 0..n : TailIs(n, d)'
    <3>1. PICK n \in 0..LineCount(content[Target]) : \E d \in 0..n : TailIs(n, d)
      BY <1>1, <1>5, <2>3 DEF OneInv
    <3>2. PICK d \in 0..n : TailIs(n, d)
      BY <3>1
    <3>3. /\ AllFit(content[Target], 0, n) /\ offset[Target] = At(content[Target], n)
          /\ sent[Target] = LinesOf(content[Target], d, n) /\ (n - d = Count \/ (d = 0 /\ n < Count))
          /\ GrownInto(content[Target], content'[Target])
      BY <1>20, <2>3, <3>2 DEF TailIs
    <3>4. 0 \in 0..n
      BY <3>3 DEF GrownInto
    <3>5. /\ n \in 0..LineCount(content'[Target]) /\ AllFit(content'[Target], 0, n)
          /\ At(content'[Target], n) = At(content[Target], n)
          /\ LinesOf(content'[Target], d, n) = LinesOf(content[Target], d, n)
      BY <3>3, <3>4 DEF GrownInto
    <3>6. /\ AllFit(content'[Target], 0, n) /\ offset'[Target] = At(content'[Target], n)
          /\ sent'[Target] = LinesOf(content'[Target], d, n) /\ (n - d = Count \/ (d = 0 /\ n < Count))
      BY <1>0, <1>5, <2>3, <3>3, <3>5
    <3>7. TailIs(n, d)'
      BY <3>6 DEF TailIs
    <3> QED BY <3>5, <3>7
  <2>4. ASSUME Target \in plain', mode = "live", failures = 0
        PROVE  /\ at \in {"open", "ended"} \/ before[Target] <= offset[Target]
               /\ \A i \in 1..Len(sent'[Target]) : sent'[Target][i][1] > before[Target]
    BY <1>1, <1>5, <2>4 DEF OneInv
  <2> QED BY <1>0, <2>1, <2>2, <2>3, <2>4 DEF OneInv
<1> QED BY <1>7, <1>8, <1>9, <1>10, <1>11, <1>12, <1>13, <1>14, <1>15 DEF PollInv

LEMMA GrowInv ==
  ASSUME PollInv, NEW k \in Keys, NEW piece \in Pieces, Grow(k, piece)
  PROVE  PollInv'
<1>1. /\ Change(k, content[k] \o piece) /\ Size(k) + Len(piece) <= MaxBytes
      /\ plain' = IF piece \in {Whole, Long} THEN plain ELSE plain \ {k}
  BY DEF Grow
<1>2. /\ changes < MaxChanges /\ at # "ended" /\ changes' = changes + 1
      /\ content' = [content EXCEPT ![k] = content[k] \o piece]
      /\ stamp' \in {stamp, [stamp EXCEPT ![k] = changes + 1]}
      /\ sent' = [o \in Keys |-> IF o \in plain' THEN sent[o] ELSE <<>>]
      /\ UNCHANGED <<setup, at, todo, tracked, seen, offset, buffer, failures, missed>>
  BY <1>1 DEF Change
<1>3. /\ content \in [Keys -> Seq({"c", "r", "n"})] /\ \A j \in Keys : Len(content[j]) <= MaxBytes
      /\ plain \subseteq Keys
  BY DEF PollInv, PollTypeOK, Size
<1>4. piece \in Seq({"c", "r", "n"})
  <2>1. <<"c", "n">> \in Seq({"c", "r", "n"}) /\ <<"c">> \in Seq({"c", "r", "n"})
        /\ <<"r", "n">> \in Seq({"c", "r", "n"})
    OBVIOUS
  <2>2. Long \in Seq({"c", "r", "n"})
    <3>1. MaxLine + 2 \in Nat
      BY PollAssumption
    <3> QED BY <3>1 DEF Long
  <2> QED BY <2>1, <2>2 DEF Pieces, Whole
<1>5. content[k] \o piece \in Seq({"c", "r", "n"}) /\ Len(content[k] \o piece) = Len(content[k]) + Len(piece)
  <2> DEFINE C == {"c", "r", "n"}
  <2>1. content[k] \in Seq(C) /\ piece \in Seq(C)
    BY <1>3, <1>4
  <2> HIDE DEF C
  <2>2. content[k] \o piece \in Seq(C) /\ Len(content[k] \o piece) = Len(content[k]) + Len(piece)
    BY <2>1
  <2> QED BY <2>2 DEF C
<1>6. content'[k] = content[k] \o piece /\ \A j \in Keys : j # k => content'[j] = content[j]
  BY <1>2, <1>3
<1>7. content' \in [Keys -> Seq({"c", "r", "n"})]
  BY <1>2, <1>3, <1>5
<1>8. \A j \in Keys : Len(content'[j]) <= MaxBytes
  BY <1>1, <1>3, <1>5, <1>6 DEF Size
<1>9. ASSUME NEW j \in plain'
      PROVE  /\ Size(j) <= Len(content'[j]) /\ Regular(content'[j])
             /\ \A i \in 1..Size(j) : content'[j][i] = content[j][i]
  <2>1. j \in plain /\ j \in Keys /\ (j = k => piece \in {Whole, Long})
    BY <1>1, <1>3
  <2>2. Regular(content[j]) /\ content[j] \in Seq({"c", "r", "n"})
    BY <1>3, <2>1 DEF PollInv, StoreInv
  <2>3. Size(j) \in Nat
    BY <1>3, <2>1 DEF Size
  <2>4. CASE j # k
    <3>1. content'[j] = content[j]
      BY <1>6, <2>1, <2>4
    <3> QED BY <2>2, <2>3, <3>1 DEF Size
  <2>5. CASE j = k
    <3>1. /\ Regular(content[k] \o piece) /\ Len(content[k]) <= Len(content[k] \o piece)
          /\ \A i \in 1..Len(content[k]) : (content[k] \o piece)[i] = content[k][i]
      BY <2>1, <2>2, <2>5, RegularGrows
    <3>2. content'[k] = content[k] \o piece
      BY <1>6
    <3> QED BY <2>5, <3>1, <3>2 DEF Size
  <2> QED BY <2>4, <2>5
<1>10. plain' \subseteq plain
  BY <1>1
<1> QED BY <1>2, <1>7, <1>8, <1>9, <1>10, ChangeKeeps

LEMMA ReplaceInv ==
  ASSUME PollInv, NEW k \in Keys, Replace(k)
  PROVE  PollInv'
<1>1. PICK bytes \in {<<>>, Whole} : Change(k, bytes)
  BY DEF Replace
<1>2. /\ changes < MaxChanges /\ at # "ended" /\ changes' = changes + 1
      /\ content' = [content EXCEPT ![k] = bytes]
      /\ stamp' \in {stamp, [stamp EXCEPT ![k] = changes + 1]}
      /\ sent' = [o \in Keys |-> IF o \in plain' THEN sent[o] ELSE <<>>]
      /\ UNCHANGED <<setup, at, todo, tracked, seen, offset, buffer, failures, missed>>
      /\ plain' = plain \ {k}
  BY <1>1 DEF Change, Replace
<1>3. /\ content \in [Keys -> Seq({"c", "r", "n"})] /\ \A j \in Keys : Len(content[j]) <= MaxBytes
      /\ plain \subseteq Keys
  BY DEF PollInv, PollTypeOK, Size
<1>4. bytes \in Seq({"c", "r", "n"}) /\ Len(bytes) <= MaxBytes
  <2>1. <<>> \in Seq({"c", "r", "n"}) /\ Whole \in Seq({"c", "r", "n"}) /\ Len(<<>>) = 0 /\ Len(Whole) = 2
    BY DEF Whole
  <2>2. MaxBytes \in Nat /\ 2 <= MaxBytes /\ 0 <= MaxBytes
    BY PollAssumption
  <2> QED BY <2>1, <2>2
<1>5. content'[k] = bytes /\ \A j \in Keys : j # k => content'[j] = content[j]
  BY <1>2, <1>3
<1>6. content' \in [Keys -> Seq({"c", "r", "n"})]
  BY <1>2, <1>3, <1>4
<1>7. \A j \in Keys : Len(content'[j]) <= MaxBytes
  BY <1>3, <1>4, <1>5
<1>8. ASSUME NEW j \in plain'
      PROVE  /\ Size(j) <= Len(content'[j]) /\ Regular(content'[j])
             /\ \A i \in 1..Size(j) : content'[j][i] = content[j][i]
  <2>1. j \in plain /\ j \in Keys /\ j # k
    BY <1>2, <1>3
  <2>2. content'[j] = content[j] /\ Size(j) \in Nat
    BY <1>3, <1>5, <2>1 DEF Size
  <2>3. Regular(content[j])
    BY <2>1 DEF PollInv, StoreInv
  <2> QED BY <2>2, <2>3 DEF Size
<1>9. plain' \subseteq plain
  BY <1>2
<1> QED BY <1>2, <1>6, <1>7, <1>8, <1>9, ChangeKeeps

LEMMA ListedTyped ==
  ASSUME PollTypeOK
  PROVE  /\ Listed \in Seq(Listing)
         /\ \A i \in 1..Len(Listed) : Listed[i].key \in Watched /\ Listed[i].size = Size(Listed[i].key)
         /\ \A i, j \in 1..Len(Listed) : Listed[i].key = Listed[j].key => i = j
<1>1. /\ \E S : Listed \in Seq(S)
      /\ \A i \in 1..Len(Listed) : \E k \in Existing \cap Watched :
              Listed[i] = [key |-> k, size |-> Size(k), stamp |-> stamp[k]]
      /\ \A i, j \in 1..Len(Listed) : Listed[i].key = Listed[j].key => i = j
  BY ListedFacts, PollAssumption
<1> DEFINE q == Listed
<1> HIDE DEF q
<1>2. ASSUME NEW i \in 1..Len(q) PROVE q[i] \in Listing /\ q[i].key \in Watched /\ q[i].size = Size(q[i].key)
  <2>1. PICK k \in Existing \cap Watched : q[i] = [key |-> k, size |-> Size(k), stamp |-> stamp[k]]
    BY <1>1 DEF q
  <2>2. k \in Keys /\ k \in Watched
    BY <2>1 DEF Existing
  <2>3. Size(k) \in 0..MaxBytes /\ stamp[k] \in 0..MaxChanges
    BY <2>2, PollAssumption DEF PollTypeOK, Size
  <2>4. q[i].key = k /\ q[i].size = Size(k)
    BY <2>1
  <2> QED BY <2>1, <2>2, <2>3, <2>4 DEF Listing
<1>3. q \in Seq(Listing)
  <2>1. \E S : q \in Seq(S)
    BY <1>1 DEF q
  <2> QED BY <1>2, <2>1
<1> QED BY <1>1, <1>2, <1>3 DEF q

(* Before a stream opens, nothing is read, collected or sent. *)
LEMMA OpenFacts ==
  ASSUME PollInv, at = "open"
  PROVE  /\ todo = <<>> /\ tracked = {} /\ buffer = <<>>
         /\ \A k \in Keys : offset[k] = 0 /\ sent[k] = <<>>
  BY DEF PollInv, PhaseInv, Collecting

LEMMA OpenFirst ==
  ASSUME PollInv, at = "open", at' = "first", ~Skips,
         UNCHANGED <<store, setup, reader, changes, plain, missed>>,
         failures' \in 0..MaxFailures,
         todo' \in Seq(Listing),
         \A i \in 1..Len(todo') : todo'[i].key \in plain => todo'[i].size <= Size(todo'[i].key),
         \A i, j \in 1..Len(todo') : todo'[i].key = todo'[j].key => i = j
  PROVE  PollInv'
<1> USE DEF Size
<1>0. /\ content' = content /\ stamp' = stamp /\ kind' = kind /\ mode' = mode /\ before' = before
      /\ tracked' = tracked /\ seen' = seen /\ offset' = offset /\ buffer' = buffer /\ sent' = sent
      /\ changes' = changes /\ plain' = plain /\ missed' = missed
  BY DEF store, setup, reader
<1>1. /\ PollTypeOK /\ StoreInv /\ OffsetInv /\ PhaseInv /\ SentInv /\ NotedIsRead /\ OneInv
  BY DEF PollInv
<1>2. Watched' = Watched /\ Skips' = Skips
  BY <1>0 DEF Watched, Skips
<1>3. /\ tracked = {} /\ buffer = <<>> /\ plain \subseteq Keys
      /\ \A k \in Keys : offset[k] = 0 /\ sent[k] = <<>> /\ Len(content[k]) \in Nat
  BY <1>1, OpenFacts DEF PollTypeOK
<1>4. PollTypeOK'
  <2>1. Listing' = Listing
    BY <1>2 DEF Listing
  <2> QED BY <1>0, <1>1, <1>2, <2>1 DEF PollTypeOK
<1>5. StoreInv' /\ OffsetInv' /\ NotedIsRead'
  BY <1>0, <1>1, StuckIs DEF StoreInv, OffsetInv, NotedIsRead
<1>6. TodoInv'
  <2>1. \A i \in 1..Len(todo') : todo'[i].key \in Keys
    <3>1. \A l \in Listing : l.key \in Keys
      BY PollAssumption DEF Listing, Watched
    <3> QED BY <3>1
  <2>2. \A j \in 1..Len(buffer) : FALSE
    BY <1>3
  <2> QED BY <1>0, <1>3, <2>1, <2>2 DEF TodoInv
<1>7. PhaseInv'
  <2>1. ~Collecting' => buffer' = <<>>
    BY <1>0, <1>3
  <2> QED BY <1>0, <1>1, <1>2, <1>3, <2>1 DEF PhaseInv
<1>8. SentInv'
  <2>1. ASSUME NEW k \in plain
        PROVE  0 \in 0..LineCount(content[k]) /\ 0 \in 0..0 /\ SentUpTo(k, 0, 0)'
    <3>1. k \in Keys /\ Len(content[k]) \in Nat
      BY <1>3
    <3> QED BY <1>0, <1>3, <3>1, AtStart DEF SentUpTo
  <2>2. \A k \in Keys \ plain : sent[k] = <<>>
    BY <1>3
  <2> QED BY <1>0, <2>1, <2>2 DEF SentInv
<1>9. BlockInv'
  <2>1. ASSUME NEW k \in plain
        PROVE  0 \in 0..LineCount(content[k]) /\ 0 \in Nat /\ CollectedUpTo(k, 0, 0)'
    <3>1. k \in Keys /\ Len(content[k]) \in Nat
      BY <1>3
    <3>2. Len(buffer) \in Nat /\ \A i \in 1..Len(buffer) : FALSE
      BY <1>3
    <3>3. Block(content[k], buffer, k, 0, 0, 0)
      BY <3>2, NoBlock
    <3>4. /\ offset[k] = At(content[k], 0) /\ AllFit(content[k], 0, 0)
          /\ 0 \in 0..LineCount(content[k])
      BY <1>3, <3>1, AtStart
    <3> QED BY <1>0, <3>3, <3>4 DEF CollectedUpTo
  <2> QED BY <1>0, <2>1 DEF BlockInv
<1>10. OneInv'
  <2> SUFFICES ASSUME kind = "one" PROVE OneInv'
    BY <1>0 DEF OneInv
  <2>1. mode # "live"
    BY DEF Skips
  <2>2. /\ \A k \in Keys \ {Target} : offset[k] = 0 /\ sent[k] = <<>>
        /\ \A i \in 1..Len(buffer) : buffer[i][1] = Target
    BY <1>3
  <2>3. 0 \in 0..Count /\ HeadIs(0)'
    <3>1. Len(content[Target]) \in Nat /\ sent[Target] = <<>> /\ 0 \in 0..Count
      BY <1>3, PollAssumption
    <3>2. 0 <= LineCount(content[Target])
      BY <3>1, AtStart
    <3> QED BY <1>0, <3>1, <3>2, AtStart DEF HeadIs
  <2> QED BY <1>0, <2>1, <2>2, <2>3 DEF OneInv
<1> QED BY <1>4, <1>5, <1>6, <1>7, <1>8, <1>9, <1>10 DEF PollInv

LEMMA OpenAllInv ==
  ASSUME PollInv, NEW ok \in BOOLEAN, OpenAll(ok)
  PROVE  PollInv'
<1>1. /\ at = "open" /\ kind = "all" /\ at' = "first" /\ ~Skips
      /\ UNCHANGED <<store, setup, reader, changes, plain, missed>>
  BY DEF OpenAll, Goto, Skips
<1>2. PollTypeOK /\ failures \in 0..MaxFailures
  BY DEF PollInv, PollTypeOK
<1>3. failures' \in 0..MaxFailures
  BY <1>2, PollAssumption DEF OpenAll, Fail
<1>4. todo' = Listed \/ todo' = <<>>
  BY <1>1, OpenFacts DEF OpenAll
<1>5. /\ todo' \in Seq(Listing)
      /\ \A i \in 1..Len(todo') : todo'[i].key \in plain => todo'[i].size <= Size(todo'[i].key)
      /\ \A i, j \in 1..Len(todo') : todo'[i].key = todo'[j].key => i = j
  <2>1. CASE todo' = <<>>
    BY <2>1
  <2>2. CASE todo' = Listed
    <3> DEFINE q == todo'
    <3>1. /\ q \in Seq(Listing)
          /\ \A i \in 1..Len(q) : q[i].key \in Watched /\ q[i].size = Size(q[i].key)
          /\ \A i, j \in 1..Len(q) : q[i].key = q[j].key => i = j
      BY <1>2, <2>2, ListedTyped
    <3>2. \A l \in Listing : l.size \in Int
      BY DEF Listing
    <3> HIDE DEF q
    <3>3. \A i \in 1..Len(q) : q[i].size \in Int
      BY <3>1, <3>2
    <3>4. \A i \in 1..Len(q) : q[i].size <= Size(q[i].key)
      BY <3>1, <3>3
    <3> QED BY <3>1, <3>4 DEF q
  <2> QED BY <1>4, <2>1, <2>2
<1> QED BY <1>1, <1>3, <1>5, OpenFirst

LEMMA OpenOneInv ==
  ASSUME PollInv, OpenOne
  PROVE  PollInv'
<1>1. /\ at = "open" /\ kind = "one" /\ at' = "first" /\ ~Skips
      /\ UNCHANGED <<store, setup, reader, changes, failures, plain, missed>>
      /\ todo' = <<[key |-> Target, size |-> 0, stamp |-> 0]>>
  BY DEF OpenOne, Goto
<1>2. PollTypeOK /\ failures' \in 0..MaxFailures
  BY <1>1 DEF PollInv, PollTypeOK
<1>3. [key |-> Target, size |-> 0, stamp |-> 0] \in Listing
  BY <1>1, PollAssumption DEF Listing, Watched
<1>4. Len(todo') = 1 /\ todo'[1].size = 0 /\ todo'[1].key = Target /\ todo' \in Seq(Listing)
  BY <1>1, <1>3
<1>5. Size(Target) \in Nat
  BY <1>2, PollAssumption DEF PollTypeOK, Size
<1>6. \A i \in 1..Len(todo') : i = 1
  BY <1>4
<1>7. /\ \A i \in 1..Len(todo') : todo'[i].key \in plain => todo'[i].size <= Size(todo'[i].key)
      /\ \A i, j \in 1..Len(todo') : todo'[i].key = todo'[j].key => i = j
  BY <1>4, <1>5, <1>6
<1> QED BY <1>1, <1>2, <1>4, <1>7, OpenFirst

LEMMA OpenAtEndInv ==
  ASSUME PollInv, NEW ok \in BOOLEAN, OpenAtEnd(ok)
  PROVE  PollInv'
<1> USE DEF Size
<1>0. /\ content' = content /\ stamp' = stamp /\ kind' = kind /\ mode' = mode /\ before' = before
      /\ tracked' = tracked /\ seen' = seen /\ buffer' = buffer /\ sent' = sent
      /\ changes' = changes /\ plain' = plain /\ missed' = missed /\ todo' = todo
      /\ at = "open" /\ at' = "mark" /\ kind = "one" /\ mode = "live"
  BY DEF store, setup, OpenAtEnd, Goto, Skips
<1>1. /\ PollTypeOK /\ StoreInv /\ OffsetInv /\ PhaseInv /\ SentInv /\ NotedIsRead /\ OneInv
  BY DEF PollInv
<1>2. Watched' = Watched /\ ~Collecting' /\ ~Collecting
  BY <1>0 DEF Watched, Collecting
<1>3. /\ todo = <<>> /\ tracked = {} /\ buffer = <<>> /\ plain \subseteq Keys /\ Target \in Keys
      /\ \A k \in Keys : offset[k] = 0 /\ sent[k] = <<>> /\ Len(content[k]) \in 0..MaxBytes
      /\ offset \in [Keys -> 0..(MaxBytes + 1)] /\ failures \in 0..MaxFailures
  BY <1>0, <1>1, OpenFacts, PollAssumption DEF PollTypeOK
<1>4. /\ \A k \in Keys \ {Target} : offset'[k] = 0
      /\ IF ok THEN offset'[Target] = Len(content[Target]) /\ failures' = failures
               ELSE offset'[Target] = 0 /\ failures' = failures + 1 /\ failures < MaxFailures
      /\ offset' \in [Keys -> 0..(MaxBytes + 1)] /\ failures' \in 0..MaxFailures
  <2>1. CASE ok
    <3>1. offset' = [offset EXCEPT ![Target] = Len(content[Target])] /\ failures' = failures
      BY <2>1 DEF OpenAtEnd
    <3>2. Len(content[Target]) \in 0..(MaxBytes + 1)
      BY <1>3, PollAssumption
    <3> QED BY <1>3, <2>1, <3>1, <3>2
  <2>2. CASE ~ok
    <3>1. offset' = offset /\ failures < MaxFailures /\ failures' = failures + 1
      BY <2>2 DEF OpenAtEnd, Fail
    <3> QED BY <1>3, <2>2, <3>1, PollAssumption
  <2> QED BY <2>1, <2>2
<1>5. PollTypeOK'
  <2>1. Listing' = Listing
    BY <1>2 DEF Listing
  <2> QED BY <1>0, <1>1, <1>2, <1>4, <2>1 DEF PollTypeOK
<1>6. StoreInv' /\ NotedIsRead'
  BY <1>0, <1>1, <1>3 DEF StoreInv, NotedIsRead
<1>7. ASSUME NEW k \in plain
      PROVE  \E n \in 0..LineCount(content[k]) : n \in 0..n /\ offset'[k] = At(content[k], n) /\ SentUpTo(k, n, n)'
  <2>1. Regular(content[k]) /\ k \in Keys /\ Len(content[k]) \in Nat
    BY <1>1, <1>3, PollAssumption DEF StoreInv
  <2> DEFINE m == LineCount(content[k])
  <2>2. /\ 0 \in 0..m /\ 0 \in 0..0 /\ At(content[k], 0) = 0
        /\ LinesOf(content[k], 0, 0) = <<>> /\ AllFit(content[k], 0, 0)
    BY <2>1, AtStart
  <2>3. /\ m \in 0..m /\ At(content[k], m) = Len(content[k])
        /\ LinesOf(content[k], m, m) = <<>> /\ AllFit(content[k], m, m)
    BY <2>1, AtItsEnd
  <2> HIDE DEF m
  <2>4. sent'[k] = <<>> /\ (offset'[k] = 0 \/ offset'[k] = Len(content[k]))
    BY <1>0, <1>3, <1>4, <2>1
  <2>5. CASE offset'[k] = 0
    BY <1>0, <1>2, <2>2, <2>4, <2>5 DEF SentUpTo, m
  <2>6. CASE offset'[k] = Len(content[k])
    BY <1>0, <1>2, <2>3, <2>4, <2>6 DEF SentUpTo, m
  <2> QED BY <2>4, <2>5, <2>6
<1>8. OffsetInv'
  BY <1>0, <1>7 DEF OffsetInv
<1>9. SentInv'
  BY <1>0, <1>2, <1>3, <1>7 DEF SentInv
<1>10. TodoInv'
  BY <1>0, <1>3 DEF TodoInv
<1>11. PhaseInv'
  BY <1>0, <1>2, <1>3 DEF PhaseInv
<1>12. BlockInv'
  BY <1>2 DEF BlockInv
<1>13. OneInv'
  <2>1. \A i \in 1..Len(buffer) : FALSE
    BY <1>3
  <2>2. \A i \in 1..Len(sent[Target]) : FALSE
    BY <1>3
  <2>3. ASSUME Target \in plain, failures' = 0 PROVE before[Target] <= offset'[Target]
    <3>1. ok
      BY <1>3, <1>4, <2>3
    <3> QED BY <1>1, <1>4, <2>3, <3>1 DEF StoreInv
  <2> QED BY <1>0, <1>3, <1>4, <2>1, <2>2, <2>3 DEF OneInv
<1> QED BY <1>5, <1>6, <1>8, <1>9, <1>10, <1>11, <1>12, <1>13 DEF PollInv

(* Steps that neither read nor note anything. *)
LEMMA Quiet ==
  ASSUME PollInv, UNCHANGED <<store, setup, reader, changes, plain, missed>>,
         failures' \in 0..MaxFailures, failures' >= failures,
         at \in {"follow", "visit"}, at' \in {"follow", "visit"},
         todo' \in Seq(Listing), at' = "follow" => todo' = <<>>,
         \A i \in 1..Len(todo') : todo'[i].key \in plain => todo'[i].size <= Size(todo'[i].key)
  PROVE  PollInv'
<1> USE DEF Size
<1>0. /\ content' = content /\ stamp' = stamp /\ kind' = kind /\ mode' = mode /\ before' = before
      /\ tracked' = tracked /\ seen' = seen /\ offset' = offset /\ buffer' = buffer /\ sent' = sent
      /\ changes' = changes /\ plain' = plain /\ missed' = missed
  BY DEF store, setup, reader
<1>1. /\ PollTypeOK /\ StoreInv /\ OffsetInv /\ PhaseInv /\ SentInv /\ NotedIsRead /\ OneInv
  BY DEF PollInv
<1>2. Watched' = Watched /\ ~Collecting /\ ~Collecting'
  BY <1>0 DEF Watched, Collecting
<1>3. PollTypeOK'
  <2>1. Listing' = Listing
    BY <1>2 DEF Listing
  <2> QED BY <1>0, <1>1, <1>2, <2>1 DEF PollTypeOK
<1>4. StoreInv' /\ OffsetInv' /\ NotedIsRead'
  BY <1>0, <1>1, StuckIs DEF StoreInv, OffsetInv, NotedIsRead
<1>5. TodoInv'
  BY <1>0 DEF TodoInv
<1>6. PhaseInv'
  BY <1>0, <1>1, <1>2 DEF PhaseInv
<1>7. SentInv'
  <2>1. \A k, n, d : SentUpTo(k, n, d) => SentUpTo(k, n, d)'
    BY <1>0, <1>2 DEF SentUpTo
  <2> QED BY <1>0, <1>1, <2>1 DEF SentInv
<1>8. BlockInv'
  BY <1>2 DEF BlockInv
<1>9. failures' = 0 => failures = 0
  BY <1>1 DEF PollTypeOK
<1>10. OneInv'
  <2>1. \A n : HeadIs(n) => HeadIs(n)'
    BY <1>0 DEF HeadIs
  <2> QED BY <1>0, <1>1, <1>9, <2>1 DEF OneInv
<1> QED BY <1>3, <1>4, <1>5, <1>6, <1>7, <1>8, <1>10 DEF PollInv

LEMMA TailOfTodo ==
  ASSUME PollInv, todo # <<>>
  PROVE  /\ Len(todo) \in Nat /\ Len(todo) > 0 /\ Head(todo) = todo[1] /\ Head(todo) \in Listing
         /\ Tail(todo) \in Seq(Listing) /\ Len(Tail(todo)) = Len(todo) - 1
         /\ \A i \in 1..(Len(todo) - 1) : Tail(todo)[i] = todo[i + 1] /\ i + 1 \in 1..Len(todo)
         /\ \A i \in 1..Len(Tail(todo)) :
              Tail(todo)[i].key \in plain => Tail(todo)[i].size <= Size(Tail(todo)[i].key)
<1>1. todo \in Seq(Listing) /\ TodoInv
  BY DEF PollInv, PollTypeOK
<1>2. /\ Len(todo) \in Nat /\ Len(todo) > 0 /\ Head(todo) = todo[1] /\ Head(todo) \in Listing
      /\ Tail(todo) \in Seq(Listing) /\ Len(Tail(todo)) = Len(todo) - 1
      /\ \A i \in 1..(Len(todo) - 1) : Tail(todo)[i] = todo[i + 1]
  BY <1>1
<1>3. \A i \in 1..(Len(todo) - 1) : i + 1 \in 1..Len(todo)
  BY <1>2
<1> QED BY <1>1, <1>2, <1>3 DEF TodoInv

LEMMA QuietInv ==
  ASSUME PollInv, Poll \/ PollFails \/ Pass \/ Rest
  PROVE  PollInv'
<1>1. PollTypeOK /\ failures \in 0..MaxFailures /\ todo \in Seq(Listing) /\ PhaseInv /\ TodoInv
      /\ MaxFailures \in Nat
  BY PollAssumption DEF PollInv, PollTypeOK
<1>2. CASE Poll
  <2>0. /\ at = "follow" /\ at' = "visit" /\ todo' = Listed
        /\ UNCHANGED <<store, setup, reader, changes, failures, plain, missed>>
    BY <1>2 DEF Poll, Goto
  <2> DEFINE q == Listed
  <2>1. q \in Seq(Listing) /\ \A i \in 1..Len(q) : q[i].size = Size(q[i].key)
    BY <1>1, ListedTyped
  <2>2. \A l \in Listing : l.size \in Int
    BY DEF Listing
  <2>3. todo' = q
    BY <2>0
  <2> HIDE DEF q
  <2>4. \A i \in 1..Len(q) : q[i].size \in Int
    BY <2>1, <2>2
  <2>5. \A i \in 1..Len(q) : q[i].size <= Size(q[i].key)
    BY <2>1, <2>4
  <2>6. failures' \in 0..MaxFailures /\ failures' >= failures
    BY <1>1, <2>0
  <2> QED BY <2>0, <2>1, <2>3, <2>5, <2>6, Quiet
<1>3. CASE PollFails
  <2>0. /\ at = "follow" /\ at' = at /\ todo' = todo
        /\ UNCHANGED <<store, setup, reader, changes, plain, missed>>
        /\ failures < MaxFailures /\ failures' = failures + 1
    BY <1>3 DEF PollFails, Fail
  <2>1. todo = <<>>
    BY <1>1, <2>0 DEF PhaseInv
  <2>2. failures' \in 0..MaxFailures /\ failures' >= failures
    BY <1>1, <2>0
  <2>3. \A i \in 1..Len(todo') : FALSE
    BY <2>0, <2>1
  <2> QED BY <1>1, <2>0, <2>1, <2>2, <2>3, Quiet
<1>4. CASE Pass
  <2>0. /\ at = "visit" /\ at' = at /\ todo' = Tail(todo) /\ todo # <<>>
        /\ UNCHANGED <<store, setup, reader, changes, failures, plain, missed>>
    BY <1>4 DEF Pass
  <2>1. failures' \in 0..MaxFailures /\ failures' >= failures
    BY <1>1, <2>0
  <2>2. /\ todo' \in Seq(Listing)
        /\ \A i \in 1..Len(todo') : todo'[i].key \in plain => todo'[i].size <= Size(todo'[i].key)
    BY <2>0, TailOfTodo
  <2>3. at' # "follow"
    BY <2>0
  <2> QED BY <2>0, <2>1, <2>2, <2>3, Quiet
<1>5. CASE Rest
  <2>0. /\ at = "visit" /\ at' = "follow" /\ todo' = todo /\ todo = <<>>
        /\ UNCHANGED <<store, setup, reader, changes, failures, plain, missed>>
    BY <1>5 DEF Rest, Goto
  <2>1. failures' \in 0..MaxFailures /\ failures' >= failures
    BY <1>1, <2>0
  <2>2. \A i \in 1..Len(todo') : FALSE
    BY <2>0
  <2> QED BY <1>1, <2>0, <2>1, <2>2, Quiet
<1> QED BY <1>2, <1>3, <1>4, <1>5

LEMMA EndStreamInv ==
  ASSUME PollInv, EndStream
  PROVE  PollInv'
<1> USE DEF Size
<1>0. /\ content' = content /\ stamp' = stamp /\ kind' = kind /\ mode' = mode /\ before' = before
      /\ sent' = sent /\ changes' = changes /\ plain' = plain /\ failures' = failures
      /\ at # "ended" /\ at' = "ended" /\ todo' = <<>> /\ buffer' = <<>> /\ tracked' = {} /\ missed' = {}
      /\ seen' = [k \in Keys |-> NotSeen] /\ offset' = [k \in Keys |-> 0]
  BY DEF store, setup, EndStream, Goto
<1>1. /\ PollTypeOK /\ StoreInv /\ PhaseInv /\ SentInv /\ OneInv
  BY DEF PollInv
<1>2. Watched' = Watched /\ ~Collecting'
  BY <1>0 DEF Watched, Collecting
<1>3. MaxBytes \in Nat /\ MaxChanges \in Nat /\ plain \subseteq Keys
      /\ \A k \in Keys : Len(content[k]) \in Nat
  <2>1. content \in [Keys -> Seq({"c", "r", "n"})] /\ plain \subseteq Keys
    BY <1>1 DEF PollTypeOK
  <2>2. \A k \in Keys : content[k] \in Seq({"c", "r", "n"})
    BY <2>1
  <2> QED BY <2>1, <2>2, PollAssumption
<1>4. PollTypeOK'
  <2>1. seen' \in [Keys -> [size : 0..MaxBytes, stamp : 0..MaxChanges]]
    <3>1. NotSeen \in [size : 0..MaxBytes, stamp : 0..MaxChanges]
      BY <1>3 DEF NotSeen
    <3> QED BY <1>0, <3>1
  <2>2. offset' \in [Keys -> 0..(MaxBytes + 1)]
    BY <1>0, <1>3
  <2> QED BY <1>0, <1>1, <1>2, <2>1, <2>2 DEF PollTypeOK
<1>5. StoreInv' /\ NotedIsRead'
  BY <1>0, <1>1 DEF StoreInv, NotedIsRead
<1>6. OffsetInv'
  <2>1. \A k \in plain : 0 \in 0..LineCount(content[k]) /\ offset'[k] = At(content[k], 0)
    BY <1>0, <1>3, AtStart
  <2> QED BY <1>0, <2>1 DEF OffsetInv
<1>7. TodoInv' /\ PhaseInv'
  BY <1>0, <1>1, <1>2 DEF TodoInv, PhaseInv
<1>8. SentInv'
  <2>1. ASSUME NEW k \in plain
        PROVE  \E n \in 0..LineCount(content[k]) : \E d \in 0..n : SentUpTo(k, n, d)'
    <3>1. PICK n \in 0..LineCount(content[k]) : \E d \in 0..n : SentUpTo(k, n, d)
      BY <1>1 DEF SentInv
    <3>2. PICK d \in 0..n : SentUpTo(k, n, d)
      BY <3>1
    <3>3. SentUpTo(k, n, d)'
      BY <1>0, <1>2, <3>2 DEF SentUpTo
    <3> QED BY <3>3
  <2> QED BY <1>0, <1>1, <2>1 DEF SentInv
<1>9. BlockInv'
  BY <1>2 DEF BlockInv
<1>10. OneInv'
  <2>1. \A k \in Keys : offset'[k] = 0
    BY <1>0
  <2>2. \A i \in 1..Len(buffer') : FALSE
    BY <1>0
  <2>3. at' # "mark" /\ \A n : HeadIs(n) => HeadIs(n)'
    BY <1>0 DEF HeadIs
  <2> QED BY <1>0, <1>1, <2>1, <2>2, <2>3 DEF OneInv
<1> QED BY <1>4, <1>5, <1>6, <1>7, <1>8, <1>9, <1>10 DEF PollInv

(* A read of an object: what it yields, and where the offset goes. *)
TakesLines(k, n, x, p, lines) ==
  /\ AllFit(content[k], n, x) /\ lines = LinesOf(content[k], n, x)
  /\ offset'[k] = At(content[k], x)
  /\ p = Size(k) => offset'[k] = Size(k) \/ Blocked(content[k], offset'[k])

AfterRead(k, p, lines) ==
  /\ lines \in Seq(Span) /\ offset' \in [Keys -> 0..(MaxBytes + 1)]
  /\ \A j \in Keys : j # k => offset'[j] = offset[j]
  /\ plain' \subseteq plain /\ \A j \in plain : j # k => j \in plain'
  /\ missed' \subseteq Keys /\ \A j : j # k => (j \in missed' <=> j \in missed)
  /\ k \notin missed' => p = Size(k)
  /\ failures' \in 0..MaxFailures /\ (failures' = 0 => failures = 0)
  /\ k \in plain' => \A n \in 0..LineCount(content[k]) : offset[k] = At(content[k], n) =>
       \E x \in n..LineCount(content[k]) : TakesLines(k, n, x, p, lines)

LEMMA ReadFacts ==
  ASSUME PollInv, NEW k \in Keys, Readable(k), NEW p,
         NEW lines, lines = Lines(SubSeq(content[k], 1, p), offset[k]), Reads(k, p, lines)
  PROVE  AfterRead(k, p, lines)
<1> DEFINE s == content[k]
           o == offset[k]
           t == SubSeq(s, 1, p)
<1>1. /\ s \in Seq({"c", "r", "n"}) /\ Len(s) \in Nat /\ Len(s) <= MaxBytes
      /\ o \in 0..(MaxBytes + 1) /\ o \in Nat /\ o < Len(s) /\ MaxBytes \in Nat
      /\ offset \in [Keys -> 0..(MaxBytes + 1)]
  <2>1. content \in [Keys -> Seq({"c", "r", "n"})] /\ Len(content[k]) <= MaxBytes
        /\ offset \in [Keys -> 0..(MaxBytes + 1)] /\ offset[k] < Len(content[k])
    BY DEF PollInv, PollTypeOK, Size, Readable
  <2>2. content[k] \in Seq({"c", "r", "n"}) /\ offset[k] \in 0..(MaxBytes + 1)
    BY <2>1
  <2>3. Len(content[k]) \in Nat
    BY <2>2
  <2> QED BY <2>1, <2>2, <2>3, PollAssumption
<1>2. /\ offset' = [offset EXCEPT ![k] = IF k \in Zipped THEN @ ELSE BytesRead(@, lines)]
      /\ p \in o..Len(s)
      /\ IF p = Len(s) THEN missed' = missed \ {k} /\ failures' = failures
                       ELSE missed' = missed \cup {k} /\ Fail
      /\ plain' = IF CutsLine(k, p) THEN plain \ {k} ELSE plain
  BY DEF Reads, Advance, Size
<1>3. lines = Lines(t, o) /\ p \in Nat /\ p <= Len(s) /\ Len(t) = p /\ \A i \in 1..p : t[i] = s[i]
  <2>1. p \in Nat /\ p <= Len(s)
    BY <1>1, <1>2
  <2> HIDE DEF s
  <2>2. Len(t) = p /\ \A i \in 1..p : t[i] = s[i]
    BY <1>1, <2>1
  <2> QED BY <2>1, <2>2 DEF s
<1> HIDE DEF t
<1>4. lines \in Seq(Span)
  <2> HIDE DEF s, o
  <2>0. Len(t) \in Nat /\ Len(t) <= MaxBytes
    BY <1>1, <1>3
  <2>1. PICK n \in Nat : Spans(t, o, Ends(t, o), n, lines)
    BY <1>1, <1>3, <2>0, LinesAreSpans
  <2> DEFINE q == Ends(t, o)
  <2>2. /\ lines = [j \in 1..n |-> lines[j]] /\ Len(lines) = n
        /\ \A j \in 1..n : /\ lines[j] = <<lines[j][1], lines[j][2]>>
                           /\ lines[j][1] \in (o + 1)..Len(t) /\ lines[j][2] \in 0..Len(t)
    <3>1. Len(t) \in Nat /\ o \in Nat /\ Spans(t, o, q, n, lines)
      BY <1>1, <2>0, <2>1
    <3> HIDE DEF q
    <3> QED BY ONLY <3>1, SpansFit
  <2>3. ASSUME NEW j \in 1..n PROVE lines[j] \in Span
    <3> DEFINE x == lines[j][1]
               y == lines[j][2]
    <3>1. lines[j] = <<x, y>> /\ x \in (o + 1)..Len(t) /\ y \in 0..Len(t)
      BY <2>2
    <3> HIDE DEF x, y
    <3>2. x \in 1..MaxBytes /\ y \in 0..MaxBytes
      BY <1>1, <2>0, <3>1
    <3>3. <<x, y>> \in Span
      BY ONLY <3>2 DEF Span
    <3> QED BY ONLY <3>1, <3>3
  <2> DEFINE g(j) == lines[j]
             S == Span
  <2>4. lines = [j \in 1..n |-> g(j)] /\ \A j \in 1..n : g(j) \in S
    BY <2>2, <2>3
  <2> HIDE DEF g, S, q
  <2>5. lines \in Seq(S)
    BY ONLY <2>4, n \in Nat
  <2> QED BY <2>5 DEF S
<1>5. BytesRead(o, lines) \in 0..(MaxBytes + 1)
  <2>1. BytesRead(o, Lines(SubSeq(s, 1, p), o)) \in o..(p + 1)
    <3> HIDE DEF s, o
    <3> QED BY <1>1, <1>2, ReadStaysInside
  <2>2. BytesRead(o, lines) \in o..(p + 1)
    BY <1>3, <2>1 DEF t
  <2> HIDE DEF s, o
  <2> QED BY <1>1, <1>3, <2>2
<1>6. /\ offset' \in [Keys -> 0..(MaxBytes + 1)]
      /\ \A j \in Keys : j # k => offset'[j] = offset[j]
      /\ offset'[k] = IF k \in Zipped THEN o ELSE BytesRead(o, lines)
  BY <1>1, <1>2, <1>5
<1>7. /\ plain' \subseteq plain /\ \A j \in plain : j # k => j \in plain'
      /\ \A j : j # k => (j \in missed' <=> j \in missed)
      /\ k \notin missed' => p = Size(k)
  <2>1. \A j : j # k => (j \in missed' <=> j \in missed)
    BY <1>2
  <2>2. k \notin missed' => p = Size(k)
    BY <1>2 DEF Size
  <2> QED BY <1>2, <2>1, <2>2
<1>8. missed' \subseteq Keys
  BY <1>2 DEF PollInv, PollTypeOK
<1>9. failures' \in 0..MaxFailures /\ (failures' = 0 => failures = 0)
  <2>1. failures \in 0..MaxFailures /\ MaxFailures \in Nat
    BY PollAssumption DEF PollInv, PollTypeOK
  <2>2. failures' = failures \/ (failures < MaxFailures /\ failures' = failures + 1)
    BY <1>2 DEF Fail
  <2> QED BY <2>1, <2>2
<1>10. ASSUME k \in plain', NEW n \in 0..LineCount(s), o = At(s, n)
       PROVE  \E x \in n..LineCount(s) : TakesLines(k, n, x, p, lines)
  <2> DEFINE m == LineCount(s)
  <2>1. k \notin Zipped /\ Regular(s) /\ ~CutsLine(k, p)
    BY <1>2, <1>7, <1>10 DEF PollInv, StoreInv
  <2>2. ~(p < Len(s) /\ p \in LineEnds(t, At(s, n)) /\ s[p] # "n")
    BY <1>10, <2>1 DEF CutsLine, Size, t
  <2>3. m \in Nat /\ Breaks(s, m) /\ n \in 0..m
    BY <1>1, BreaksOf, NewlinesListed
  <2> HIDE DEF m
  <2>4. PICK x \in n..m : Reaches(s, t, m, n, x)
    <3>1. p \in At(s, n)..Len(s)
      BY <1>2, <1>10
    <3> HIDE DEF s, o
    <3> QED BY <1>1, <1>3, <2>1, <2>2, <2>3, <3>1, EndsOfRead
  <2>5. Lines(t, At(s, n)) = LinesOf(s, n, x) /\ BytesRead(At(s, n), LinesOf(s, n, x)) = At(s, x)
    <3>1. Len(t) \in Nat /\ Len(t) <= Len(s) /\ \A i \in 1..Len(t) : t[i] = s[i]
      BY <1>3
    <3> HIDE DEF s, o
    <3> QED BY <1>1, <2>1, <2>3, <2>4, <3>1, LinesOfRead
  <2>6. lines = LinesOf(s, n, x) /\ offset'[k] = At(s, x) /\ AllFit(s, n, x)
    BY <1>3, <1>6, <1>10, <2>1, <2>4, <2>5 DEF Reaches
  <2>7. ASSUME p = Len(s) PROVE At(s, x) = Len(s) \/ Blocked(s, At(s, x))
    <3>1. x = m \/ ~Fits(s, x + 1)
      BY <1>3, <2>4, <2>7 DEF Reaches
    <3>2. CASE x = m
      BY <1>1, <2>1, <2>3, <3>2, BreaksFacts
    <3>3. CASE x # m
      <4>1. x \in 0..m
        BY <2>3
      <4> QED BY <1>1, <2>3, <3>1, <3>3, <4>1, NoFitBlocks
    <3> QED BY <3>2, <3>3
  <2>8. TakesLines(k, n, x, p, lines)
    BY <2>6, <2>7 DEF TakesLines, Size
  <2> QED BY <2>8 DEF m
<1> QED BY <1>4, <1>6, <1>7, <1>8, <1>9, <1>10 DEF AfterRead

(* Lines that are sent as they are read follow on those sent before. *)
SentOnWith(k, n, x) ==
  /\ offset[k] = At(content[k], n) /\ offset'[k] = At(content[k], x)
  /\ sent'[k] = sent[k] \o LinesOf(content[k], n, x)

AfterSending(k) ==
  /\ SentInv' /\ sent' \in [Keys -> Seq(Span)]
  /\ \A j \in Keys : j # k => sent'[j] = sent[j]
  /\ k \in plain' => \E n \in 0..LineCount(content[k]) : \E x \in n..LineCount(content[k]) : SentOnWith(k, n, x)

LEMMA SentAfterRead ==
  ASSUME PollInv, ~Collecting, at # "ended", NEW k \in Keys, Readable(k), NEW p,
         NEW lines, lines = Lines(SubSeq(content[k], 1, p), offset[k]), Reads(k, p, lines),
         SendLines(k, lines), UNCHANGED <<content, mode, at>>
  PROVE  AfterSending(k)
<1> USE DEF Size
<1>1. /\ SentInv /\ sent \in [Keys -> Seq(Span)] /\ plain \subseteq Keys
      /\ \A j \in Keys : Len(content[j]) \in Nat /\ Len(content[j]) <= MaxBytes
  BY DEF PollInv, PollTypeOK
<1>2. sent' = [sent EXCEPT ![k] = IF k \in plain' THEN @ \o lines ELSE <<>>]
  BY DEF SendLines
<1>3. /\ \A j \in Keys : j # k => sent'[j] = sent[j]
      /\ sent'[k] = IF k \in plain' THEN sent[k] \o lines ELSE <<>>
      /\ DOMAIN sent' = Keys /\ sent' = [j \in Keys |-> sent'[j]]
  BY <1>1, <1>2
<1>4. AfterRead(k, p, lines)
  BY ReadFacts
<1>5. ~Collecting' /\ content' = content /\ at' # "ended"
  BY DEF Collecting, Buffers
<1>7. ASSUME k \in plain'
      PROVE  \E n \in 0..LineCount(content[k]) : \E x \in n..LineCount(content[k]) : \E d \in 0..n :
               /\ SentUpTo(k, n, d) /\ TakesLines(k, n, x, p, lines)
  <2>1. k \in plain
    BY <1>4, <1>7 DEF AfterRead
  <2>2. PICK n \in 0..LineCount(content[k]) : \E d \in 0..n : SentUpTo(k, n, d)
    BY <1>1, <2>1 DEF SentInv
  <2>3. PICK d \in 0..n : SentUpTo(k, n, d)
    BY <2>2
  <2>4. offset[k] = At(content[k], n)
    BY <2>3 DEF SentUpTo
  <2>5. PICK x \in n..LineCount(content[k]) : TakesLines(k, n, x, p, lines)
    BY <1>4, <1>7, <2>4 DEF AfterRead
  <2> QED BY <2>3, <2>5
<1>8. ASSUME NEW j \in plain'
      PROVE  \E n \in 0..LineCount(content[j]) : \E d \in 0..n :
               SentUpTo(j, n, d)' /\ sent'[j] = LinesOf(content[j], d, n)
  <2>1. CASE j # k
    <3>1. j \in plain /\ j \in Keys /\ offset'[j] = offset[j] /\ sent'[j] = sent[j]
      BY <1>1, <1>3, <1>4, <2>1 DEF AfterRead
    <3>2. PICK n \in 0..LineCount(content[j]) : \E d \in 0..n : SentUpTo(j, n, d)
      BY <1>1, <3>1 DEF SentInv
    <3>3. PICK d \in 0..n : SentUpTo(j, n, d)
      BY <3>2
    <3>4. SentUpTo(j, n, d)' /\ sent'[j] = LinesOf(content[j], d, n)
      BY <1>5, <3>1, <3>3 DEF SentUpTo
    <3> QED BY <3>4
  <2>2. CASE j = k
    <3> DEFINE c == content[k]
    <3>1. PICK n \in 0..LineCount(c) : \E x \in n..LineCount(c) : \E d \in 0..n :
               /\ SentUpTo(k, n, d) /\ TakesLines(k, n, x, p, lines)
      BY <1>7, <2>2
    <3>2. PICK x \in n..LineCount(c) : \E d \in 0..n :
               /\ SentUpTo(k, n, d) /\ TakesLines(k, n, x, p, lines)
      BY <3>1
    <3>3. PICK d \in 0..n : SentUpTo(k, n, d) /\ TakesLines(k, n, x, p, lines)
      BY <3>2
    <3>4. /\ AllFit(c, d, n) /\ sent[k] = LinesOf(c, d, n) /\ AllFit(c, n, x)
          /\ lines = LinesOf(c, n, x) /\ offset'[k] = At(c, x)
      BY <3>3 DEF SentUpTo, TakesLines
    <3>5. LineCount(c) \in Nat
      BY <1>1, NewlinesListed
    <3>6. /\ d \in Nat /\ n \in Nat /\ x \in Nat /\ d <= n /\ n <= x /\ d \in 0..x
          /\ x \in 0..LineCount(c)
      BY <3>5
    <3>7. sent'[k] = LinesOf(c, d, n) \o LinesOf(c, n, x)
      BY <1>3, <2>2, <3>4
    <3> HIDE DEF c
    <3>8. sent'[k] = LinesOf(c, d, x)
      BY <3>6, <3>7, LinesOfAppend
    <3>9. AllFit(c, d, x)
      <4> SUFFICES ASSUME NEW i \in (d + 1)..x PROVE Fits(c, i)
        BY DEF AllFit
      <4>1. i \in (d + 1)..n \/ i \in (n + 1)..x
        BY <3>6
      <4> QED BY <3>4, <4>1 DEF AllFit
    <3>10. SentUpTo(k, x, d)' /\ sent'[k] = LinesOf(content[k], d, x)
      BY <1>5, <3>4, <3>8, <3>9 DEF SentUpTo, c
    <3>11. x \in 0..LineCount(content[k]) /\ d \in 0..x
      BY <3>6 DEF c
    <3> QED BY <2>2, <3>10, <3>11
  <2> QED BY <2>1, <2>2
<1>9. \A j \in Keys \ plain' : sent'[j] = <<>>
  <2> SUFFICES ASSUME NEW j \in Keys \ plain' PROVE sent'[j] = <<>>
    OBVIOUS
  <2>1. CASE j = k
    BY <1>3, <2>1
  <2>2. CASE j # k
    <3>1. j \notin plain
      BY <1>4, <2>2 DEF AfterRead
    <3> QED BY <1>1, <1>3, <2>2, <3>1 DEF SentInv
  <2> QED BY <2>1, <2>2
<1>10. SentInv'
  BY <1>5, <1>8, <1>9 DEF SentInv
<1>11. sent' \in [Keys -> Seq(Span)]
  <2>1. ASSUME NEW j \in plain' PROVE sent'[j] \in Seq(Span)
    <3>1. PICK n \in 0..LineCount(content[j]) : \E d \in 0..n :
               SentUpTo(j, n, d)' /\ sent'[j] = LinesOf(content[j], d, n)
      BY <1>8
    <3>2. PICK d \in 0..n : sent'[j] = LinesOf(content[j], d, n)
      BY <3>1
    <3>3. Len(content[j]) \in Nat /\ Len(content[j]) <= MaxBytes
      BY <1>1, <1>4 DEF AfterRead
    <3> QED BY <3>2, <3>3, LinesTyped
  <2>2. \A j \in Keys : sent'[j] \in Seq(Span)
    <3>1. <<>> \in Seq(Span)
      OBVIOUS
    <3> QED BY <1>9, <2>1, <3>1
  <2> QED BY <1>3, <2>2
<1>12. ASSUME k \in plain'
       PROVE  \E n \in 0..LineCount(content[k]) : \E x \in n..LineCount(content[k]) : SentOnWith(k, n, x)
  <2>1. PICK n \in 0..LineCount(content[k]) : \E x \in n..LineCount(content[k]) : \E d \in 0..n :
               /\ SentUpTo(k, n, d) /\ TakesLines(k, n, x, p, lines)
    BY <1>7, <1>12
  <2>2. PICK x \in n..LineCount(content[k]) : \E d \in 0..n : SentUpTo(k, n, d) /\ TakesLines(k, n, x, p, lines)
    BY <2>1
  <2>3. SentOnWith(k, n, x)
    BY <1>3, <1>12, <2>2 DEF SentUpTo, TakesLines, SentOnWith
  <2> QED BY <2>3
<1> QED BY <1>3, <1>10, <1>11, <1>12 DEF AfterSending

(* Lines after a place begin after it. *)
LEMMA LinesAfter ==
  ASSUME NEW s, Len(s) \in Nat, NEW n \in 0..LineCount(s), NEW x \in n..LineCount(s),
         NEW c \in Nat, c <= At(s, n), NEW i \in 1..(x - n)
  PROVE  LinesOf(s, n, x)[i][1] > c
<1>1. LineCount(s) \in Nat /\ Breaks(s, LineCount(s))
  BY BreaksOf, NewlinesListed
<1>2. n \in Nat /\ x \in Nat /\ n <= x /\ (n + i) - 1 \in 0..LineCount(s) /\ n <= (n + i) - 1
  BY <1>1
<1>3. LinesAre(s, n, x)
  BY <1>2, LinesOfFacts
<1>4. LinesOf(s, n, x)[i][1] = At(s, (n + i) - 1) + 1
  BY <1>3 DEF LinesAre
<1> DEFINE h == (n + i) - 1
<1>5. At(s, n) <= At(s, h) /\ At(s, n) \in Int /\ At(s, h) \in Int
  <2>1. n \in 0..LineCount(s) /\ h \in 0..LineCount(s) /\ n <= h
    BY <1>2
  <2> HIDE DEF h
  <2> QED BY <1>1, <2>1, BreaksFacts
<1> HIDE DEF h
<1>6. At(s, h) + 1 > c
  BY <1>5
<1> QED BY <1>4, <1>6 DEF h

(* What is left to look at after the first of it. *)
LEMMA RestOfTodo ==
  ASSUME PollInv, at = "first", todo # <<>>
  PROVE  /\ offset[Head(todo).key] = 0 /\ Head(todo).key \in Watched /\ Head(todo).key \in Keys
         /\ \A j \in 1..Len(buffer) : buffer[j][1] # Head(todo).key
         /\ \A i \in 1..Len(Tail(todo)) :
              /\ Tail(todo)[i].key # Head(todo).key /\ offset[Tail(todo)[i].key] = 0
              /\ Tail(todo)[i].key \in Keys
              /\ \A j \in 1..Len(buffer) : buffer[j][1] # Tail(todo)[i].key
              /\ \A j \in 1..Len(Tail(todo)) : Tail(todo)[i].key = Tail(todo)[j].key => i = j
<1>1. /\ Len(todo) \in Nat /\ Len(todo) > 0 /\ Head(todo) = todo[1] /\ Head(todo) \in Listing
      /\ Tail(todo) \in Seq(Listing) /\ Len(Tail(todo)) = Len(todo) - 1
      /\ \A i \in 1..(Len(todo) - 1) : Tail(todo)[i] = todo[i + 1] /\ i + 1 \in 1..Len(todo)
  BY TailOfTodo
<1>2. \A i \in 1..Len(todo) :
       /\ offset[todo[i].key] = 0
       /\ \A j \in 1..Len(buffer) : buffer[j][1] # todo[i].key
       /\ \A j \in 1..Len(todo) : todo[i].key = todo[j].key => i = j
  BY DEF PollInv, TodoInv
<1>3. 1 \in 1..Len(todo)
  BY <1>1
<1>4. \A l \in Listing : l.key \in Watched /\ l.key \in Keys
  BY PollAssumption DEF Listing, Watched
<1> DEFINE q == Tail(todo)
<1>5. q \in Seq(Listing)
  BY <1>1
<1> HIDE DEF q
<1>6. \A i \in 1..Len(q) : q[i] \in Listing
  BY <1>5
<1>7. ASSUME NEW i \in 1..Len(q)
      PROVE  /\ q[i].key # todo[1].key /\ offset[q[i].key] = 0 /\ q[i].key \in Keys
             /\ \A j \in 1..Len(buffer) : buffer[j][1] # q[i].key
             /\ \A j \in 1..Len(q) : q[i].key = q[j].key => i = j
  <2>1. q[i] = todo[i + 1] /\ i + 1 \in 1..Len(todo) /\ i + 1 # 1
    BY <1>1 DEF q
  <2>2. ASSUME NEW j \in 1..Len(q), q[i].key = q[j].key PROVE i = j
    <3>1. q[j] = todo[j + 1] /\ j + 1 \in 1..Len(todo)
      BY <1>1 DEF q
    <3>2. i + 1 = j + 1
      BY <1>2, <2>1, <2>2, <3>1
    <3> QED BY <3>2
  <2> QED BY <1>2, <1>3, <1>4, <1>6, <2>1, <2>2
<1> QED BY <1>1, <1>2, <1>3, <1>4, <1>7 DEF q

(* What is noted of an object. *)
LEMMA NotedFacts ==
  ASSUME PollTypeOK, NEW l \in Listing, Noted(l)
  PROVE  /\ tracked' = tracked \cup {l.key} /\ tracked' \subseteq Watched
         /\ seen' \in [Keys -> [size : 0..MaxBytes, stamp : 0..MaxChanges]]
         /\ seen'[l.key].size = l.size
         /\ \A j \in Keys : j # l.key => seen'[j] = seen[j]
<1>1. l.key \in Watched /\ l.key \in Keys /\ l.size \in 0..MaxBytes /\ l.stamp \in 0..MaxChanges
  BY PollAssumption DEF Listing, Watched
<1>2. tracked' = tracked \cup {l.key} /\ seen' = [seen EXCEPT ![l.key] = [size |-> l.size, stamp |-> l.stamp]]
  BY DEF Noted
<1> DEFINE k == l.key
           r == [size |-> l.size, stamp |-> l.stamp]
<1>3. seen' = [seen EXCEPT ![k] = r] /\ k \in Keys /\ r \in [size : 0..MaxBytes, stamp : 0..MaxChanges]
      /\ r.size = l.size
  BY <1>1, <1>2
<1>4. tracked \subseteq Watched /\ seen \in [Keys -> [size : 0..MaxBytes, stamp : 0..MaxChanges]]
  BY DEF PollTypeOK
<1>5. tracked' \subseteq Watched
  BY <1>1, <1>2, <1>4
<1> DEFINE R == [size : 0..MaxBytes, stamp : 0..MaxChanges]
<1> HIDE DEF k, r, R
<1>6. seen' \in [Keys -> R] /\ seen'[k] = r /\ \A j \in Keys : j # k => seen'[j] = seen[j]
  BY <1>3, <1>4 DEF R
<1> QED BY <1>2, <1>3, <1>5, <1>6 DEF k, R

LEMMA ReadInv ==
  ASSUME PollInv, NEW p, Read(p)
  PROVE  PollInv'
<1> USE DEF Size
<1> DEFINE l == Head(todo)
           k == l.key
           lines == Lines(SubSeq(content[k], 1, p), offset[k])
<1>0. /\ content' = content /\ stamp' = stamp /\ kind' = kind /\ mode' = mode /\ before' = before
      /\ at = "visit" /\ at' = at /\ todo # <<>> /\ todo' = Tail(todo) /\ Readable(k)
      /\ Reads(k, p, lines) /\ SendLines(k, lines) /\ Noted(l)
      /\ buffer' = buffer /\ changes' = changes
  BY DEF store, setup, Read
<1>1. /\ PollTypeOK /\ StoreInv /\ OffsetInv /\ TodoInv /\ PhaseInv /\ SentInv /\ NotedIsRead /\ OneInv
  BY DEF PollInv
<1>2. Watched' = Watched /\ ~Collecting' /\ ~Collecting
  BY <1>0 DEF Watched, Collecting
<1>3. /\ l \in Listing /\ l = todo[1] /\ 1 \in 1..Len(todo) /\ todo' \in Seq(Listing)
      /\ \A i \in 1..Len(todo') : todo'[i].key \in plain => todo'[i].size <= Len(content[todo'[i].key])
  BY <1>0, TailOfTodo
<1>4. k \in Watched /\ k \in Keys /\ l.size \in Nat /\ (k \in plain => l.size <= Len(content[k]))
  <2>1. l.key \in Watched /\ l.key \in Keys /\ l.size \in 0..MaxBytes
    BY <1>3, PollAssumption DEF Listing, Watched
  <2> QED BY <1>1, <1>3, <2>1 DEF TodoInv
<1> HIDE DEF l
<1>5. AfterRead(k, p, lines)
  <2>1. k \in Keys /\ Readable(k) /\ lines = Lines(SubSeq(content[k], 1, p), offset[k]) /\ Reads(k, p, lines)
    BY <1>0, <1>4
  <2> HIDE DEF k, lines
  <2> QED BY <2>1, ReadFacts
<1>6. AfterSending(k)
  <2>1. /\ k \in Keys /\ Readable(k) /\ lines = Lines(SubSeq(content[k], 1, p), offset[k])
        /\ Reads(k, p, lines) /\ SendLines(k, lines) /\ at # "ended"
    BY <1>0, <1>4
  <2> HIDE DEF k, lines
  <2> QED BY <1>0, <1>2, <2>1, SentAfterRead
<1>7. /\ tracked' = tracked \cup {k} /\ tracked' \subseteq Watched
      /\ seen' \in [Keys -> [size : 0..MaxBytes, stamp : 0..MaxChanges]]
      /\ seen'[k].size = l.size /\ \A j \in Keys : j # k => seen'[j] = seen[j]
  BY <1>0, <1>1, <1>3, NotedFacts
<1> HIDE DEF k, lines
<1>20. /\ offset' \in [Keys -> 0..(MaxBytes + 1)] /\ \A j \in Keys : j # k => offset'[j] = offset[j]
       /\ plain' \subseteq plain /\ \A j : j # k => (j \in missed' <=> j \in missed)
       /\ missed' \subseteq Keys /\ failures' \in 0..MaxFailures /\ (failures' = 0 => failures = 0)
  BY <1>5 DEF AfterRead
<1>21. SentInv' /\ sent' \in [Keys -> Seq(Span)] /\ \A j \in Keys : j # k => sent'[j] = sent[j]
  BY <1>6 DEF AfterSending
<1>22. k \in plain' => \E n \in 0..LineCount(content[k]) : \E x \in n..LineCount(content[k]) :
                         TakesLines(k, n, x, p, lines)
  <2> SUFFICES ASSUME k \in plain'
               PROVE  \E n \in 0..LineCount(content[k]) : \E x \in n..LineCount(content[k]) :
                         TakesLines(k, n, x, p, lines)
    OBVIOUS
  <2>1. PICK n \in 0..LineCount(content[k]) : offset[k] = At(content[k], n)
    BY <1>1, <1>20 DEF OffsetInv
  <2> QED BY <1>5, <2>1 DEF AfterRead
<1>9. plain \subseteq Keys /\ plain' \subseteq Keys /\ \A j \in Keys : Len(content[j]) \in Nat
  BY <1>1, <1>20 DEF PollTypeOK
<1>8. PollTypeOK'
  <2>1. Listing' = Listing
    BY <1>2 DEF Listing
  <2> QED BY <1>0, <1>1, <1>2, <1>3, <1>7, <1>9, <1>20, <1>21, <2>1 DEF PollTypeOK
<1>10. StoreInv'
  BY <1>0, <1>1, <1>20 DEF StoreInv
<1>11. OffsetInv'
  <2> SUFFICES ASSUME NEW j \in plain' PROVE \E n \in 0..LineCount(content[j]) : offset'[j] = At(content[j], n)
    BY <1>0 DEF OffsetInv
  <2>1. CASE j = k
    <3>1. PICK n \in 0..LineCount(content[k]) : \E x \in n..LineCount(content[k]) :
                         TakesLines(k, n, x, p, lines)
      BY <1>22, <2>1
    <3>2. PICK x \in n..LineCount(content[k]) : TakesLines(k, n, x, p, lines)
      BY <3>1
    <3>3. x \in 0..LineCount(content[k])
      <4>1. LineCount(content[k]) \in Nat
        BY <1>4, <1>9, NewlinesListed
      <4> QED BY <4>1
    <3> QED BY <2>1, <3>2, <3>3 DEF TakesLines
  <2>2. CASE j # k
    <3>1. offset'[j] = offset[j] /\ j \in plain
      BY <1>9, <1>20, <2>2
    <3> QED BY <1>1, <3>1 DEF OffsetInv
  <2> QED BY <2>1, <2>2
<1>12. TodoInv'
  BY <1>0, <1>3, <1>20 DEF TodoInv
<1>13. PhaseInv'
  BY <1>0, <1>1, <1>2 DEF PhaseInv
<1>14. BlockInv'
  BY <1>2 DEF BlockInv
<1>15. NotedIsRead'
  <2> SUFFICES ASSUME NEW j \in plain', j \in tracked', j \notin missed', ~Blocked(content[j], offset'[j])
               PROVE  seen'[j].size <= offset'[j]
    BY <1>0, StuckIs DEF NotedIsRead
  <2>0. j \in plain
    BY <1>20
  <2>1. CASE j = k
    <3>1. PICK n \in 0..LineCount(content[k]) : \E x \in n..LineCount(content[k]) :
                         TakesLines(k, n, x, p, lines)
      BY <1>22, <2>1
    <3>2. p = Size(k)
      BY <1>5, <2>1 DEF AfterRead
    <3>3. offset'[k] = Len(content[k])
      BY <2>1, <3>1, <3>2 DEF TakesLines
    <3> QED BY <1>4, <1>7, <2>0, <2>1, <3>3
  <2>2. CASE j # k
    <3>1. j \in tracked /\ j \notin missed /\ seen'[j] = seen[j] /\ offset'[j] = offset[j]
      BY <1>7, <1>9, <1>20, <2>2
    <3> QED BY <1>1, <2>0, <3>1, StuckIs DEF NotedIsRead
  <2> QED BY <2>1, <2>2
<1>16. OneInv'
  <2> SUFFICES ASSUME kind = "one" PROVE OneInv'
    BY <1>0 DEF OneInv
  <2>1. k = Target
    BY <1>4 DEF Watched
  <2>2. mode # "head" /\ at' # "mark"
    BY <1>0, <1>1 DEF PhaseInv
  <2>3. /\ \A j \in Keys \ {Target} : offset'[j] = 0 /\ sent'[j] = <<>>
        /\ \A i \in 1..Len(buffer) : buffer[i][1] = Target
    BY <1>1, <1>20, <1>21, <2>1 DEF OneInv
  <2>4. ASSUME Target \in plain', mode = "live", failures' = 0
        PROVE  /\ before[Target] <= offset'[Target]
               /\ \A i \in 1..Len(sent'[Target]) : sent'[Target][i][1] > before[Target]
    <3> DEFINE c == content[k]
    <3>0. Target \in plain /\ failures = 0 /\ Len(c) \in Nat /\ LineCount(c) \in Nat
      BY <1>4, <1>9, <1>20, <2>4, NewlinesListed
    <3>1. /\ before[Target] <= offset[Target] /\ before[Target] \in Nat
          /\ \A i \in 1..Len(sent[Target]) : sent[Target][i][1] > before[Target]
      BY <1>0, <1>1, <1>4, <2>1, <2>4, <3>0 DEF OneInv, PollTypeOK
    <3>2. PICK n \in 0..LineCount(c) : \E x \in n..LineCount(c) : SentOnWith(k, n, x)
      BY <1>6, <2>1, <2>4 DEF AfterSending
    <3>3. PICK x \in n..LineCount(c) : SentOnWith(k, n, x)
      BY <3>2
    <3> DEFINE a == sent[k]
               b == LinesOf(c, n, x)
    <3>4. offset[k] = At(c, n) /\ offset'[k] = At(c, x) /\ sent'[k] = a \o b
      BY <3>3 DEF SentOnWith
    <3>5. n \in Nat /\ x \in Nat /\ n <= x /\ n \in 0..LineCount(c) /\ x \in 0..LineCount(c)
      BY <3>0
    <3>6. LinesAre(c, n, x)
      BY <3>5, LinesOfFacts
    <3>7. Len(b) = x - n /\ b \in Seq(Span) /\ a \in Seq(Span)
      <4>1. b \in Seq(Span)
        <5>1. n \in 0..x /\ Len(c) <= MaxBytes
          BY <1>1, <1>4, <3>5 DEF PollTypeOK
        <5> HIDE DEF c
        <5> QED BY <3>0, <3>5, <5>1, LinesTyped
      <4>2. a \in Seq(Span)
        BY <1>1, <1>4 DEF PollTypeOK
      <4> QED BY <3>6, <4>1, <4>2 DEF LinesAre
    <3>8. ASSUME NEW i \in 1..(x - n) PROVE b[i][1] > before[Target]
      <4>1. before[Target] <= At(c, n)
        BY <2>1, <3>1, <3>4
      <4> HIDE DEF c
      <4> QED BY <3>0, <3>1, <4>1, LinesAfter
    <3>9. At(c, n) <= At(c, x) /\ At(c, n) \in Int /\ At(c, x) \in Int
      <4>1. Breaks(c, LineCount(c))
        BY <3>0, BreaksOf
      <4> HIDE DEF c
      <4> QED BY <3>0, <3>5, <4>1, BreaksFacts
    <3> HIDE DEF a, b, c
    <3>10. /\ Len(a \o b) = Len(a) + Len(b) /\ Len(a) \in Nat
           /\ \A i \in 1..Len(a) : (a \o b)[i] = a[i]
           /\ \A i \in 1..Len(b) : (a \o b)[Len(a) + i] = b[i]
      <4> DEFINE S == Span
      <4>1. a \in Seq(S) /\ b \in Seq(S)
        BY <3>7
      <4> HIDE DEF S
      <4> QED BY ONLY <4>1, Concatenation
    <3>11. ASSUME NEW i \in 1..Len(a \o b) PROVE (a \o b)[i][1] > before[Target]
      <4>1. CASE i \in 1..Len(a)
        BY <2>1, <3>1, <3>10, <4>1 DEF a
      <4>2. CASE i \notin 1..Len(a)
        <5>1. i - Len(a) \in 1..(x - n) /\ Len(a) + (i - Len(a)) = i /\ i - Len(a) \in 1..Len(b)
          BY <3>5, <3>7, <3>10, <4>2
        <5>2. (a \o b)[i] = b[i - Len(a)]
          BY <3>10, <5>1
        <5> QED BY <3>8, <5>1, <5>2
      <4> QED BY <4>1, <4>2
    <3>12. before[Target] <= offset'[Target]
      BY <2>1, <3>1, <3>4, <3>9
    <3> QED BY <2>1, <3>4, <3>11, <3>12
  <2> QED BY <1>0, <2>2, <2>3, <2>4 DEF OneInv
<1> QED BY <1>8, <1>10, <1>11, <1>12, <1>13, <1>14, <1>15, <1>16, <1>21 DEF PollInv

(* A look at an object that does not read it. *)
LEMMA ReadFailsInv ==
  ASSUME PollInv, ReadFails
  PROVE  PollInv'
<1> USE DEF Size
<1> DEFINE l == Head(todo)
           k == l.key
<1>0. /\ content' = content /\ stamp' = stamp /\ kind' = kind /\ mode' = mode /\ before' = before
      /\ at = "visit" /\ at' = at /\ todo # <<>> /\ todo' = Tail(todo) /\ Noted(l)
      /\ ~Readable(k) /\ missed' = missed /\ failures' = failures
      /\ offset' = offset /\ buffer' = buffer /\ sent' = sent /\ changes' = changes /\ plain' = plain
  BY DEF store, setup, ReadFails
<1>1. /\ PollTypeOK /\ StoreInv /\ OffsetInv /\ TodoInv /\ PhaseInv /\ SentInv /\ NotedIsRead /\ OneInv
  BY DEF PollInv
<1>2. Watched' = Watched /\ ~Collecting' /\ ~Collecting
  BY <1>0 DEF Watched, Collecting
<1>3. /\ l \in Listing /\ l = todo[1] /\ 1 \in 1..Len(todo) /\ todo' \in Seq(Listing)
      /\ \A i \in 1..Len(todo') : todo'[i].key \in plain => todo'[i].size <= Len(content[todo'[i].key])
  BY <1>0, TailOfTodo
<1>4. k \in Watched /\ k \in Keys /\ l.size \in Nat /\ (k \in plain => l.size <= Len(content[k]))
  <2>1. l.key \in Watched /\ l.key \in Keys /\ l.size \in 0..MaxBytes
    BY <1>3, PollAssumption DEF Listing, Watched
  <2> QED BY <1>1, <1>3, <2>1 DEF TodoInv
<1>6. /\ tracked' = tracked \cup {k} /\ tracked' \subseteq Watched
      /\ seen' \in [Keys -> [size : 0..MaxBytes, stamp : 0..MaxChanges]]
      /\ seen'[k].size = l.size /\ \A j \in Keys : j # k => seen'[j] = seen[j]
  BY <1>0, <1>1, <1>3, NotedFacts
<1> HIDE DEF l
<1>7. PollTypeOK'
  <2>1. Listing' = Listing
    BY <1>2 DEF Listing
  <2>2. missed' \subseteq Keys
    BY <1>0, <1>1 DEF PollTypeOK
  <2> HIDE DEF k
  <2> QED BY <1>0, <1>1, <1>2, <1>3, <1>6, <2>1, <2>2 DEF PollTypeOK
<1>8. plain \subseteq Keys /\ \A j \in Keys : offset[j] \in Nat /\ Len(content[j]) \in Nat
  BY <1>1, PollAssumption DEF PollTypeOK
<1> HIDE DEF k
<1>9. StoreInv' /\ OffsetInv'
  BY <1>0, <1>1 DEF StoreInv, OffsetInv
<1>10. TodoInv'
  BY <1>0, <1>3 DEF TodoInv
<1>11. PhaseInv'
  BY <1>0, <1>1, <1>2 DEF PhaseInv
<1>12. SentInv' /\ BlockInv'
  <2>1. \A j, n, d : SentUpTo(j, n, d) => SentUpTo(j, n, d)'
    BY <1>0, <1>2 DEF SentUpTo
  <2> QED BY <1>0, <1>1, <1>2, <2>1 DEF SentInv, BlockInv
<1>13. NotedIsRead'
  <2> SUFFICES ASSUME NEW j \in plain, j \in tracked', j \notin missed, ~Blocked(content[j], offset[j])
               PROVE  seen'[j].size <= offset[j]
    BY <1>0, StuckIs DEF NotedIsRead
  <2>1. CASE j = k
    <3>1. ~Readable(k)
      BY <1>0
    <3>2. Len(content[k]) <= offset[k]
      <4>1. content[k] = <<>> \/ ~(offset[k] < Len(content[k]))
        BY <3>1 DEF Readable
      <4>2. content[k] = <<>> => Len(content[k]) = 0
        OBVIOUS
      <4> QED BY <1>4, <1>8, <4>1, <4>2
    <3> QED BY <1>4, <1>6, <1>8, <2>1, <3>2
  <2>2. CASE j # k
    <3>1. j \in tracked /\ seen'[j] = seen[j]
      BY <1>0, <1>6, <1>8, <2>2
    <3> QED BY <1>1, <3>1, StuckIs DEF NotedIsRead
  <2> QED BY <2>1, <2>2
<1>14. OneInv'
  BY <1>0, <1>1 DEF OneInv, HeadIs
<1> QED BY <1>7, <1>9, <1>10, <1>11, <1>12, <1>13, <1>14 DEF PollInv

LEMMA MarkInv ==
  ASSUME PollInv, NEW ok \in BOOLEAN, Mark(ok)
  PROVE  PollInv'
<1> USE DEF Size
<1> DEFINE size == IF ok THEN Len(content[Target]) ELSE 0
           l == [key |-> Target, size |-> size, stamp |-> 0]
<1>0. /\ content' = content /\ stamp' = stamp /\ kind' = kind /\ mode' = mode /\ before' = before
      /\ at = "mark" /\ at' = "follow" /\ todo' = todo /\ Noted(l)
      /\ missed' = IF size > offset[Target] THEN missed \cup {Target} ELSE missed
      /\ offset' = offset /\ buffer' = buffer /\ sent' = sent /\ changes' = changes /\ plain' = plain
  BY DEF store, setup, Mark, Goto
<1>1. /\ PollTypeOK /\ StoreInv /\ OffsetInv /\ TodoInv /\ PhaseInv /\ SentInv /\ NotedIsRead /\ OneInv
  BY DEF PollInv
<1>2. Watched' = Watched /\ ~Collecting' /\ ~Collecting /\ kind = "one" /\ todo = <<>> /\ tracked = {}
  BY <1>0, <1>1 DEF Watched, Collecting, PhaseInv
<1>3. Target \in Keys /\ size \in 0..MaxBytes /\ \A j \in Keys : offset[j] \in Nat
  BY <1>1, PollAssumption DEF PollTypeOK
<1> HIDE DEF size
<1>4. l \in Listing /\ l.key = Target /\ l.size = size
  BY <1>2, <1>3, PollAssumption DEF Listing, Watched
<1> HIDE DEF l
<1>5. failures' \in 0..MaxFailures /\ (failures' = 0 => failures = 0)
  <2>1. failures \in 0..MaxFailures
    BY <1>1 DEF PollTypeOK
  <2>2. failures' = failures \/ (failures < MaxFailures /\ failures' = failures + 1)
    BY DEF Mark, Fail
  <2> QED BY <2>1, <2>2, PollAssumption
<1>6. /\ tracked' = {Target} /\ tracked' \subseteq Watched
      /\ seen' \in [Keys -> [size : 0..MaxBytes, stamp : 0..MaxChanges]]
      /\ seen'[Target].size = size
  BY <1>0, <1>1, <1>2, <1>4, NotedFacts
<1>7. PollTypeOK'
  <2>1. Listing' = Listing
    BY <1>2 DEF Listing
  <2>2. missed' \subseteq Keys
    BY <1>0, <1>1, <1>3 DEF PollTypeOK
  <2> QED BY <1>0, <1>1, <1>2, <1>5, <1>6, <2>1, <2>2 DEF PollTypeOK
<1>8. StoreInv' /\ OffsetInv'
  BY <1>0, <1>1 DEF StoreInv, OffsetInv
<1>9. TodoInv' /\ PhaseInv'
  BY <1>0, <1>1, <1>2 DEF TodoInv, PhaseInv
<1>10. SentInv' /\ BlockInv'
  <2>1. \A j, n, d : SentUpTo(j, n, d) => SentUpTo(j, n, d)'
    BY <1>0, <1>2 DEF SentUpTo
  <2> QED BY <1>0, <1>1, <1>2, <2>1 DEF SentInv, BlockInv
<1>11. NotedIsRead'
  <2>1. Target \notin missed' => size <= offset[Target]
    BY <1>0, <1>3
  <2> QED BY <1>0, <1>6, <2>1 DEF NotedIsRead
<1>12. OneInv'
  <2>1. at' # "mark" /\ \A n : HeadIs(n) => HeadIs(n)'
    BY <1>0 DEF HeadIs
  <2> QED BY <1>0, <1>1, <1>5, <2>1 DEF OneInv
<1> QED BY <1>7, <1>8, <1>9, <1>10, <1>11, <1>12 DEF PollInv

LEMMA FirstReadFailsInv ==
  ASSUME PollInv, FirstReadFails
  PROVE  PollInv'
<1> USE DEF Size
<1> DEFINE l == Head(todo)
           k == l.key
<1>0. /\ content' = content /\ stamp' = stamp /\ kind' = kind /\ mode' = mode /\ before' = before
      /\ at = "first" /\ at' = at /\ todo # <<>> /\ todo' = Tail(todo) /\ SeenFirst(l)
      /\ ~Readable(k) /\ missed' = missed /\ failures' = failures
      /\ offset' = offset /\ buffer' = buffer /\ sent' = sent /\ changes' = changes /\ plain' = plain
  BY DEF store, setup, FirstReadFails
<1>1. /\ PollTypeOK /\ StoreInv /\ OffsetInv /\ TodoInv /\ PhaseInv /\ SentInv /\ BlockInv /\ NotedIsRead /\ OneInv
  BY DEF PollInv
<1>2. Watched' = Watched /\ Collecting' = Collecting /\ Skips' = Skips /\ Buffers' = Buffers
  BY <1>0 DEF Watched, Collecting, Buffers, Skips
<1>3. /\ l \in Listing /\ l = todo[1] /\ 1 \in 1..Len(todo) /\ todo' \in Seq(Listing)
      /\ \A i \in 1..Len(todo') : todo'[i].key \in plain => todo'[i].size <= Len(content[todo'[i].key])
  BY <1>0, TailOfTodo
<1>4. k \in Watched /\ k \in Keys /\ l.size \in Nat /\ (k \in plain => l.size <= Len(content[k]))
  <2>1. l.key \in Watched /\ l.key \in Keys /\ l.size \in 0..MaxBytes
    BY <1>3, PollAssumption DEF Listing, Watched
  <2> QED BY <1>1, <1>3, <2>1 DEF TodoInv
<1>6. /\ kind = "one" => tracked' = tracked /\ seen' = seen
      /\ kind = "all" => /\ tracked' = tracked \cup {k} /\ seen'[k].size = l.size
                         /\ \A j \in Keys : j # k => seen'[j] = seen[j]
      /\ tracked' \subseteq Watched /\ seen' \in [Keys -> [size : 0..MaxBytes, stamp : 0..MaxChanges]]
  <2>1. CASE kind = "all"
    <3>1. Noted(l)
      BY <1>0, <2>1 DEF SeenFirst
    <3> QED BY <1>1, <1>3, <2>1, <3>1, NotedFacts
  <2>2. CASE kind = "one"
    BY <1>0, <1>1, <2>2 DEF SeenFirst, PollTypeOK
  <2> QED BY <1>1, <2>1, <2>2 DEF PollTypeOK
<1> HIDE DEF l
<1>7. PollTypeOK'
  <2>1. Listing' = Listing
    BY <1>2 DEF Listing
  <2>2. missed' \subseteq Keys
    BY <1>0, <1>1 DEF PollTypeOK
  <2> HIDE DEF k
  <2> QED BY <1>0, <1>1, <1>2, <1>3, <1>6, <2>1, <2>2 DEF PollTypeOK
<1>8. plain \subseteq Keys /\ \A j \in Keys : offset[j] \in Nat /\ Len(content[j]) \in Nat
  BY <1>1, PollAssumption DEF PollTypeOK
<1>9. kind \in {"all", "one"}
  BY <1>1 DEF PollTypeOK
<1> HIDE DEF k
<1>10. StoreInv' /\ OffsetInv'
  BY <1>0, <1>1 DEF StoreInv, OffsetInv
<1>11. TodoInv'
  <2> DEFINE q == Tail(todo)
  <2>1. \A i \in 1..Len(q) :
              /\ offset[q[i].key] = 0
              /\ \A j \in 1..Len(buffer) : buffer[j][1] # q[i].key
              /\ \A j \in 1..Len(q) : q[i].key = q[j].key => i = j
    BY <1>0, RestOfTodo
  <2>2. todo' = q
    BY <1>0
  <2> HIDE DEF q
  <2> QED BY <1>0, <1>3, <2>1, <2>2 DEF TodoInv
<1>12. PhaseInv'
  BY <1>0, <1>1, <1>2, <1>6 DEF PhaseInv
<1>13. SentInv'
  <2>1. \A j, n, d : SentUpTo(j, n, d) => SentUpTo(j, n, d)'
    BY <1>0, <1>2 DEF SentUpTo
  <2> QED BY <1>0, <1>1, <2>1 DEF SentInv
<1>14. BlockInv'
  <2>1. \A j, n, c : CollectedUpTo(j, n, c) => CollectedUpTo(j, n, c)'
    BY <1>0 DEF CollectedUpTo
  <2> QED BY <1>0, <1>1, <1>2, <2>1 DEF BlockInv
<1>15. NotedIsRead'
  <2> SUFFICES ASSUME NEW j \in plain, j \in tracked', j \notin missed, ~Blocked(content[j], offset[j])
               PROVE  seen'[j].size <= offset[j]
    BY <1>0, StuckIs DEF NotedIsRead
  <2>0. kind = "all"
    BY <1>0, <1>1, <1>6, <1>9 DEF PhaseInv
  <2>1. CASE j = k
    <3>1. ~Readable(k)
      BY <1>0
    <3>2. Len(content[k]) <= offset[k]
      <4>1. content[k] = <<>> \/ ~(offset[k] < Len(content[k]))
        BY <3>1 DEF Readable
      <4>2. content[k] = <<>> => Len(content[k]) = 0
        OBVIOUS
      <4> QED BY <1>4, <1>8, <4>1, <4>2
    <3> QED BY <1>4, <1>6, <1>8, <2>0, <2>1, <3>2
  <2>2. CASE j # k
    <3>1. j \in tracked /\ seen'[j] = seen[j]
      BY <1>0, <1>6, <1>8, <2>0, <2>2
    <3> QED BY <1>1, <3>1, StuckIs DEF NotedIsRead
  <2> QED BY <2>1, <2>2
<1>16. OneInv'
  BY <1>0, <1>1 DEF OneInv, HeadIs
<1> QED BY <1>7, <1>10, <1>11, <1>12, <1>13, <1>14, <1>15, <1>16 DEF PollInv

LEMMA FirstReadInv ==
  ASSUME PollInv, NEW p, FirstRead(p)
  PROVE  PollInv'
<1> USE DEF Size
<1> DEFINE l == Head(todo)
           k == l.key
           lines == Lines(SubSeq(content[k], 1, p), offset[k])
           t == Tagged(k, lines)
<1>0. /\ content' = content /\ stamp' = stamp /\ kind' = kind /\ mode' = mode /\ before' = before
      /\ at = "first" /\ at' = at /\ todo # <<>> /\ todo' = Tail(todo) /\ Readable(k)
      /\ Reads(k, p, lines) /\ SeenFirst(l)
      /\ IF Buffers THEN buffer' = buffer \o t /\ SendLines(k, <<>>)
                    ELSE SendLines(k, lines) /\ buffer' = buffer
      /\ changes' = changes
  BY DEF store, setup, FirstRead
<1>1. /\ PollTypeOK /\ StoreInv /\ OffsetInv /\ TodoInv /\ PhaseInv /\ SentInv /\ BlockInv /\ NotedIsRead /\ OneInv
  BY DEF PollInv
<1>2. /\ Watched' = Watched /\ Collecting' = Collecting /\ Skips' = Skips /\ Buffers' = Buffers
      /\ Collecting = Buffers /\ ~Skips
  BY <1>0, <1>1 DEF Watched, Collecting, Buffers, Skips, PhaseInv
<1>3. /\ l \in Listing /\ l = todo[1] /\ 1 \in 1..Len(todo) /\ todo' \in Seq(Listing)
      /\ \A i \in 1..Len(todo') : todo'[i].key \in plain => todo'[i].size <= Len(content[todo'[i].key])
  BY <1>0, TailOfTodo
<1>4. k \in Watched /\ k \in Keys /\ l.size \in Nat /\ (k \in plain => l.size <= Len(content[k]))
  <2>1. l.key \in Watched /\ l.key \in Keys /\ l.size \in 0..MaxBytes
    BY <1>3, PollAssumption DEF Listing, Watched
  <2> QED BY <1>1, <1>3, <2>1 DEF TodoInv
<1>5. /\ kind = "one" => tracked' = tracked /\ seen' = seen
      /\ kind = "all" => /\ tracked' = tracked \cup {k} /\ seen'[k].size = l.size
                         /\ \A j \in Keys : j # k => seen'[j] = seen[j]
      /\ tracked' \subseteq Watched /\ seen' \in [Keys -> [size : 0..MaxBytes, stamp : 0..MaxChanges]]
  <2>1. CASE kind = "all"
    <3>1. Noted(l)
      BY <1>0, <2>1 DEF SeenFirst
    <3> QED BY <1>1, <1>3, <2>1, <3>1, NotedFacts
  <2>2. CASE kind = "one"
    BY <1>0, <1>1, <2>2 DEF SeenFirst, PollTypeOK
  <2> QED BY <1>1, <2>1, <2>2 DEF PollTypeOK
<1> DEFINE q == Tail(todo)
<1>6. /\ offset[k] = 0 /\ \A j \in 1..Len(buffer) : buffer[j][1] # k
      /\ \A i \in 1..Len(q) :
              /\ q[i].key # k /\ offset[q[i].key] = 0 /\ q[i].key \in Keys
              /\ \A j \in 1..Len(buffer) : buffer[j][1] # q[i].key
              /\ \A j \in 1..Len(q) : q[i].key = q[j].key => i = j
  BY <1>0, RestOfTodo
<1> HIDE DEF l
<1>7. AfterRead(k, p, lines)
  <2>1. k \in Keys /\ Readable(k) /\ lines = Lines(SubSeq(content[k], 1, p), offset[k]) /\ Reads(k, p, lines)
    BY <1>0, <1>4
  <2> HIDE DEF k, lines
  <2> QED BY <2>1, ReadFacts
<1> HIDE DEF lines, k
<1>23. /\ lines \in Seq(Span)
       /\ offset' \in [Keys -> 0..(MaxBytes + 1)] /\ \A j \in Keys : j # k => offset'[j] = offset[j]
       /\ plain' \subseteq plain /\ \A j : j # k => (j \in missed' <=> j \in missed)
       /\ missed' \subseteq Keys /\ failures' \in 0..MaxFailures /\ (failures' = 0 => failures = 0)
  BY <1>7 DEF AfterRead
<1>8. k \in plain' => \E x \in 0..LineCount(content[k]) : TakesLines(k, 0, x, p, lines)
  <2> SUFFICES ASSUME k \in plain' PROVE \E x \in 0..LineCount(content[k]) : TakesLines(k, 0, x, p, lines)
    OBVIOUS
  <2>1. Len(content[k]) \in Nat
    BY <1>1, <1>4 DEF PollTypeOK
  <2>2. 0 \in 0..LineCount(content[k]) /\ offset[k] = At(content[k], 0)
    BY <1>6, <2>1, AtStart
  <2> QED BY <1>7, <2>2 DEF AfterRead
<1>9. t \in Seq(Watched \X Span) /\ Len(t) \in Nat /\ \A i \in 1..Len(t) : t[i][1] = k
  <2>1. Len(lines) \in Nat /\ \A i \in 1..Len(lines) : lines[i] \in Span
    BY <1>23
  <2>2. /\ t = [i \in 1..Len(lines) |-> <<k, lines[i]>>] /\ Len(t) = Len(lines)
        /\ \A i \in 1..Len(lines) : t[i] = <<k, lines[i]>>
    BY <2>1, TaggedFacts
  <2> HIDE DEF t
  <2> QED BY <1>4, <2>1, <2>2
<1>10. buffer \in Seq(Watched \X Span) /\ plain \subseteq Keys /\ kind \in {"all", "one"}
  BY <1>1 DEF PollTypeOK
<1> HIDE DEF t
<1>11. Buffers => /\ buffer' \in Seq(Watched \X Span)
                  /\ \A x : (x # k /\ \A j \in 1..Len(buffer) : buffer[j][1] # x)
                              => \A j \in 1..Len(buffer') : buffer'[j][1] # x
                  /\ kind = "one" => \A j \in 1..Len(buffer') : buffer'[j][1] = Target
  <2> SUFFICES ASSUME Buffers
               PROVE  /\ buffer' \in Seq(Watched \X Span)
                      /\ \A x : (x # k /\ \A j \in 1..Len(buffer) : buffer[j][1] # x)
                              => \A j \in 1..Len(buffer') : buffer'[j][1] # x
                      /\ kind = "one" => \A j \in 1..Len(buffer') : buffer'[j][1] = Target
    OBVIOUS
  <2> DEFINE P == Watched \X Span
             r == buffer \o t
  <2>1. buffer \in Seq(P) /\ t \in Seq(P)
    BY <1>9, <1>10
  <2> HIDE DEF P
  <2>2. /\ r \in Seq(P) /\ Len(r) = Len(buffer) + Len(t) /\ Len(buffer) \in Nat
        /\ \A i \in 1..Len(buffer) : r[i] = buffer[i]
        /\ \A i \in 1..Len(t) : r[Len(buffer) + i] = t[i]
    BY <2>1, Concatenation
  <2>3. buffer' = r
    BY <1>0
  <2> HIDE DEF r
  <2>4. ASSUME NEW j \in 1..Len(r)
        PROVE  (j \in 1..Len(buffer) /\ r[j] = buffer[j]) \/ r[j][1] = k
    <3>1. CASE j \in 1..Len(buffer)
      BY <2>2, <3>1
    <3>2. CASE j \notin 1..Len(buffer)
      <4>1. j - Len(buffer) \in 1..Len(t) /\ Len(buffer) + (j - Len(buffer)) = j
        BY <1>9, <2>2, <3>2
      <4>2. r[j] = t[j - Len(buffer)]
        BY <2>2, <4>1
      <4> QED BY <1>9, <4>1, <4>2
    <3> QED BY <3>1, <3>2
  <2>5. kind = "one" => k = Target /\ \A i \in 1..Len(buffer) : buffer[i][1] = Target
    BY <1>1, <1>4 DEF OneInv, Watched
  <2> QED BY <2>2, <2>3, <2>4, <2>5 DEF P
<1>12. ~Buffers => buffer = <<>> /\ buffer' = <<>>
  BY <1>0, <1>1, <1>2 DEF PhaseInv
<1>13. ~Buffers => /\ SentInv' /\ sent' \in [Keys -> Seq(Span)] /\ \A j \in Keys : j # k => sent'[j] = sent[j]
  <2> SUFFICES ASSUME ~Buffers
               PROVE  SentInv' /\ sent' \in [Keys -> Seq(Span)] /\ \A j \in Keys : j # k => sent'[j] = sent[j]
    OBVIOUS
  <2>1. /\ SendLines(k, lines) /\ ~Collecting /\ at # "ended"
        /\ lines = Lines(SubSeq(content[k], 1, p), offset[k])
    BY <1>0, <1>2 DEF lines
  <2>2. AfterSending(k)
    BY <1>0, <1>4, <2>1, SentAfterRead
  <2> QED BY <2>2 DEF AfterSending
<1>24. Buffers => sent' = sent /\ \A j \in Keys : sent[j] = <<>>
  <2> SUFFICES ASSUME Buffers PROVE sent' = sent /\ \A j \in Keys : sent[j] = <<>>
    OBVIOUS
  <2>1. ASSUME NEW j \in plain PROVE sent[j] = <<>>
    <3>1. PICK n \in 0..LineCount(content[j]) : \E d \in 0..n : SentUpTo(j, n, d)
      BY <1>1 DEF SentInv
    <3>2. n \in Nat /\ sent[j] = LinesOf(content[j], n, n)
      BY <1>2, <3>1 DEF SentUpTo
    <3> QED BY <3>2, NoLines
  <2>2. ASSUME NEW j \in Keys PROVE sent[j] = <<>>
    BY <1>1, <2>1 DEF SentInv
  <2>3. sent' = [sent EXCEPT ![k] = IF k \in plain' THEN @ \o <<>> ELSE <<>>] /\ sent \in [Keys -> Seq(Span)]
    BY <1>0, <1>1 DEF SendLines, PollTypeOK
  <2>4. <<>> \o <<>> = <<>>
    OBVIOUS
  <2>5. sent' = [sent EXCEPT ![k] = <<>>]
    BY <1>4, <2>2, <2>3, <2>4
  <2> QED BY <1>4, <2>2, <2>3, <2>5
<1>14. SentInv'
  <2>1. CASE Buffers
    <3>1. ASSUME NEW j \in plain'
          PROVE  0 \in 0..LineCount(content[j]) /\ 0 \in 0..0 /\ SentUpTo(j, 0, 0)'
      <4>1. j \in Keys /\ Len(content[j]) \in Nat
        BY <1>1, <1>10, <1>23 DEF PollTypeOK
      <4>2. sent'[j] = <<>> /\ Collecting'
        BY <1>2, <1>24, <2>1, <4>1
      <4> QED BY <1>0, <4>1, <4>2, AtStart DEF SentUpTo
    <3>2. \A j \in Keys : sent'[j] = <<>>
      BY <1>24, <2>1
    <3> QED BY <1>0, <3>1, <3>2 DEF SentInv
  <2> QED BY <1>13, <2>1
<1>15. PollTypeOK'
  <2>1. Listing' = Listing
    BY <1>2 DEF Listing
  <2>2. missed' \subseteq Keys /\ plain' \subseteq Keys
    BY <1>10, <1>23
  <2>3. sent' \in [Keys -> Seq(Span)]
    BY <1>1, <1>13, <1>24 DEF PollTypeOK
  <2>4. buffer' \in Seq(Watched \X Span)
    <3>1. CASE Buffers
      BY <1>11, <3>1
    <3>2. CASE ~Buffers
      BY <1>12, <3>2
    <3> QED BY <3>1, <3>2
  <2> QED BY <1>0, <1>1, <1>2, <1>3, <1>5, <1>23, <2>1, <2>2, <2>3, <2>4 DEF PollTypeOK
<1>16. StoreInv'
  BY <1>0, <1>1, <1>23 DEF StoreInv
<1>17. OffsetInv'
  <2> SUFFICES ASSUME NEW j \in plain' PROVE \E n \in 0..LineCount(content[j]) : offset'[j] = At(content[j], n)
    BY <1>0 DEF OffsetInv
  <2>1. CASE j = k
    BY <1>8, <2>1 DEF TakesLines
  <2>2. CASE j # k
    <3>1. offset'[j] = offset[j] /\ j \in plain
      BY <1>10, <1>23, <2>2
    <3> QED BY <1>1, <3>1 DEF OffsetInv
  <2> QED BY <2>1, <2>2
<1>18. TodoInv'
  <2>1. todo' = q
    BY <1>0
  <2>2. \A i \in 1..Len(q) : offset'[q[i].key] = 0
    BY <1>6, <1>23
  <2>4. \A i, j \in 1..Len(q) : q[i].key = q[j].key => i = j
    BY <1>6
  <2>3. \A i \in 1..Len(q) : \A j \in 1..Len(buffer') : buffer'[j][1] # q[i].key
    <3>1. CASE Buffers
      BY <1>6, <1>11, <3>1
    <3>2. CASE ~Buffers
      <4>1. \A j \in 1..Len(buffer') : FALSE
        BY <1>12, <3>2
      <4> QED BY <4>1
    <3> QED BY <3>1, <3>2
  <2>5. \A i \in 1..Len(q) : q[i].key \in plain' => q[i].size <= Len(content[q[i].key])
    BY <1>3, <1>23, <2>1
  <2> HIDE DEF q
  <2> QED BY <1>0, <2>1, <2>2, <2>3, <2>4, <2>5 DEF TodoInv
<1>19. PhaseInv'
  BY <1>0, <1>1, <1>2, <1>5, <1>12 DEF PhaseInv
<1>20. BlockInv'
  <2> SUFFICES ASSUME Buffers, NEW j \in plain'
               PROVE  \E n \in 0..LineCount(content[j]) : \E b \in Nat :
                        /\ offset'[j] = At(content'[j], n) /\ AllFit(content'[j], 0, n)
                        /\ Block(content'[j], buffer', j, b, n, 0)
    BY <1>0, <1>2 DEF BlockInv, CollectedUpTo
  <2> DEFINE P == Watched \X Span
  <2>1. buffer \in Seq(P) /\ t \in Seq(P) /\ buffer' = buffer \o t
    BY <1>0, <1>9, <1>10
  <2> HIDE DEF P
  <2>2. CASE j = k
    <3>1. PICK x \in 0..LineCount(content[k]) : TakesLines(k, 0, x, p, lines)
      BY <1>8, <2>2
    <3>2. /\ AllFit(content[k], 0, x) /\ lines = LinesOf(content[k], 0, x) /\ offset'[k] = At(content[k], x)
          /\ x \in Nat
      BY <3>1 DEF TakesLines
    <3>3. t = Tagged(k, LinesOf(content[k], 0, x))
      BY <3>2 DEF t
    <3>4. Block(content[k], buffer', k, Len(buffer), x, 0)
      BY <1>6, <2>1, <3>2, <3>3, BlockBegins
    <3>5. Len(buffer) \in Nat
      BY <2>1
    <3>6. /\ offset'[k] = At(content'[k], x) /\ AllFit(content'[k], 0, x)
          /\ Block(content'[k], buffer', k, Len(buffer), x, 0)
      BY <1>0, <3>2, <3>4
    <3> QED BY <1>0, <2>2, <3>1, <3>5, <3>6
  <2>3. CASE j # k
    <3>0. j \in plain /\ offset'[j] = offset[j]
      BY <1>10, <1>23, <2>3
    <3>1. PICK n \in 0..LineCount(content[j]) : \E b \in Nat : CollectedUpTo(j, n, b)
      BY <1>1, <1>2, <3>0 DEF BlockInv
    <3>2. PICK b \in Nat : CollectedUpTo(j, n, b)
      BY <3>1
    <3>3. \A i \in 1..Len(t) : t[i][1] # j
      BY <1>9, <2>3
    <3>4. /\ offset[j] = At(content[j], n) /\ AllFit(content[j], 0, n)
          /\ Block(content[j], buffer, j, b, n, 0)
      BY <3>2 DEF CollectedUpTo
    <3>5. Block(content[j], buffer', j, b, n, 0)
      BY <2>1, <3>3, <3>4, BlockStays
    <3>6. /\ offset'[j] = At(content'[j], n) /\ AllFit(content'[j], 0, n)
          /\ Block(content'[j], buffer', j, b, n, 0)
      BY <1>0, <3>0, <3>4, <3>5
    <3> QED BY <3>6
  <2> QED BY <2>2, <2>3
<1>21. NotedIsRead'
  <2> SUFFICES ASSUME NEW j \in plain', j \in tracked', j \notin missed', ~Blocked(content[j], offset'[j])
               PROVE  seen'[j].size <= offset'[j]
    BY <1>0, StuckIs DEF NotedIsRead
  <2>0. kind = "all" /\ j \in plain
    BY <1>0, <1>1, <1>5, <1>10, <1>23 DEF PhaseInv
  <2>1. CASE j = k
    <3>1. PICK x \in 0..LineCount(content[k]) : TakesLines(k, 0, x, p, lines)
      BY <1>8, <2>1
    <3>2. p = Size(k)
      BY <1>7, <2>1 DEF AfterRead
    <3>3. offset'[k] = Len(content[k])
      BY <2>1, <3>1, <3>2 DEF TakesLines
    <3> QED BY <1>4, <1>5, <2>0, <2>1, <3>3
  <2>2. CASE j # k
    <3>1. j \in tracked /\ j \notin missed /\ seen'[j] = seen[j] /\ offset'[j] = offset[j]
      BY <1>5, <1>10, <1>23, <2>0, <2>2
    <3> QED BY <1>1, <2>0, <3>1, StuckIs DEF NotedIsRead
  <2> QED BY <2>1, <2>2
<1>22. OneInv'
  <2> SUFFICES ASSUME kind = "one" PROVE OneInv'
    BY <1>0 DEF OneInv
  <2>1. k = Target
    BY <1>4 DEF Watched
  <2>2. at' # "mark" /\ mode # "live"
    BY <1>0, <1>2 DEF Skips
  <2>3. /\ \A j \in Keys \ {Target} : offset'[j] = 0 /\ sent'[j] = <<>>
    <3>1. \A j \in Keys \ {Target} : offset[j] = 0 /\ sent[j] = <<>>
      BY <1>1 DEF OneInv
    <3>2. \A j \in Keys \ {Target} : sent'[j] = sent[j]
      BY <1>13, <1>24, <2>1
    <3> QED BY <1>23, <2>1, <3>1, <3>2
  <2>4. \A i \in 1..Len(buffer') : buffer'[i][1] = Target
    <3>1. CASE Buffers
      BY <1>11, <3>1
    <3>2. CASE ~Buffers
      <4>1. \A j \in 1..Len(buffer') : FALSE
        BY <1>12, <3>2
      <4> QED BY <4>1
    <3> QED BY <3>1, <3>2
  <2>5. mode = "head" => sent' = sent
    BY <1>24 DEF Buffers
  <2>6. \A n : mode = "head" /\ HeadIs(n) => HeadIs(n)'
    BY <1>0, <2>5 DEF HeadIs
  <2> QED BY <1>0, <1>1, <1>23, <2>2, <2>3, <2>4, <2>6 DEF OneInv
<1> QED BY <1>14, <1>15, <1>16, <1>17, <1>18, <1>19, <1>20, <1>21, <1>22 DEF PollInv


(* What sending the collected lines leaves as sent of a plain object. *)
Flushed(k, n, d) ==
  /\ AllFit(content[k], d, n) /\ sent'[k] = LinesOf(content[k], d, n)
  /\ mode # "head" => offset[k] = At(content[k], n)
  /\ mode = "head" => d = 0 /\ n <= Count
  /\ (kind = "one" /\ k # Target) => n = d
  /\ (kind = "one" /\ k = Target /\ mode = "tail") =>
       AllFit(content[k], 0, n) /\ (n - d = Count \/ (d = 0 /\ n < Count))

LEMMA SentByFlush ==
  ASSUME PollInv, at = "first", Send(Wanted), NEW k \in plain
  PROVE  \E n \in 0..LineCount(content[k]) : \E d \in 0..n : Flushed(k, n, d)
<1> USE DEF Size
<1> DEFINE s == content[k]
<1>1. /\ PollTypeOK /\ OffsetInv /\ PhaseInv /\ SentInv /\ BlockInv /\ OneInv
  BY DEF PollInv
<1>2. k \in Keys /\ mode \in {"whole", "tail", "head", "live"} /\ Len(s) \in Nat
      /\ Count \in Nat \ {0} /\ buffer \in Seq(Watched \X Span) /\ LineCount(s) \in Nat
  <2>1. k \in Keys /\ mode \in {"whole", "tail", "head", "live"} /\ Len(content[k]) \in Nat
        /\ Count \in Nat \ {0} /\ buffer \in Seq(Watched \X Span)
    BY <1>1, PollAssumption DEF PollTypeOK
  <2> QED BY <2>1, NewlinesListed
<1>3. Len(buffer) \in Nat
  BY <1>2
<1>4. sent'[k] = sent[k] \o SentSpans(k, Wanted)
  BY <1>2 DEF Send
<1>20. PICK u \in 0..LineCount(s) : \E e \in 0..u : SentUpTo(k, u, e)
  BY <1>1 DEF SentInv
<1>21. PICK e \in 0..u : SentUpTo(k, u, e)
  BY <1>20
<1>22. /\ AllFit(s, e, u) /\ sent[k] = LinesOf(s, e, u) /\ u \in Nat /\ e \in Nat /\ e <= u
       /\ IF Collecting THEN e = u ELSE offset[k] = At(s, u)
  BY <1>2, <1>21 DEF SentUpTo
<1>23. \A q : q \in Seq(AllLines(s)) => <<>> \o q = q /\ q \o <<>> = q
  OBVIOUS
<1> HIDE DEF s
<1>5. CASE Buffers
  <2>0. Collecting /\ mode \in {"tail", "head"}
    BY <1>5 DEF Collecting, Buffers
  <2>1. sent[k] = <<>>
    BY <1>22, <2>0, NoLines
  <2>2. PICK n \in 0..LineCount(s) : \E b \in Nat : CollectedUpTo(k, n, b)
    BY <1>1, <2>0 DEF BlockInv, s
  <2>3. PICK b \in Nat : CollectedUpTo(k, n, b)
    BY <2>2
  <2>4. /\ offset[k] = At(s, n) /\ AllFit(s, 0, n) /\ Block(s, buffer, k, b, n, 0) /\ n \in Nat
    BY <1>2, <2>3 DEF CollectedUpTo, s
  <2>5. /\ Len(buffer) \in Nat /\ b + n <= Len(buffer)
        /\ \A i \in 1..Len(buffer) : buffer[i][1] = k <=> (b < i /\ i <= b + n)
    BY <2>4 DEF Block
  <2>6. ASSUME kind = "one", k # Target PROVE n = 0
    <3> SUFFICES ASSUME n > 0 PROVE FALSE
      BY <2>4
    <3>1. b + 1 \in 1..Len(buffer) /\ b < b + 1 /\ b + 1 <= b + n
      BY <2>4, <2>5
    <3>2. buffer[b + 1][1] = k
      BY <2>5, <3>1
    <3> QED BY <1>1, <2>6, <3>1, <3>2 DEF OneInv
  <2>7. ASSUME kind = "one", k = Target PROVE b = 0 /\ n = Len(buffer)
    <3>1. \A i \in 1..Len(buffer) : b < i /\ i <= b + n
      BY <1>1, <2>5, <2>7 DEF OneInv
    <3>2. CASE Len(buffer) = 0
      BY <2>4, <2>5, <3>2
    <3>3. CASE Len(buffer) # 0
      <4>1. 1 \in 1..Len(buffer) /\ Len(buffer) \in 1..Len(buffer)
        BY <2>5, <3>3
      <4>2. b < 1 /\ Len(buffer) <= b + n
        BY <3>1, <4>1
      <4> QED BY <2>4, <2>5, <4>2
    <3> QED BY <3>2, <3>3
  <2> DEFINE S == Watched \X Span
  <2>10. buffer \in Seq(S)
    BY <1>2
  <2> HIDE DEF S
  <2>8. CASE mode = "tail"
    <3>1. PICK d \in 0..n, a \in Nat :
             /\ Block(s, LastOnes(buffer, Count), k, a, n - d, d)
             /\ (b = 0 /\ n = Len(buffer)) => n - d = Count \/ (d = 0 /\ n < Count)
      BY <1>2, <2>4, <2>10, BlockOfLast
    <3>2. Wanted = LastOnes(buffer, Count)
      BY <2>8 DEF Wanted
    <3>3. d + (n - d) = n /\ d \in Nat /\ d <= n
      BY <2>4
    <3>4. SentSpans(k, Wanted) = LinesOf(s, d, d + (n - d))
      BY <3>1, <3>2, BlockSpans
    <3>5. LinesOf(s, d, n) \in Seq(AllLines(s))
      BY <2>4, <3>3, LinesOfFacts DEF LinesAre
    <3>6. sent'[k] = LinesOf(s, d, n)
      <4>1. sent'[k] = <<>> \o LinesOf(s, d, n)
        BY <1>4, <2>1, <3>3, <3>4
      <4> QED BY <1>23, <3>5, <4>1
    <3>7. AllFit(s, d, n)
      <4>1. \A j \in (d + 1)..n : j \in (0 + 1)..n
        BY <3>3
      <4> QED BY <2>4, <4>1 DEF AllFit
    <3>8. (kind = "one" /\ k # Target) => n = d
      BY <2>6, <3>3
    <3>9. Flushed(k, n, d)
      BY <2>4, <2>7, <2>8, <3>1, <3>6, <3>7, <3>8 DEF Flushed, s
    <3> QED BY <3>9 DEF s
  <2>9. CASE mode = "head"
    <3>1. PICK m \in 0..n, a \in Nat : Block(s, FirstOnes(buffer, Count), k, a, m, 0) /\ m <= Count
      BY <1>2, <2>4, <2>10, BlockOfFirst
    <3>2. Wanted = FirstOnes(buffer, Count)
      BY <2>9 DEF Wanted
    <3>3. SentSpans(k, Wanted) = LinesOf(s, 0, 0 + m)
      BY <3>1, <3>2, BlockSpans
    <3>4. 0 + m = m /\ m \in Nat /\ m <= n /\ 0 \in 0..m /\ m \in 0..LineCount(s)
      BY <1>2, <2>4
    <3>5. LinesOf(s, 0, m) \in Seq(AllLines(s))
      BY <3>4, LinesFromStart
    <3>6. sent'[k] = LinesOf(s, 0, m)
      <4>1. sent'[k] = <<>> \o LinesOf(s, 0, m)
        BY <1>4, <2>1, <3>3, <3>4
      <4> QED BY <1>23, <3>5, <4>1
    <3>7. AllFit(s, 0, m)
      <4>1. \A j \in (0 + 1)..m : j \in (0 + 1)..n
        BY <2>4, <3>4
      <4> QED BY <2>4, <4>1 DEF AllFit
    <3>8. (kind = "one" /\ k # Target) => m = 0
      BY <2>6, <3>4
    <3>9. Flushed(k, m, 0)
      BY <2>9, <3>1, <3>6, <3>7, <3>8 DEF Flushed, s
    <3> QED BY <3>4, <3>9 DEF s
  <2> QED BY <2>0, <2>8, <2>9
<1>6. CASE ~Buffers
  <2>0. ~Collecting /\ mode \notin {"tail", "head"}
    BY <1>6 DEF Collecting, Buffers
  <2>1. buffer = <<>> /\ Wanted = buffer
    BY <1>1, <2>0 DEF PhaseInv, Wanted
  <2>2. SentSpans(k, Wanted) = LinesOf(s, 0, 0 + 0)
    <3>1. \A i \in 1..Len(buffer) : FALSE
      BY <2>1
    <3>2. Block(s, buffer, k, 0, 0, 0)
      BY <1>3, <3>1, NoBlock
    <3> QED BY <2>1, <3>2, BlockSpans
  <2>3. SentSpans(k, Wanted) = <<>>
    BY <2>2, NoLines
  <2>4. LinesAre(s, e, u)
    BY <1>22, LinesOfFacts
  <2>5. LinesOf(s, e, u) \in Seq(AllLines(s)) /\ Len(LinesOf(s, e, u)) = u - e
    BY <2>4 DEF LinesAre
  <2>6. sent'[k] = LinesOf(s, e, u)
    <3>1. sent'[k] = LinesOf(s, e, u) \o <<>>
      BY <1>4, <1>22, <2>3
    <3> QED BY <1>23, <2>5, <3>1
  <2>7. (kind = "one" /\ k # Target) => u = e
    <3> SUFFICES ASSUME kind = "one", k # Target PROVE u = e
      OBVIOUS
    <3>1. sent[k] = <<>>
      BY <1>1, <1>2 DEF OneInv
    <3>2. Len(sent[k]) = 0
      BY <3>1
    <3>3. u - e = 0
      BY <1>22, <2>5, <3>2
    <3> QED BY <1>22, <3>3
  <2>8. Flushed(k, u, e)
    BY <1>22, <2>0, <2>6, <2>7 DEF Flushed, s
  <2> QED BY <2>8 DEF s
<1> QED BY <1>5, <1>6

LEMMA FlushInv ==
  ASSUME PollInv, Flush
  PROVE  PollInv'
<1> USE DEF Size
<1>0. /\ content' = content /\ stamp' = stamp /\ kind' = kind /\ mode' = mode /\ before' = before
      /\ at = "first" /\ todo = <<>> /\ todo' = todo /\ Send(Wanted) /\ buffer' = <<>>
      /\ at' = IF mode = "head" THEN "ended" ELSE IF kind = "one" THEN "mark" ELSE "follow"
      /\ tracked' = tracked /\ seen' = seen /\ offset' = offset /\ missed' = missed
      /\ changes' = changes /\ failures' = failures /\ plain' = plain
  BY DEF store, setup, Flush, Goto
<1>1. /\ PollTypeOK /\ StoreInv /\ OffsetInv /\ PhaseInv /\ SentInv /\ NotedIsRead /\ OneInv
  BY DEF PollInv
<1>2. /\ kind \in {"all", "one"} /\ plain \subseteq Keys /\ MaxBytes \in Nat
      /\ \A k \in Keys : Len(content[k]) \in Nat /\ Len(content[k]) <= MaxBytes
      /\ \A k \in Keys : sent[k] \in Seq(Span)
      /\ buffer' \in Seq(Watched \X Span)
  BY <1>0, <1>1, PollAssumption DEF PollTypeOK
<1>3. /\ mode = "head" => kind = "one" /\ at' = "ended"
      /\ (mode # "head" /\ kind = "one") => at' = "mark" /\ mode # "live" /\ tracked = {}
      /\ (mode # "head" /\ kind = "all") => at' = "follow"
  <2>1. CASE mode = "head"
    BY <1>0, <1>1, <2>1 DEF PhaseInv
  <2>2. CASE mode # "head" /\ kind = "one"
    BY <1>0, <1>1, <2>2 DEF PhaseInv, Skips
  <2>3. CASE mode # "head" /\ kind = "all"
    BY <1>0, <2>3
  <2> QED BY <1>2, <2>1, <2>2, <2>3
<1>4. /\ at' \in {"ended", "mark", "follow"} /\ (at' = "mark" => kind = "one")
      /\ (at' # "ended" => mode # "head")
  BY <1>2, <1>3
<1>5. ~Collecting' /\ Watched' = Watched
  BY <1>0, <1>4 DEF Collecting, Watched
<1>6. \A k \in plain : \E n \in 0..LineCount(content[k]) : \E d \in 0..n : Flushed(k, n, d)
  BY <1>0, SentByFlush
<1>7. \A k \in Keys \ plain : sent'[k] = <<>>
  BY <1>0, <1>1 DEF Send, SentInv
<1>8. sent' \in [Keys -> Seq(Span)]
  <2>1. ASSUME NEW k \in Keys PROVE sent'[k] \in Seq(Span)
    <3>0. <<>> \in Seq(Span)
      OBVIOUS
    <3>1. CASE k \in plain
      <4>1. PICK n \in 0..LineCount(content[k]) : \E d \in 0..n : Flushed(k, n, d)
        BY <1>6, <3>1
      <4>2. PICK d \in 0..n : Flushed(k, n, d)
        BY <4>1
      <4>3. sent'[k] = LinesOf(content[k], d, n)
        BY <4>2 DEF Flushed
      <4> QED BY <1>2, <4>3, LinesTyped
    <3>2. CASE k \notin plain
      <4>1. sent'[k] = <<>>
        BY <1>7, <3>2
      <4> QED BY <3>0, <4>1
    <3> QED BY <3>1, <3>2
  <2>2. sent' = [k \in Keys |-> sent'[k]]
    BY <1>0 DEF Send
  <2> QED BY <2>1, <2>2
<1>9. PollTypeOK'
  <2>1. Listing' = Listing
    BY <1>5 DEF Listing
  <2>2. at' \in {"open", "first", "mark", "follow", "visit", "ended"}
    BY <1>4
  <2> QED BY <1>0, <1>1, <1>2, <1>5, <1>8, <2>1, <2>2 DEF PollTypeOK
<1>10. StoreInv' /\ OffsetInv' /\ NotedIsRead'
  BY <1>0, <1>1, StuckIs DEF StoreInv, OffsetInv, NotedIsRead
<1>11. TodoInv'
  <2>1. \A i \in 1..Len(todo') : FALSE
    BY <1>0
  <2>2. at' # "first"
    BY <1>4
  <2> QED BY <2>1, <2>2 DEF TodoInv
<1>12. PhaseInv'
  BY <1>0, <1>2, <1>3, <1>4, <1>5 DEF PhaseInv, Skips
<1>13. SentInv'
  <2> SUFFICES ASSUME NEW k \in plain
        PROVE  \E n \in 0..LineCount(content[k]) : \E d \in 0..n :
                 /\ AllFit(content[k], d, n) /\ sent'[k] = LinesOf(content[k], d, n)
                 /\ at' # "ended" => offset[k] = At(content[k], n)
    BY <1>0, <1>5, <1>7 DEF SentInv, SentUpTo
  <2>1. PICK n \in 0..LineCount(content[k]) : \E d \in 0..n : Flushed(k, n, d)
    BY <1>6
  <2>2. PICK d \in 0..n : Flushed(k, n, d)
    BY <2>1
  <2>3. /\ AllFit(content[k], d, n) /\ sent'[k] = LinesOf(content[k], d, n)
        /\ at' # "ended" => offset[k] = At(content[k], n)
    BY <1>4, <2>2 DEF Flushed
  <2> QED BY <2>3
<1>14. BlockInv'
  BY <1>5 DEF BlockInv
<1>15. OneInv'
  <2> SUFFICES ASSUME kind = "one" PROVE OneInv'
    BY <1>0 DEF OneInv
  <2>1. ASSUME NEW k \in Keys \ {Target} PROVE offset'[k] = 0 /\ sent'[k] = <<>>
    <3>1. offset'[k] = 0
      BY <1>0, <1>1 DEF OneInv
    <3>2. CASE k \in plain
      <4>1. PICK n \in 0..LineCount(content[k]) : \E d \in 0..n : Flushed(k, n, d)
        BY <1>6, <3>2
      <4>2. PICK d \in 0..n : Flushed(k, n, d)
        BY <4>1
      <4>3. sent'[k] = LinesOf(content[k], d, n) /\ n = d
        BY <2>1, <4>2 DEF Flushed
      <4>4. n \in Nat
        BY <1>2, NewlinesListed
      <4> QED BY <3>1, <4>3, <4>4, NoLines
    <3>3. CASE k \notin plain
      BY <1>7, <3>1, <3>3
    <3> QED BY <3>2, <3>3
  <2>2. \A i \in 1..Len(buffer') : buffer'[i][1] = Target
    <3>1. \A i \in 1..Len(buffer') : FALSE
      BY <1>0
    <3> QED BY <3>1
  <2>3. ASSUME Target \in plain, mode = "head"
        PROVE  \E n \in 0..Count : HeadIs(n)'
    <3> DEFINE s == content[Target]
    <3>1. PICK n \in 0..LineCount(s) : \E d \in 0..n : Flushed(Target, n, d)
      BY <1>6, <2>3
    <3>2. PICK d \in 0..n : Flushed(Target, n, d)
      BY <3>1
    <3>3. d = 0 /\ n <= Count /\ AllFit(s, d, n) /\ sent'[Target] = LinesOf(s, d, n)
      BY <2>3, <3>2 DEF Flushed
    <3>4. n \in 0..Count /\ n <= LineCount(s)
      <4>1. LineCount(s) \in Nat
        BY <1>2, <2>3, NewlinesListed
      <4> HIDE DEF s
      <4> QED BY <3>3, <4>1, PollAssumption
    <3>5. HeadIs(n)'
      BY <1>0, <3>3, <3>4 DEF HeadIs
    <3> QED BY <3>4, <3>5
  <2>4. ASSUME Target \in plain, mode = "tail"
        PROVE  \E n \in 0..LineCount(content[Target]) : \E d \in 0..n : TailIs(n, d)'
    <3>1. PICK n \in 0..LineCount(content[Target]) : \E d \in 0..n : Flushed(Target, n, d)
      BY <1>6, <2>4
    <3>2. PICK d \in 0..n : Flushed(Target, n, d)
      BY <3>1
    <3>3. /\ AllFit(content[Target], 0, n) /\ offset[Target] = At(content[Target], n)
          /\ sent'[Target] = LinesOf(content[Target], d, n)
          /\ (n - d = Count \/ (d = 0 /\ n < Count))
      BY <2>4, <3>2 DEF Flushed
    <3>4. TailIs(n, d)'
      BY <1>0, <3>3 DEF TailIs
    <3> QED BY <3>4
  <2>5. mode # "live"
    BY <1>3
  <2> QED BY <1>0, <2>1, <2>2, <2>3, <2>4, <2>5 DEF OneInv
<1> QED BY <1>9, <1>10, <1>11, <1>12, <1>13, <1>14, <1>15 DEF PollInv

-----------------------------------------------------------------------------

LEMMA PollStep == PollInv /\ [PollNext]_pollVars => PollInv'
<1> SUFFICES ASSUME PollInv, [PollNext]_pollVars PROVE PollInv'
  OBVIOUS
<1>1. CASE Work
  <2>1. CASE OpenOne
    BY <2>1, OpenOneInv
  <2>2. CASE \E p \in 0..MaxBytes : FirstRead(p) \/ Read(p)
    BY <2>2, FirstReadInv, ReadInv
  <2>3. CASE FirstReadFails
    BY <2>3, FirstReadFailsInv
  <2>4. CASE Flush
    BY <2>4, FlushInv
  <2>5. CASE \E ok \in BOOLEAN : OpenAll(ok) \/ OpenAtEnd(ok) \/ Mark(ok)
    BY <2>5, OpenAllInv, OpenAtEndInv, MarkInv
  <2>6. CASE Poll \/ Pass \/ Rest
    BY <2>6, QuietInv
  <2>7. CASE ReadFails
    BY <2>7, ReadFailsInv
  <2> QED BY <1>1, <2>1, <2>2, <2>3, <2>4, <2>5, <2>6, <2>7 DEF Work
<1>2. CASE PollFails
  BY <1>2, QuietInv
<1>3. CASE \E k \in Keys : Replace(k) \/ \E piece \in Pieces : Grow(k, piece)
  BY <1>3, GrowInv, ReplaceInv
<1>4. CASE EndStream
  BY <1>4, EndStreamInv
<1>5. CASE UNCHANGED pollVars
  <2>1. /\ content' = content /\ stamp' = stamp /\ kind' = kind /\ mode' = mode /\ before' = before
        /\ at' = at /\ todo' = todo /\ tracked' = tracked /\ seen' = seen /\ offset' = offset
        /\ buffer' = buffer /\ sent' = sent /\ changes' = changes /\ failures' = failures
        /\ plain' = plain /\ missed' = missed
    BY <1>5 DEF pollVars, store, setup, reader
  <2>2. PollTypeOK' /\ StoreInv'
    BY <2>1 DEF PollInv, PollTypeOK, StoreInv, Watched, Listing, Size
  <2>3. OffsetInv' /\ TodoInv' /\ NotedIsRead'
    BY <2>1, StuckIs DEF PollInv, OffsetInv, TodoInv, NotedIsRead, Size
  <2>4. Collecting' = Collecting /\ Skips' = Skips
    BY <2>1 DEF Collecting, Buffers, Skips
  <2>5. PhaseInv'
    BY <2>1, <2>4 DEF PollInv, PhaseInv
  <2>6. SentInv'
    BY <2>1, <2>4 DEF PollInv, SentInv, SentUpTo
  <2>7. BlockInv'
    BY <2>1, <2>4 DEF PollInv, BlockInv, CollectedUpTo
  <2>8. OneInv'
    BY <2>1 DEF PollInv, OneInv, HeadIs, TailIs
  <2> QED BY <2>2, <2>3, <2>5, <2>6, <2>7, <2>8 DEF PollInv
<1> QED BY <1>1, <1>2, <1>3, <1>4, <1>5 DEF PollNext

LEMMA PollInvariant == PollSpec => []PollInv
  BY PollInit_Inv, PollStep, PTL DEF PollSpec

(* The lines q begin after a newline, or the object, end before one and fit *)
(* the scanner's buffer; and each comes right after the one before it.      *)
WholeIn(s, q) ==
  /\ \A i \in 1..Len(q) : /\ s[q[i][2] + 1] = "n" /\ q[i][2] - q[i][1] < MaxLine
                          /\ q[i][1] = 1 \/ s[q[i][1] - 1] = "n"
  /\ \A i \in 1..(Len(q) - 1) : q[i + 1][1] = q[i][2] + 2

LEMMA SentLinesWhole ==
  ASSUME NEW s, Len(s) \in Nat, NEW n \in 0..LineCount(s), NEW d \in 0..n, AllFit(s, d, n),
         NEW q, q = LinesOf(s, d, n)
  PROVE  WholeIn(s, q)
<1>1. /\ n \in Nat /\ d \in Nat /\ d <= n /\ n <= LineCount(s) /\ LineCount(s) \in Nat
      /\ MaxLine \in Int
  BY NewlinesListed, PollAssumption
<1>2. LinesAre(s, d, n)
  BY <1>1, LinesOfFacts
<1>3. /\ Len(q) = n - d
      /\ \A i \in 1..(n - d) : q[i][1] = At(s, (d + i) - 1) + 1 /\ q[i][2] = At(s, d + i) - 1
  BY <1>2 DEF LinesAre
<1>4. ASSUME NEW i \in 1..(n - d)
      PROVE  /\ d + i \in 1..LineCount(s) /\ d + i \in (d + 1)..n
             /\ (d + i) - 1 \in 0..LineCount(s) /\ d + i \in 0..LineCount(s) /\ d + i # 0
  BY <1>1
<1>5. \A j \in 0..LineCount(s) : At(s, j) \in Int /\ (j # 0 => s[At(s, j)] = "n")
  BY PlaceFacts
<1>6. At(s, 0) = 0
  BY DEF At
<1>7. ASSUME NEW i \in 1..Len(q)
      PROVE  /\ s[q[i][2] + 1] = "n" /\ q[i][2] - q[i][1] < MaxLine
             /\ q[i][1] = 1 \/ s[q[i][1] - 1] = "n"
  <2> DEFINE j == d + i
             a == At(s, j - 1)
             b == At(s, j)
  <2>1. i \in 1..(n - d)
    BY <1>3
  <2>2. /\ j - 1 \in 0..LineCount(s) /\ j \in 0..LineCount(s) /\ j # 0 /\ j \in (d + 1)..n
        /\ q[i][1] = a + 1 /\ q[i][2] = b - 1
    BY <1>3, <1>4, <2>1
  <2> HIDE DEF j
  <2>3. a \in Int /\ b \in Int /\ s[b] = "n"
    BY <1>5, <2>2
  <2>4. j - 1 = 0 => a = 0
    BY <1>6
  <2>5. j - 1 # 0 => s[a] = "n"
    BY <1>5, <2>2
  <2>6. b - a - 1 <= MaxLine
    BY <2>2 DEF AllFit, Fits
  <2> HIDE DEF a, b
  <2>7. q[i][2] + 1 = b /\ q[i][1] - 1 = a /\ q[i][2] - q[i][1] < MaxLine /\ (a = 0 => q[i][1] = 1)
    BY <1>1, <2>2, <2>3, <2>6
  <2> QED BY <2>3, <2>4, <2>5, <2>7
<1>8. ASSUME NEW i \in 1..(Len(q) - 1) PROVE q[i + 1][1] = q[i][2] + 2
  <2>1. i \in 1..(n - d) /\ i + 1 \in 1..(n - d) /\ (d + (i + 1)) - 1 = d + i
    BY <1>1, <1>3
  <2> DEFINE b == At(s, d + i)
  <2>2. q[i + 1][1] = b + 1 /\ q[i][2] = b - 1
    BY <1>3, <2>1
  <2>3. b \in Int
    BY <1>4, <1>5, <2>1
  <2> HIDE DEF b
  <2> QED BY <2>2, <2>3
<1> QED BY <1>7, <1>8 DEF WholeIn

LEMMA InvShowsWholeLines == PollInv => WholeLinesOnce
<1> USE DEF Size
<1> SUFFICES ASSUME PollInv, NEW k \in plain
    PROVE  /\ \A i \in 1..Len(sent[k]) :
                /\ content[k][sent[k][i][2] + 1] = "n" /\ sent[k][i][2] - sent[k][i][1] < MaxLine
                /\ sent[k][i][1] = 1 \/ content[k][sent[k][i][1] - 1] = "n"
           /\ \A i \in 1..(Len(sent[k]) - 1) : sent[k][i + 1][1] = sent[k][i][2] + 2
  BY DEF WholeLinesOnce
<1> DEFINE s == content[k]
           q == sent[k]
<1>1. Len(s) \in Nat
  BY DEF PollInv, PollTypeOK
<1>2. PICK n \in 0..LineCount(s) : \E d \in 0..n : SentUpTo(k, n, d)
  BY DEF PollInv, SentInv
<1>3. PICK d \in 0..n : SentUpTo(k, n, d)
  BY <1>2
<1>4. AllFit(s, d, n) /\ q = LinesOf(s, d, n)
  BY <1>3 DEF SentUpTo
<1> HIDE DEF s, q
<1>5. WholeIn(s, q)
  BY <1>1, <1>4, SentLinesWhole
<1> QED BY <1>5 DEF s, q, WholeIn

(* The lines of a whole object, up to the first that does not fit, and     *)
(* those of a part of it that ends at a newline.                           *)
LEMMA LinesOfWhole ==
  ASSUME NEW s \in Seq({"c", "r", "n"}), Regular(s), NEW n \in 0..LineCount(s), AllFit(s, 0, n)
  PROVE  \E x \in Nat : n <= x /\ Lines(s, 0) = LinesOf(s, 0, x)
<1> DEFINE m == LineCount(s)
<1>1. Len(s) \in Nat /\ m \in Nat /\ 0 \in 0..m /\ At(s, 0) = 0 /\ Breaks(s, m)
  <2>1. Len(s) \in Nat
    OBVIOUS
  <2> QED BY <2>1, AtStart, BreaksOf
<1> HIDE DEF m
<1>2. Len(s) \in At(s, 0)..Len(s) /\ ~(Len(s) < Len(s)) /\ Len(s) <= Len(s)
  BY <1>1
<1>3. PICK x \in 0..m : Reaches(s, s, m, 0, x)
  BY <1>1, <1>2, EndsOfRead
<1>4. Lines(s, 0) = LinesOf(s, 0, x)
  BY <1>1, <1>2, <1>3, LinesOfRead
<1>5. x \in Nat /\ n \in Nat /\ n <= m /\ (x = m \/ ~Fits(s, x + 1))
  BY <1>1, <1>3 DEF Reaches, m
<1>6. n <= x
  <2> SUFFICES ASSUME x < n PROVE FALSE
    BY <1>5
  <2>1. x # m /\ x + 1 \in (0 + 1)..n
    BY <1>1, <1>5
  <2> QED BY <1>5, <2>1 DEF AllFit
<1> QED BY <1>4, <1>5, <1>6

LEMMA LinesOfPart ==
  ASSUME NEW s \in Seq({"c", "r", "n"}), Regular(s), NEW n \in 0..LineCount(s), AllFit(s, 0, n)
  PROVE  Lines(SubSeq(s, 1, At(s, n)), 0) = LinesOf(s, 0, n)
<1> DEFINE m == LineCount(s)
           p == At(s, n)
           t == SubSeq(s, 1, p)
<1>1. Len(s) \in Nat /\ m \in Nat /\ 0 \in 0..m /\ At(s, 0) = 0 /\ Breaks(s, m) /\ n \in 0..m
  <2>1. Len(s) \in Nat
    OBVIOUS
  <2> QED BY <2>1, AtStart, BreaksOf
<1>2. p \in 0..Len(s) /\ n \in Nat /\ n <= m /\ (n # 0 => s[p] = "n")
  BY <1>1, PlaceFacts
<1>3. n = 0 => p = 0
  BY <1>1
<1>4. \A i, j \in 0..m : i < j => At(s, i) < At(s, j)
  BY <1>1 DEF Breaks
<1> HIDE DEF m, p
<1>5. Len(t) = p /\ \A i \in 1..p : t[i] = s[i]
  BY <1>1, <1>2
<1> HIDE DEF t
<1>6. p \notin LineEnds(t, 0) \/ s[p] = "n"
  <2>1. p \in LineEnds(t, 0) => p # 0
    BY <1>2 DEF LineEnds
  <2> QED BY <1>2, <1>3, <2>1
<1>7. p \in At(s, 0)..Len(s)
  BY <1>1, <1>2
<1>8. PICK x \in 0..m : Reaches(s, t, m, 0, x)
  BY <1>1, <1>5, <1>6, <1>7, EndsOfRead
<1>9. x \in Nat /\ x <= m
  BY <1>1
<1>10. ASSUME n < x PROVE FALSE
  <2>1. x \in (0 + 1)..x
    BY <1>2, <1>9, <1>10
  <2>2. At(s, x) \in LineEnds(t, 0)
    BY <1>1, <1>8, <2>1 DEF Reaches
  <2>3. At(s, x) <= p
    BY <1>2, <1>5, <2>2 DEF LineEnds
  <2>4. p < At(s, x)
    BY <1>1, <1>4, <1>10 DEF p
  <2>5. At(s, x) \in Int
    BY <1>2, <1>5, <2>2 DEF LineEnds
  <2> QED BY <1>2, <2>3, <2>4, <2>5
<1>11. ASSUME x < n PROVE FALSE
  <2>1. x # m /\ x + 1 \in (0 + 1)..n /\ x + 1 \in 0..m
    BY <1>1, <1>2, <1>9, <1>11
  <2>2. At(s, x + 1) > p \/ ~Fits(s, x + 1)
    BY <1>5, <1>8, <2>1 DEF Reaches
  <2>3. Fits(s, x + 1)
    BY <2>1 DEF AllFit
  <2>4. At(s, x + 1) <= p
    <3>1. \A i, j \in 0..m : i <= j => At(s, i) <= At(s, j)
      BY <1>1, BreaksFacts
    <3>2. x + 1 <= n
      BY <1>2, <1>9, <1>11
    <3> QED BY <1>1, <2>1, <3>1, <3>2 DEF p
  <2>5. At(s, x + 1) \in Int
    BY <1>1, <2>1, BreaksFacts
  <2> QED BY <1>2, <2>2, <2>3, <2>4, <2>5
<1>12. x = n
  BY <1>2, <1>9, <1>10, <1>11
<1>13. Len(t) \in Nat /\ Len(t) <= Len(s) /\ \A i \in 1..Len(t) : t[i] = s[i]
  BY <1>1, <1>2, <1>5
<1>14. Lines(t, 0) = LinesOf(s, 0, x)
  BY <1>1, <1>8, <1>13, LinesOfRead
<1> QED BY <1>12, <1>14 DEF t, p

(* The lines of a whole object, and of what was read of it, are counted    *)
(* from its first byte: a head begins there, and a tail ends where reading *)
(* got.                                                                    *)
LEMMA InvShowsEnds == PollInv => EndsAreEnds
<1> USE DEF Size
<1> SUFFICES ASSUME PollInv, kind = "one", NEW k \in plain
    PROVE  /\ mode = "head" => /\ Len(sent[k]) <= Count
                               /\ IsPrefix(sent[k], Lines(content[k], 0))
           /\ (mode = "tail" /\ at = "mark") =>
                /\ IsSuffix(sent[k], Lines(SubSeq(content[k], 1, offset[k]), 0))
                /\ \/ Len(sent[k]) = Count
                   \/ Len(Lines(SubSeq(content[k], 1, offset[k]), 0)) < Count
           /\ (mode = "live" /\ failures = 0) =>
                \A i \in 1..Len(sent[k]) : sent[k][i][1] > before[k]
  BY DEF EndsAreEnds
<1>1. /\ k \in Keys /\ content[k] \in Seq({"c", "r", "n"}) /\ Regular(content[k])
      /\ Count \in Nat /\ Count > 0 /\ OneInv /\ OffsetInv
  BY PollAssumption DEF PollInv, PollTypeOK, StoreInv
<1> DEFINE s == content[k]
<1>2. Len(s) \in Nat /\ LineCount(s) \in Nat
  <2>1. Len(s) \in Nat
    BY <1>1
  <2> QED BY <2>1, NewlinesListed
<1>3. CASE k = Target
  <2>1. ASSUME mode = "head"
        PROVE  Len(sent[k]) <= Count /\ IsPrefix(sent[k], Lines(s, 0))
    <3>1. PICK n \in 0..Count : HeadIs(n)
      BY <1>1, <1>3, <2>1 DEF OneInv
    <3>2. n <= LineCount(s) /\ AllFit(s, 0, n) /\ sent[k] = LinesOf(s, 0, n)
      BY <1>3, <3>1 DEF HeadIs
    <3> HIDE DEF s
    <3>3. n \in Nat /\ n <= Count /\ n \in 0..LineCount(s)
      BY <1>1, <1>2, <3>2
    <3>4. PICK x \in Nat : n <= x /\ Lines(s, 0) = LinesOf(s, 0, x)
      BY <1>1, <3>2, <3>3, LinesOfWhole DEF s
    <3>5. Len(sent[k]) = n
      BY <3>2, <3>3, LinesFromStart
    <3>6. IsPrefix(LinesOf(s, 0, n), LinesOf(s, 0, x))
      BY <3>3, <3>4, FirstLines
    <3> QED BY <3>2, <3>3, <3>4, <3>5, <3>6
  <2>2. ASSUME mode = "tail", at = "mark"
        PROVE  /\ IsSuffix(sent[k], Lines(SubSeq(s, 1, offset[k]), 0))
               /\ \/ Len(sent[k]) = Count
                  \/ Len(Lines(SubSeq(s, 1, offset[k]), 0)) < Count
    <3>1. PICK n \in 0..LineCount(s) : \E d \in 0..n : TailIs(n, d)
      BY <1>1, <1>3, <2>2 DEF OneInv
    <3>2. PICK d \in 0..n : TailIs(n, d)
      BY <3>1
    <3>3. /\ AllFit(s, 0, n) /\ offset[k] = At(s, n) /\ sent[k] = LinesOf(s, d, n)
          /\ (n - d = Count \/ (d = 0 /\ n < Count))
      BY <1>3, <3>2 DEF TailIs
    <3>4. n \in Nat /\ d \in Nat /\ d <= n
      BY <1>2
    <3>5. Lines(SubSeq(s, 1, offset[k]), 0) = LinesOf(s, 0, n)
      BY <1>1, <3>3, LinesOfPart
    <3>6. IsSuffix(LinesOf(s, d, n), LinesOf(s, 0, n))
      BY <3>4, LastLines
    <3>7. Len(LinesOf(s, d, n)) = n - d /\ Len(LinesOf(s, 0, n)) = n
      BY <3>4, LinesOfFacts, LinesFromStart DEF LinesAre
    <3> QED BY <3>3, <3>5, <3>6, <3>7
  <2>3. ASSUME mode = "live", failures = 0
        PROVE  \A i \in 1..Len(sent[k]) : sent[k][i][1] > before[k]
    BY <1>1, <1>3, <2>3 DEF OneInv
  <2> QED BY <2>1, <2>2, <2>3
<1>4. CASE k # Target
  <2>1. sent[k] = <<>> /\ offset[k] = 0
    BY <1>1, <1>4 DEF OneInv
  <2>2. /\ 0 \in 0..LineCount(s) /\ At(s, 0) = 0 /\ LinesOf(s, 0, 0) = <<>> /\ AllFit(s, 0, 0)
    BY <1>2, AtStart
  <2>3. Lines(SubSeq(s, 1, offset[k]), 0) = LinesOf(s, 0, 0)
    BY <1>1, <2>1, <2>2, LinesOfPart
  <2> HIDE DEF s
  <2>4. PICK x \in Nat : 0 <= x /\ Lines(s, 0) = LinesOf(s, 0, x)
    BY <1>1, <2>2, LinesOfWhole DEF s
  <2>5. IsPrefix(LinesOf(s, 0, 0), LinesOf(s, 0, x)) /\ IsSuffix(LinesOf(s, 0, 0), LinesOf(s, 0, 0))
    BY <2>4, FirstLines, LastLines
  <2>6. /\ Len(sent[k]) = 0 /\ Len(LinesOf(s, 0, 0)) = 0 /\ 0 < Count /\ 0 <= Count
        /\ \A i \in 1..Len(sent[k]) : FALSE
    BY <1>1, <2>1, <2>2
  <2> QED BY <2>1, <2>2, <2>3, <2>4, <2>5, <2>6 DEF s
<1> QED BY <1>3, <1>4

(* Every state of a stream has the types it is written with: the listing   *)
(* that is worked off names objects that are watched, the offsets stay     *)
(* within one byte of the bound on an object's size, and what is sent and  *)
(* collected are places of an object (PollAndStream, StreamSingleObject).  *)
THEOREM PollTypeCorrect == PollSpec => []PollTypeOK
<1>1. PollInv => PollTypeOK
  BY DEF PollInv
<1> QED BY <1>1, PollInvariant, PTL

(* Of an object that only grows by whole lines, and whose reads do not break *)
(* off within one, every stream shows consecutive lines, each once, whole    *)
(* and of a size that fits the scanner's buffer, wherever its listings,      *)
(* reads and failures fall between the object's changes; what it notes of an *)
(* object never runs ahead of what it read, but for the cases NotedIsRead    *)
(* names, a line that does not fit among them; and a head, a tail and a      *)
(* stream that skips what is there show what they should (PollAndStream,     *)
(* StreamSingleObject).                                                      *)
THEOREM StreamsAlwaysShowWhole == PollSpec => []ShownWhole
<1>1. PollInv => ShownWhole
  BY InvShowsWholeLines, InvShowsEnds DEF PollInv, ShownWhole
<1> QED BY <1>1, PollInvariant, PTL
=============================================================================
