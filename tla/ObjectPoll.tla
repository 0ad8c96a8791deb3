----------------------------- MODULE ObjectPoll -----------------------------
(***************************************************************************)
(* Following log objects in cloud storage (internal/provider/cloudutil):   *)
(* PollAndStream, which follows every object of a bucket, and              *)
(* StreamSingleObject, which follows one.                                  *)
(*                                                                         *)
(* One goroutine lists the store at every tick, compares each object's     *)
(* size (and modification time) with what it saw last, and reads a changed *)
(* object from the offset it got to.  The objects change at any time,      *)
(* between a listing and the reads that follow it too, any call to the     *)
(* store may fail, and a body may break off after any of its bytes.        *)
(*                                                                         *)
(* A bufio.Scanner cuts a body into lines, and its error is never looked   *)
(* at: what is left of a body that breaks off is taken for a line, and at  *)
(* a line that does not fit its buffer the scan stops, now and whenever it *)
(* is tried again.                                                         *)
(*                                                                         *)
(* An object is a sequence of bytes: "c" any character, "r" a carriage     *)
(* return, "n" a newline.  A line that was shown is the span <<from, to>>  *)
(* of its bytes in the object.                                             *)
(***************************************************************************)
EXTENDS Integers, Sequences, FiniteSets, SequencesExt

CONSTANTS
  Keys,          \* objects
  Target,        \* the object that StreamSingleObject follows
  Zipped,        \* objects whose name ends in .gz
  Count,         \* lines asked for by a head or tail request
  MaxLine,       \* most bytes of a line, without its newline, that fit the buffer
  MaxBytes,      \* bound on the size of an object
  MaxChanges,    \* bound on the changes of objects
  MaxFailures    \* bound on the calls to the store that fail

ASSUME PollAssumption ==
  /\ IsFiniteSet(Keys) /\ Target \in Keys /\ Zipped \subseteq Keys
  /\ Count \in Nat \ {0} /\ MaxLine \in Nat \ {0}
  /\ MaxBytes \in Nat /\ MaxBytes >= 2   \* a line fits
  /\ MaxChanges \in Nat /\ MaxFailures \in Nat

VARIABLES
  \* the store
  content, stamp,   \* object -> its bytes (none: there is no such object), its LastModified
  \* the stream
  kind,             \* "all": PollAndStream, "one": StreamSingleObject
  mode,             \* "whole", "tail", "head" or "live"
  at,               \* where its goroutine is
  todo,             \* what the last listing showed and has not been looked at
  tracked,          \* objects it knows
  seen,             \* object -> the size and time it saw last
  offset,           \* object -> where it goes on reading
  buffer,           \* lines read and not sent yet: <<object, span>>
  \* bounds, and history read by the properties only:
  changes, failures,
  plain,            \* objects that only ever grew, by whole lines ended by a newline,
                    \* and none of whose reads broke off within a line
  sent,             \* object -> spans of the lines of it that were sent, if it is plain
  missed,           \* objects taken note of and not read to the end since
  before            \* object -> its size when the stream was asked for

store  == <<content, stamp>>
setup  == <<kind, mode, before>>
reader == <<tracked, seen, offset, buffer, sent>>
pollVars == <<store, setup, at, todo, reader, changes, failures, plain, missed>>

Size(k)   == Len(content[k])
Existing  == {k \in Keys : content[k] # <<>>}
Watched   == IF kind = "one" THEN {Target} ELSE Keys
Listing   == [key : Watched, size : 0..MaxBytes, stamp : 0..MaxChanges]
Span      == (1..MaxBytes) \X (0..MaxBytes)
NotSeen   == [size |-> 0, stamp |-> 0]

Whole  == <<"c", "n">>
Long   == [i \in 1..(MaxLine + 2) |-> IF i = MaxLine + 2 THEN "n" ELSE "c"]   \* does not fit
Pieces == {Whole, Long, <<"c">>, <<"r", "n">>}

PollInit ==
  /\ content \in [Keys -> {<<>>, Whole}] /\ stamp = [k \in Keys |-> 0]
  /\ kind \in {"all", "one"} /\ mode \in {"whole", "tail", "head", "live"}
  /\ kind = "all" => mode # "head"       \* no caller asks for that
  /\ at = "open"
  /\ todo = <<>> /\ buffer = <<>>
  /\ tracked = {} /\ seen = [k \in Keys |-> NotSeen]
  /\ offset = [k \in Keys |-> 0] /\ sent = [k \in Keys |-> <<>>]
  /\ before = [k \in Keys |-> Size(k)]
  /\ changes = 0 /\ failures = 0
  /\ plain = Keys \ Zipped /\ missed = {}

-----------------------------------------------------------------------------
(* Whoever writes the logs.  Two changes may bear the same time stamp. *)
Change(k, bytes) ==
  /\ changes < MaxChanges
  /\ at # "ended"
  /\ changes' = changes + 1
  /\ content' = [content EXCEPT ![k] = bytes]
  /\ stamp' \in {stamp, [stamp EXCEPT ![k] = changes + 1]}
  /\ sent' = [o \in Keys |-> IF o \in plain' THEN sent[o] ELSE <<>>]
  /\ UNCHANGED <<setup, at, todo, tracked, seen, offset, buffer, failures, missed>>

Grow(k, piece) ==
  /\ k \in Zipped => piece = Whole       \* it grows by whole members
  /\ Size(k) + Len(piece) <= MaxBytes
  /\ plain' = IF piece \in {Whole, Long} THEN plain ELSE plain \ {k}
  /\ Change(k, content[k] \o piece)

Replace(k) ==
  /\ content[k] # <<>>
  /\ plain' = plain \ {k}
  /\ \E bytes \in {<<>>, Whole} : Change(k, bytes)

-----------------------------------------------------------------------------
(* bufio.ScanLines over the bytes after an offset: a line ends at a newline or
   at the end of what is read, and a carriage return before that is cut off.
   The scan stops before the first line that does not fit. *)
InOrder(E) ==                     \* the elements of a set of integers, least first
  CHOOSE q \in [1..Cardinality(E) -> E] : \A i, j \in DOMAIN q : i < j => q[i] < q[j]

TooLong(s, o) ==                  \* bytes that more than MaxLine of their line come before
  {i \in (o + MaxLine + 1)..Len(s) : \A j \in (i - MaxLine)..i : s[j] # "n"}

LineEnds(s, o) ==
  {i \in (o + 1)..Len(s) : (s[i] = "n" \/ i = Len(s)) /\ \A j \in TooLong(s, o) : i < j}

Ends(s, o) == InOrder(LineEnds(s, o))

Lines(s, o) ==
  LET ends == Ends(s, o) IN
  [j \in 1..Len(ends) |->
     LET from == IF j = 1 THEN o + 1 ELSE ends[j - 1] + 1
         last == IF s[ends[j]] = "n" THEN ends[j] - 1 ELSE ends[j]
     IN <<from, IF last >= from /\ s[last] = "r" THEN last - 1 ELSE last>>]

(* Every line counts as its bytes and one for the newline. *)
Bytes(lines) == UNION {lines[j][1]..lines[j][2] : j \in 1..Len(lines)}

WithoutNewline(o, lines) == o + Cardinality(Bytes(lines)) \* fault: the newline is not counted

BytesRead(o, lines) == o + Cardinality(Bytes(lines)) + Len(lines)

(* GetObject, or GetObjectRange from an offset; a range that starts behind the
   end of the object is an error. *)
Readable(k) == content[k] # <<>> /\ offset[k] < Size(k)

(* A tail or head is collected before any of it is sent. *)
Buffers == mode \in {"tail", "head"}

AdvanceIfSent(k, lines) ==        \* fault: collecting lines does not move the offset
  offset' = [offset EXCEPT ![k] = IF k \in Zipped \/ (Buffers /\ at = "first")
                                  THEN @ ELSE BytesRead(@, lines)]

Advance(k, lines) ==
  offset' = [offset EXCEPT ![k] = IF k \in Zipped THEN @ ELSE BytesRead(@, lines)]

Tagged(k, lines) == [i \in 1..Len(lines) |-> <<k, lines[i]>>]

Goto(p) == at' = p
Fail == failures < MaxFailures /\ failures' = failures + 1

(* Lines are sent as they are read, or all that were collected at once. *)
SendLines(k, lines) == sent' = [sent EXCEPT ![k] = IF k \in plain' THEN @ \o lines ELSE <<>>]

SentSpans(k, batch) ==
  LET mine == InOrder({i \in 1..Len(batch) : batch[i][1] = k})
  IN [j \in 1..Len(mine) |-> batch[mine[j]][2]]

Send(batch) ==
  sent' = [k \in Keys |-> IF k \in plain THEN sent[k] \o SentSpans(k, batch) ELSE sent[k]]

FirstOnes(s, n) == IF Len(s) > n THEN SubSeq(s, 1, n) ELSE s
LastOnes(s, n) == IF Len(s) > n THEN SubSeq(s, Len(s) - n + 1, Len(s)) ELSE s

-----------------------------------------------------------------------------
(* A listing of the store: size and time of each object, in some order. *)
ListedByPrefix ==                 \* fault: names that only begin with the object's are taken too
  SetToSeq({[key |-> k, size |-> Size(k), stamp |-> stamp[k]] : k \in Existing})

Listed ==
  SetToSeq({[key |-> k, size |-> Size(k), stamp |-> stamp[k]] : k \in Existing \cap Watched})

(* The first look at the store. *)
Skips == kind = "one" /\ mode = "live"

OpenAll(ok) ==
  /\ at = "open" /\ kind = "all"
  /\ Goto("first")
  /\ IF ok THEN todo' = Listed /\ UNCHANGED failures ELSE Fail /\ UNCHANGED todo
  /\ UNCHANGED <<store, setup, reader, changes, plain, missed>>

OpenOne ==
  /\ at = "open" /\ kind = "one" /\ ~Skips
  /\ Goto("first")
  /\ todo' = <<[key |-> Target, size |-> 0, stamp |-> 0]>>
  /\ UNCHANGED <<store, setup, reader, changes, failures, plain, missed>>

(* SkipInitial: reading starts at the present end. *)
OpenAtEnd(ok) ==
  /\ at = "open" /\ Skips
  /\ Goto("mark")
  /\ IF ok THEN /\ offset' = [offset EXCEPT ![Target] = Size(Target)]
                /\ UNCHANGED failures
           ELSE Fail /\ UNCHANGED offset
  /\ UNCHANGED <<store, setup, todo, tracked, seen, buffer, sent, changes, plain, missed>>

(* What a look at an object leaves behind: PollAndStream notes the size and time
   of the listing, StreamSingleObject the size. *)
Noted(l) ==
  /\ tracked' = tracked \cup {l.key}
  /\ seen' = [seen EXCEPT ![l.key] = [size |-> l.size, stamp |-> l.stamp]]

SeenFirst(l) == IF kind = "all" THEN Noted(l) ELSE UNCHANGED <<tracked, seen>>

(* A read up to byte p of an object: all there is, unless the body breaks off
   before, at its first byte too.  lines is what the scan makes of it. *)
CutsLine(k, p) ==
  p < Size(k) /\ p \in LineEnds(SubSeq(content[k], 1, p), offset[k]) /\ content[k][p] # "n"

Reads(k, p, lines) ==
  /\ p \in offset[k]..Size(k)
  /\ IF p = Size(k) THEN missed' = missed \ {k} /\ UNCHANGED failures
                    ELSE missed' = missed \cup {k} /\ Fail
  /\ plain' = IF CutsLine(k, p) THEN plain \ {k} ELSE plain
  /\ Advance(k, lines)

(* The first read of an object. *)
FirstRead(p) ==
  LET l == Head(todo)
      k == l.key
      lines == Lines(SubSeq(content[k], 1, p), offset[k]) IN
  /\ at = "first" /\ todo # <<>>
  /\ Readable(k)
  /\ Reads(k, p, lines)
  /\ todo' = Tail(todo)
  /\ SeenFirst(l)
  /\ IF Buffers THEN /\ buffer' = buffer \o Tagged(k, lines)
                     /\ SendLines(k, <<>>)
                ELSE SendLines(k, lines) /\ UNCHANGED buffer
  /\ UNCHANGED <<store, setup, at, changes>>

FirstReadFails ==
  LET l == Head(todo) IN
  /\ at = "first" /\ todo # <<>>
  /\ ~Readable(l.key)
  /\ todo' = Tail(todo)
  /\ SeenFirst(l)
  /\ UNCHANGED <<store, setup, at, offset, buffer, sent, changes, failures, plain, missed>>

(* The lines collected are cut and sent. *)
Wanted ==
  CASE mode = "tail" -> LastOnes(buffer, Count)
    [] mode = "head" -> FirstOnes(buffer, Count)
    [] OTHER         -> buffer

Flush ==
  /\ at = "first" /\ todo = <<>>
  /\ Send(Wanted)
  /\ buffer' = <<>>
  /\ Goto(IF mode = "head" THEN "ended" ELSE IF kind = "one" THEN "mark" ELSE "follow")
  /\ UNCHANGED <<store, setup, todo, tracked, seen, offset, changes, failures, plain, missed>>

(* StreamSingleObject notes the size only now, with a listing of its own. *)
Mark(ok) ==
  LET size == IF ok THEN Size(Target) ELSE 0 IN
  /\ at = "mark"
  /\ Goto("follow")
  /\ IF ok THEN UNCHANGED failures ELSE Fail
  /\ Noted([key |-> Target, size |-> size, stamp |-> 0])
  /\ missed' = IF size > offset[Target] THEN missed \cup {Target} ELSE missed
  /\ UNCHANGED <<store, setup, todo, offset, buffer, sent, changes, plain>>

-----------------------------------------------------------------------------
(* A tick. *)
Poll ==
  /\ at = "follow" /\ todo = <<>>
  /\ todo' = Listed
  /\ Goto("visit")
  /\ UNCHANGED <<store, setup, reader, changes, failures, plain, missed>>

(* A listing fails: the next tick tries again. *)
PollFails ==
  /\ at = "follow"
  /\ Fail
  /\ UNCHANGED <<store, setup, at, todo, reader, changes, plain, missed>>

OnlyIfTracked(l) ==               \* fault: an object that appears later is not looked at
  l.key \in tracked /\ l.size > seen[l.key].size

Changed(l) ==
  \/ l.key \notin tracked
  \/ l.size > seen[l.key].size
  \/ kind = "all" /\ l.stamp > seen[l.key].stamp

Pass ==
  /\ at = "visit" /\ todo # <<>> /\ ~Changed(Head(todo))
  /\ todo' = Tail(todo)
  /\ UNCHANGED <<store, setup, at, reader, changes, failures, plain, missed>>

Read(p) ==
  LET l == Head(todo)
      k == l.key
      lines == Lines(SubSeq(content[k], 1, p), offset[k]) IN
  /\ at = "visit" /\ todo # <<>> /\ Changed(l)
  /\ Readable(k)
  /\ Reads(k, p, lines)
  /\ SendLines(k, lines)
  /\ Noted(l)
  /\ todo' = Tail(todo)
  /\ UNCHANGED <<store, setup, at, buffer, changes>>

(* There is nothing to read; the size is noted all the same. *)
ReadFails ==
  LET l == Head(todo) IN
  /\ at = "visit" /\ todo # <<>> /\ Changed(l)
  /\ ~Readable(l.key)
  /\ todo' = Tail(todo)
  /\ Noted(l)
  /\ UNCHANGED <<store, setup, at, offset, buffer, sent, changes, failures, plain, missed>>

Rest ==
  /\ at = "visit" /\ todo = <<>>
  /\ Goto("follow")
  /\ UNCHANGED <<store, setup, todo, reader, changes, failures, plain, missed>>

(* The stream's context ends, and with it what the goroutine knew. *)
EndStream ==
  /\ at # "ended"
  /\ Goto("ended")
  /\ todo' = <<>> /\ buffer' = <<>> /\ tracked' = {} /\ missed' = {}
  /\ seen' = [k \in Keys |-> NotSeen] /\ offset' = [k \in Keys |-> 0]
  /\ UNCHANGED <<store, setup, sent, changes, failures, plain>>

-----------------------------------------------------------------------------
Work ==
  \/ OpenOne \/ FirstReadFails \/ Flush
  \/ \E ok \in BOOLEAN : OpenAll(ok) \/ OpenAtEnd(ok) \/ Mark(ok)
  \/ Poll \/ Pass \/ ReadFails \/ Rest
  \/ \E p \in 0..MaxBytes : FirstRead(p) \/ Read(p)

PollNext ==
  \/ Work
  \/ PollFails
  \/ \E k \in Keys : Replace(k) \/ \E piece \in Pieces : Grow(k, piece)
  \/ EndStream

(* The ticker goes on, and the store does not fail for ever (MaxFailures). *)
PollSpec == PollInit /\ [][PollNext]_pollVars /\ WF_pollVars(Work)
-----------------------------------------------------------------------------
PollTypeOK ==
  /\ content \in [Keys -> Seq({"c", "r", "n"})]
  /\ \A k \in Keys : Size(k) <= MaxBytes
  /\ stamp \in [Keys -> 0..MaxChanges]
  /\ kind \in {"all", "one"} /\ mode \in {"whole", "tail", "head", "live"}
  /\ before \in [Keys -> 0..MaxBytes]
  /\ at \in {"open", "first", "mark", "follow", "visit", "ended"}
  /\ todo \in Seq(Listing)
  /\ tracked \subseteq Watched
  /\ seen \in [Keys -> [size : 0..MaxBytes, stamp : 0..MaxChanges]]
  /\ offset \in [Keys -> 0..(MaxBytes + 1)]
  /\ buffer \in Seq(Watched \X Span)
  /\ sent \in [Keys -> Seq(Span)]
  /\ changes \in 0..MaxChanges /\ failures \in 0..MaxFailures
  /\ plain \subseteq Keys /\ missed \subseteq Keys

(* Of an object that only grows by whole lines, a stream shows consecutive
   lines, each once, each whole and each of a size that fits the scanner's
   buffer (so none after the first that does not), however its reads, failures
   and listings fall between the object's changes (the offsets of PollAndStream
   and StreamSingleObject).  A body that breaks off within a line is excepted:
   the rest of it is lost. *)
WholeLinesOnce ==
  \A k \in plain :
    /\ \A i \in 1..Len(sent[k]) :
         LET l == sent[k][i] IN
         /\ content[k][l[2] + 1] = "n" /\ l[2] - l[1] < MaxLine
         /\ l[1] = 1 \/ content[k][l[1] - 1] = "n"
    /\ \A i \in 1..(Len(sent[k]) - 1) : sent[k][i + 1][1] = sent[k][i][2] + 2

(* The next line of an object does not fit: every read stops where it begins. *)
Stuck(k) ==
  /\ offset[k] + MaxLine + 1 <= Size(k)
  /\ \A j \in (offset[k] + 1)..(offset[k] + MaxLine + 1) : content[k][j] # "n"

(* The size noted for an object, which decides whether it is read again, never
   runs ahead of what was read of it, unless the reader is stuck, the read failed
   or broke off after the listing or, in StreamSingleObject, the object grew
   between its first read and the listing that notes its size. *)
NotedIsRead ==
  \A k \in plain \cap tracked : k \notin missed /\ ~Stuck(k) => seen[k].size <= offset[k]

(* A head is the first lines of the object and no more than asked for; a tail, by
   the time following begins, is the last lines of what was read, whatever was
   added meanwhile; and a stream that skips what is there shows nothing of it,
   unless the listing that tells it where to start has failed. *)
EndsAreEnds ==
  kind = "one" =>
    \A k \in plain :
      /\ mode = "head" => /\ Len(sent[k]) <= Count
                         /\ IsPrefix(sent[k], Lines(content[k], 0))
      /\ (mode = "tail" /\ at = "mark") =>
           LET all == Lines(SubSeq(content[k], 1, offset[k]), 0) IN
           IsSuffix(sent[k], all) /\ (Len(sent[k]) = Count \/ Len(all) < Count)
      /\ (mode = "live" /\ failures = 0) =>
           \A i \in 1..Len(sent[k]) : sent[k][i][1] > before[k]

(* What is added to a plain object, at whatever moment, is shown in the end,
   unless the stream ends, has taken note of it without reading it (see
   NotedIsRead) or is stuck at a line that does not fit: no growth falls
   between two polls. *)
Behind(k) ==
  /\ at # "ended" /\ k \in Watched \cap plain /\ offset[k] < Size(k)
  /\ k \notin missed /\ ~Stuck(k)

GrowthIsShown == \A k \in Keys : Behind(k) ~> ~Behind(k)

(* server-mode.md: the Live mode "skips all history and shows only new lines".
   handleWebSocketStream and handleResourceStream ask for it with a time only
   (Since), which PollAndStream does not look at. *)
LiveShowsOnlyNew ==
  (kind = "all" /\ mode = "live") =>
    \A k \in plain : \A i \in 1..Len(sent[k]) : sent[k][i][1] > before[k]

(* What a stream shows of an object, and what it notes of it (PollAndStream,
   StreamSingleObject). *)
ShownWhole == WholeLinesOnce /\ NotedIsRead /\ EndsAreEnds
=============================================================================
