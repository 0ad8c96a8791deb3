----------------------------- MODULE LogSource ------------------------------
(***************************************************************************)
(* Where the lines of one log view come from (web/src, useLogSource.ts):   *)
(* a WebSocket, with or without the history (useLogStream.ts), or the      *)
(* whole file over HTTP (useStaticLogFetch.ts).  Changing the mode closes  *)
(* one and opens the other; what the old one still reports comes late.     *)
(***************************************************************************)
EXTENDS Integers, Sequences, FiniteSets

CONSTANTS
  Caps,           \* sizes of the log buffer that an administrator may set
  History,        \* lines of history
  MaxLive,        \* bound on the live lines of a socket
  Chunks,         \* chunks in which a file comes
  MaxOpened,      \* bound on the sockets and fetches of a view
  NoSocket

VARIABLES
  viewMode,       \* "stream", "live" or "file"
  maxLines,       \* the app's setting
  ws,             \* the socket: [id, state, n, history, held, told, cap] or NoSocket
  closing,        \* sockets closed by the view whose close event is to come
  store,          \* the lines that are shown
  buffer,         \* lines that came since the last flush
  historyEnd,     \* where the history ends in store, -1: not known
  connected, paused,
  fileStore,      \* chunks of the file that are shown
  loading, failed,
  fetches,        \* requests of the file under way: [id, left, aborted]
  opened,         \* sockets and fetches so far
  late            \* history: the state was set by something closed or aborted

streamVars == <<ws, closing, store, buffer, historyEnd, connected, paused>>
fileVars   == <<fileStore, loading, failed, fetches>>
sourceVars == <<viewMode, maxLines, streamVars, fileVars, opened, late>>

Entry(from, kind, n) == [from |-> from, kind |-> kind, n |-> n]

-----------------------------------------------------------------------------
Socket(id, mode) ==
  [id |-> id, state |-> "connecting", n |-> 0,
   history |-> IF mode = "live" THEN 0 ELSE History,
   held |-> FALSE, told |-> FALSE, cap |-> maxLines]

SourceInit ==
  /\ viewMode = "stream" /\ maxLines \in Caps
  /\ ws = Socket(1, "stream") /\ closing = {}
  /\ store = <<>> /\ buffer = <<>> /\ historyEnd = -1
  /\ connected = FALSE /\ paused = FALSE
  /\ fileStore = 0 /\ loading = FALSE /\ failed = FALSE /\ fetches = {}
  /\ opened = 1 /\ late = FALSE

(* The page got the setting after the view was opened: the effect that     *)
(* holds the socket keeps the value it began with.                         *)
Configure(n) ==
  /\ maxLines' = n
  /\ UNCHANGED <<viewMode, streamVars, fileVars, opened, late>>

LeaveSocket ==
  IF ws # NoSocket /\ ws.state # "closed"
  THEN \E revoked \in BOOLEAN : closing' = closing \cup {[id |-> ws.id, revoked |-> revoked]}
  ELSE UNCHANGED closing
NotAborted == fetches                \* mutant: the effect is left without an abort
Aborted == {[f EXCEPT !.aborted = TRUE] : f \in fetches}

setViewMode(mode) ==
  /\ mode # viewMode /\ opened < MaxOpened
  /\ viewMode' = mode /\ opened' = opened + 1 /\ late' = FALSE
  /\ LeaveSocket
  /\ connected' = FALSE /\ buffer' = <<>>
  /\ IF mode = "file"
     THEN /\ ws' = NoSocket
          /\ fetches' = Aborted \cup {[id |-> opened', left |-> Chunks, aborted |-> FALSE]}
          /\ loading' = TRUE /\ failed' = FALSE
          /\ UNCHANGED <<store, historyEnd>>
     ELSE /\ ws' = Socket(opened', mode)
          /\ store' = <<>> /\ historyEnd' = -1
          /\ fetches' = Aborted
          /\ UNCHANGED <<loading, failed>>
  /\ fileStore' = 0
  /\ UNCHANGED <<maxLines, paused>>

-----------------------------------------------------------------------------
(* The socket. *)
Stay == UNCHANGED <<viewMode, maxLines, fileVars, opened>>

onopen ==
  /\ ws # NoSocket /\ ws.state = "connecting"
  /\ ws' = [ws EXCEPT !.state = "open"]
  /\ connected' = TRUE /\ late' = FALSE
  /\ Stay /\ UNCHANGED <<closing, store, buffer, historyEnd, paused>>

Live == ws # NoSocket /\ ws.state = "open"

onmessage ==
  /\ Live /\ ws.n # ws.history
  /\ ws.n > ws.history => ws.n <= ws.history + MaxLive /\ ~ws.held
  /\ ws' = [ws EXCEPT !.n = @ + 1]
  /\ buffer' = Append(buffer,
       Entry(ws.id, IF ws.n < ws.history THEN "history" ELSE "live", ws.n))
  /\ Stay /\ UNCHANGED <<closing, store, historyEnd, connected, paused, late>>

onhistoryend ==
  /\ Live /\ ws.n = ws.history
  /\ ws' = [ws EXCEPT !.n = @ + 1]
  /\ store' = store \o buffer /\ buffer' = <<>>
  /\ historyEnd' = Len(store')
  /\ Stay /\ UNCHANGED <<closing, connected, paused, late>>

(* A socket that the server closes, or that never opened.  A revocation    *)
(* leaves a line that says so.                                             *)
onclose ==
  /\ ws # NoSocket /\ ws.state # "closed"
  /\ ws' = [ws EXCEPT !.state = "closed"]
  /\ connected' = FALSE
  /\ \/ UNCHANGED buffer
     \/ buffer' = Append(buffer, Entry(ws.id, "revoked", ws.n))
  /\ Stay /\ UNCHANGED <<closing, store, historyEnd, paused, late>>

(* The same handler, called by a socket the view has left. *)
oncloseLate(c) ==
  /\ closing' = closing \ {c}
  /\ connected' = FALSE /\ late' = TRUE
  /\ buffer' = IF c.revoked THEN Append(buffer, Entry(c.id, "revoked", 0)) ELSE buffer
  /\ Stay /\ UNCHANGED <<ws, store, historyEnd, paused>>

TrimmedNewest(lines, n) == SubSeq(lines, 1, Len(lines) - n)   \* mutant: the newest go
Trimmed(lines, n) == SubSeq(lines, n + 1, Len(lines))
MovedLoose(n)     == historyEnd                          \* mutant: the mark stays
Moved(n) == IF historyEnd <= 0 THEN historyEnd ELSE IF n > historyEnd THEN 0 ELSE historyEnd - n

flush ==
  /\ ws # NoSocket /\ buffer # <<>>
  /\ buffer' = <<>>
  /\ LET all == store \o buffer
         n   == IF Len(all) > 2 * ws.cap THEN Len(all) - ws.cap ELSE 0
     IN  store' = Trimmed(all, n) /\ historyEnd' = Moved(n)
  /\ Stay /\ UNCHANGED <<ws, closing, connected, paused, late>>

togglePause ==
  /\ viewMode # "file"
  /\ paused' = ~paused
  /\ ws' = IF ws.state = "open" THEN [ws EXCEPT !.held = ~paused, !.told = TRUE] ELSE ws
  /\ Stay /\ UNCHANGED <<closing, store, buffer, historyEnd, connected, late>>

clear ==
  /\ IF viewMode = "file"
     THEN fileStore' = -1 /\ UNCHANGED <<store, historyEnd>>
     ELSE store' = <<>> /\ historyEnd' = -1 /\ UNCHANGED fileStore
  /\ UNCHANGED <<viewMode, maxLines, ws, closing, buffer, connected, paused,
                 loading, failed, fetches, opened, late>>

-----------------------------------------------------------------------------
(* The file.  An aborted request ends without a word, unless its last      *)
(* chunk was there already.                                                *)
Reads(f) == UNCHANGED <<viewMode, maxLines, streamVars, opened>>

ReadChunk(f) ==
  /\ f.left > 0 /\ ~f.aborted
  /\ fetches' = (fetches \ {f}) \cup {[f EXCEPT !.left = @ - 1]}
  /\ fileStore' = IF fileStore = -1 THEN -1 ELSE fileStore + 1
  /\ Reads(f) /\ UNCHANGED <<loading, failed, late>>

EndFetch(f) ==
  /\ f.left = 0
  /\ fetches' = fetches \ {f}
  /\ loading' = FALSE /\ late' = (late \/ f.aborted)
  /\ Reads(f) /\ UNCHANGED <<fileStore, failed>>

FailFetch(f) ==
  /\ fetches' = fetches \ {f}
  /\ IF f.aborted THEN UNCHANGED <<loading, failed>> ELSE loading' = FALSE /\ failed' = TRUE
  /\ Reads(f) /\ UNCHANGED <<fileStore, late>>

SourceNext ==
  \/ \E n \in Caps : Configure(n)
  \/ \E mode \in {"stream", "live", "file"} : setViewMode(mode)
  \/ onopen \/ onmessage \/ onhistoryend \/ onclose \/ flush \/ togglePause \/ clear
  \/ \E c \in closing : oncloseLate(c)
  \/ \E f \in fetches : ReadChunk(f) \/ EndFetch(f) \/ FailFetch(f)

-----------------------------------------------------------------------------
(* useLogStream shows a tail of what its sockets deliver. *)
Promised == INSTANCE LogTail WITH
  shown <- store, coming <- buffer,
  Line <- [from : 1..MaxOpened, kind : {"history", "live", "revoked"}, n : 0..History + MaxLive + 1],
  Fewest <- CHOOSE least \in Caps : \A n \in Caps : least <= n
ShowsATail == Promised!TailSpec

(* assignLineNumbers, in relative mode: a line's number. *)
LineNumber(i) == IF historyEnd <= 0 THEN i ELSE i - historyEnd

(* "Line numbers relative to live start": whatever was trimmed since, and  *)
(* in whatever order lines, flushes and the end of the history came, the   *)
(* lines numbered from 1 on are those that are not history.                *)
NumbersStartLive ==
  historyEnd >= 0 => \A i \in 1..Len(store) : store[i].kind # "revoked" =>
                       ((LineNumber(i) >= 1) <=> (store[i].kind = "live"))

(* The status of the view is the socket's: connected while it is open, and *)
(* paused when the server was told so, unless a socket closed before       *)
(* reported in between, or the pause is older than the connection; and a   *)
(* file that is not loading and did not fail is there in full.             *)
StatusIsTrue ==
  /\ viewMode # "file" /\ ~late => connected = (ws.state = "open")
  /\ viewMode # "file" /\ ws.state = "open" /\ ws.told => ws.held = paused
  /\ viewMode = "file" /\ ~late /\ ~loading /\ ~failed => fileStore \in {-1, Chunks}
=============================================================================
