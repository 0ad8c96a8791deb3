----------------------------- MODULE MergedLog ------------------------------
(***************************************************************************)
(* Several services in one stream of lines (web/src, MergedLogPanel.tsx).  *)
(* The effect that opens the sockets runs anew whenever the set of         *)
(* sessions changes: it closes them all and opens one for each session.    *)
(***************************************************************************)
EXTENDS Integers, Sequences, FiniteSets

CONSTANTS
  Sessions,
  Cap,            \* maxLines
  History,        \* lines of history of each session
  MaxLive,        \* bound on the live lines of a connection
  MaxEffects      \* bound on the runs of the effect

VARIABLES
  sessions,       \* the sessions that are merged
  sockets,        \* session -> [state, n, held]
  store, buffer,
  historyEnd,     \* where the histories end in store, -1: not known
  historyDone,    \* sessions whose history has ended
  openCount,      \* what the panel shows
  paused,
  effects

mergedVars == <<sessions, sockets, store, buffer, historyEnd, historyDone, openCount, paused, effects>>

Socket == [state |-> "connecting", n |-> 0, held |-> FALSE]

MergedInit ==
  /\ sessions \in SUBSET Sessions \ {{}}
  /\ sockets = [s \in sessions |-> Socket]
  /\ store = <<>> /\ buffer = <<>> /\ historyEnd = -1 /\ historyDone = {}
  /\ openCount = 0 /\ paused = FALSE /\ effects = 1

(* The store is not emptied: what the former connections brought stays. *)
Reconnect(ids) ==
  /\ effects < MaxEffects /\ effects' = effects + 1
  /\ sessions' = ids
  /\ sockets' = [s \in ids |-> Socket]
  /\ buffer' = <<>> /\ historyEnd' = -1 /\ historyDone' = {} /\ openCount' = 0
  /\ UNCHANGED <<store, paused>>

AddSession(s)      == s \notin sessions /\ Reconnect(sessions \cup {s})
onRemoveSession(s) == sessions # {s} /\ s \in sessions /\ Reconnect(sessions \ {s})

countOpen(sock) == Cardinality({s \in DOMAIN sock : sock[s].state = "open"})

onopen(s) ==
  /\ sockets[s].state = "connecting"
  /\ sockets' = [sockets EXCEPT ![s].state = "open"]
  /\ openCount' = countOpen(sockets')
  /\ UNCHANGED <<sessions, store, buffer, historyEnd, historyDone, paused, effects>>

onclose(s) ==
  /\ sockets[s].state # "closed"
  /\ sockets' = [sockets EXCEPT ![s].state = "closed"]
  /\ openCount' = countOpen(sockets')
  /\ \/ UNCHANGED buffer
     \/ buffer' = Append(buffer, [of |-> s, at |-> effects, kind |-> "revoked", n |-> sockets[s].n])
  /\ UNCHANGED <<sessions, store, historyEnd, historyDone, paused, effects>>

Sends(s) ==
  /\ sockets[s].state = "open"
  /\ sockets' = [sockets EXCEPT ![s].n = @ + 1]

onmessage(s) ==
  /\ sockets[s].n # History
  /\ sockets[s].n > History => sockets[s].n <= History + MaxLive /\ ~sockets[s].held
  /\ Sends(s)
  /\ buffer' = Append(buffer, [of |-> s, at |-> effects, n |-> sockets[s].n,
                               kind |-> IF sockets[s].n < History THEN "history" ELSE "live"])
  /\ UNCHANGED <<sessions, store, historyEnd, historyDone, openCount, paused, effects>>

AnyDone(done)  == TRUE                                     \* mutant: the first one decides
AllDone(done)  == Cardinality(done) >= Cardinality(sessions)

onhistoryend(s) ==
  /\ sockets[s].n = History
  /\ Sends(s)
  /\ historyDone' = historyDone \cup {s}
  /\ IF AllDone(historyDone') /\ historyEnd = -1
     THEN store' = store \o buffer /\ buffer' = <<>> /\ historyEnd' = Len(store')
     ELSE UNCHANGED <<store, buffer, historyEnd>>
  /\ UNCHANGED <<sessions, openCount, paused, effects>>

FewerByOne(lines) ==                                     \* mutant: one line too many goes
  IF Len(lines) > 2 * Cap THEN Len(lines) - Cap + 1 ELSE 0
Fewer(lines) == IF Len(lines) > 2 * Cap THEN Len(lines) - Cap ELSE 0

flush ==
  /\ buffer # <<>> /\ buffer' = <<>>
  /\ LET all == store \o buffer
         n   == Fewer(all)
     IN  /\ store' = SubSeq(all, n + 1, Len(all))
         /\ historyEnd' = IF historyEnd <= 0 THEN historyEnd
                          ELSE IF n > historyEnd THEN 0 ELSE historyEnd - n
  /\ UNCHANGED <<sessions, sockets, historyDone, openCount, paused, effects>>

togglePause ==
  /\ paused' = ~paused
  /\ sockets' = [s \in DOMAIN sockets |->
       IF sockets[s].state = "open" THEN [sockets[s] EXCEPT !.held = ~paused] ELSE sockets[s]]
  /\ UNCHANGED <<sessions, store, buffer, historyEnd, historyDone, openCount, effects>>

clear ==
  /\ store' = <<>> /\ historyEnd' = -1
  /\ UNCHANGED <<sessions, sockets, buffer, historyDone, openCount, paused, effects>>

MergedNext ==
  \/ \E s \in Sessions : AddSession(s) \/ onRemoveSession(s)
  \/ \E s \in DOMAIN sockets : onopen(s) \/ onclose(s) \/ onmessage(s) \/ onhistoryend(s)
  \/ flush \/ togglePause \/ clear

-----------------------------------------------------------------------------
(* The merged view, too, shows a tail of what its sockets deliver. *)
Promised == INSTANCE LogTail WITH
  shown <- store, coming <- buffer,
  Line <- [of : Sessions, at : 1..MaxEffects, kind : {"history", "live", "revoked"},
           n : 0..History + MaxLive + 1],
  Fewest <- Cap
MergedShowsATail == Promised!TailSpec

(* The mark between history and live lines is set once all histories have  *)
(* ended, so no history of any session, of this connection or of one       *)
(* before it, comes after it; it survives trims, and the number of open    *)
(* sources that is shown is right although sockets come and go with every  *)
(* change of the sessions.                                                 *)
HistoriesComeFirst ==
  /\ historyEnd >= 0 => /\ historyEnd <= Len(store)
                        /\ \A i \in historyEnd + 1..Len(store) : store[i].kind # "history"
                        /\ \A i \in 1..Len(buffer) : buffer[i].kind # "history"
  /\ openCount = countOpen(sockets)
=============================================================================
