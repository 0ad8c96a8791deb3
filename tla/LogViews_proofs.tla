-------------------------- MODULE LogViews_proofs --------------------------
(***************************************************************************)
(* The log views, for any sizes of the buffer, any history and any number  *)
(* of sockets and sessions: the single and the merged view implement       *)
(* LogTail, their status, line numbers and histories are right, and the    *)
(* pill of new lines counts those that arrived.                            *)
(***************************************************************************)
EXTENDS LogViews, SequenceTheorems, FiniteSetTheorems, TLAPS

(* Adding a line, all lines, and the end of them, as sequences of lines.   *)
LEMMA AppendLine ==
  ASSUME NEW L, NEW s \in Seq(L), NEW line \in L
  PROVE  Append(s, line) \in Seq(L) /\ Len(Append(s, line)) = Len(s) + 1
OBVIOUS

LEMMA NoLines == ASSUME NEW L PROVE <<>> \in Seq(L)
OBVIOUS

LEMMA Concatenated ==
  ASSUME NEW L, NEW s \in Seq(L), NEW t \in Seq(L)
  PROVE  /\ s \o t \in Seq(L) /\ Len(s \o t) \in Nat
         /\ SubSeq(s \o t, 1, Len(s \o t)) = s \o t
OBVIOUS

LEMMA EndOf ==
  ASSUME NEW L, NEW s \in Seq(L), NEW n \in 0..Len(s)
  PROVE  /\ SubSeq(s, n + 1, Len(s)) \in Seq(L)
         /\ Len(SubSeq(s, n + 1, Len(s))) = Len(s) - n
OBVIOUS

-----------------------------------------------------------------------------
(* The source of a single view. *)
SourceLine == [from : 1..MaxOpened, kind : {"history", "live", "revoked"}, n : 0..History + MaxLive + 1]
SourceSocket ==
  [id : 1..MaxOpened, state : {"connecting", "open", "closed"}, n : 0..History + MaxLive + 1,
   history : {0, History}, held : BOOLEAN, told : BOOLEAN, cap : Caps]

SourceInv ==
  /\ viewMode \in {"stream", "live", "file"} /\ maxLines \in Caps /\ paused \in BOOLEAN
  /\ opened \in 1..MaxOpened
  /\ ws = NoSocket \/ ws \in SourceSocket
  /\ viewMode # "file" => ws \in SourceSocket
  /\ closing \subseteq [id : 1..MaxOpened, revoked : BOOLEAN]
  /\ store \in Seq(SourceLine) /\ buffer \in Seq(SourceLine)

(* A line that comes, the lines that are shown, a new stream. *)
LEMMA SourceComes ==
  ASSUME SourceInv, NEW line \in SourceLine, buffer' = Append(buffer, line), UNCHANGED store
  PROVE  buffer' \in Seq(SourceLine) /\ Source!Promised!Come
<1>1. Append(buffer, line) \in Seq(SourceLine) /\ Len(Append(buffer, line)) = Len(buffer) + 1
  BY AppendLine DEF SourceInv
<1> QED BY <1>1 DEF Source!Promised!Come, SourceLine

LEMMA SourceShowsAll ==
  ASSUME SourceInv, store' = store \o buffer, buffer' = <<>>
  PROVE  store' \in Seq(SourceLine) /\ buffer' \in Seq(SourceLine) /\ Source!Promised!Show
<1>1. /\ store \o buffer \in Seq(SourceLine) /\ Len(store \o buffer) \in Nat
      /\ SubSeq(store \o buffer, 1, Len(store \o buffer)) = store \o buffer
  BY Concatenated DEF SourceInv
<1>2. 1 \in 1..Len(store \o buffer) + 1
  BY <1>1
<1>3. Source!Promised!Show
  <2> DEFINE all == store \o buffer
  <2>1. 1 \in 1..Len(all) + 1 /\ store' = SubSeq(all, 1, Len(all)) /\ ~(1 > 1)
    BY <1>1, <1>2
  <2> QED BY <2>1 DEF Source!Promised!Show
<1> QED BY <1>1, <1>3

(* Trimming never leaves fewer lines than the smallest buffer. *)
LEMMA SourceFlushes ==
  ASSUME SourceInv, Source!flush
  PROVE  store' \in Seq(SourceLine) /\ buffer' \in Seq(SourceLine) /\ Source!Promised!Show
<1> DEFINE all == store \o buffer
           n == IF Len(all) > 2 * ws.cap THEN Len(all) - ws.cap ELSE 0
<1>1. all \in Seq(SourceLine) /\ Len(all) \in Nat
  BY Concatenated DEF SourceInv
<1>2. ws.cap \in Caps /\ ws.cap \in Nat
  BY LogViewsAssumption DEF SourceInv, SourceSocket, Source!flush
<1>3. n \in 0..Len(all) /\ (n > 0 => Len(all) - n >= ws.cap)
  BY <1>1, <1>2
<1>4. store' = SubSeq(all, n + 1, Len(all)) /\ buffer' = <<>>
  BY DEF Source!flush, Source!Trimmed
<1> HIDE DEF n, all
<1>5. store' \in Seq(SourceLine) /\ Len(store') = Len(all) - n
  BY <1>1, <1>3, <1>4, EndOf
<1> DEFINE Least == CHOOSE least \in Caps : \A c \in Caps : least <= c
<1>6. Least <= ws.cap /\ Least \in Nat
  <2>1. Least \in Caps /\ \A c \in Caps : Least <= c
    BY LogViewsAssumption
  <2> QED BY <2>1, <1>2, LogViewsAssumption
<1> HIDE DEF Least
<1>7. n + 1 \in 1..Len(all) + 1 /\ (n + 1 > 1 => Len(store') >= Least)
  BY <1>1, <1>2, <1>3, <1>5, <1>6
<1>8. Source!Promised!Show
  BY <1>4, <1>7 DEF Source!Promised!Show, all, Least
<1> QED BY <1>4, <1>5, <1>8

LEMMA SocketIsTyped ==
  ASSUME SourceInv, NEW id \in 1..MaxOpened, NEW mode
  PROVE  Source!Socket(id, mode) \in SourceSocket
BY LogViewsAssumption DEF SourceInv, SourceSocket, Source!Socket

LEMMA SourceInitially == Init => SourceInv /\ Source!Promised!TailInit
<1> SUFFICES ASSUME Init PROVE SourceInv /\ Source!Promised!TailInit
  OBVIOUS
<1>1. 1 \in 1..MaxOpened
  BY LogViewsAssumption
<1>2. ws \in SourceSocket
  BY <1>1, LogViewsAssumption DEF Init, Source!SourceInit, Source!Socket, SourceSocket
<1>3. store = <<>> /\ buffer = <<>> /\ <<>> \in Seq(SourceLine)
  BY NoLines DEF Init, Source!SourceInit
<1>4. paused \in BOOLEAN
  BY DEF Init, Source!SourceInit
<1>5. viewMode = "stream" /\ maxLines \in Caps /\ opened = 1 /\ closing = {}
  BY DEF Init, Source!SourceInit
<1> QED BY <1>1, <1>2, <1>3, <1>4, <1>5 DEF SourceInv, Source!Promised!TailInit

(* What the steps leave alone. *)
LEMMA SourceKept ==
  ASSUME SourceInv, UNCHANGED <<store, buffer>>,
         viewMode' \in {"stream", "live", "file"}, maxLines' \in Caps, paused' \in BOOLEAN,
         opened' \in 1..MaxOpened, ws' \in SourceSocket \/ (ws' = NoSocket /\ viewMode' = "file"),
         closing' \subseteq [id : 1..MaxOpened, revoked : BOOLEAN]
  PROVE  SourceInv' /\ [Source!Promised!TailNext]_<<store, buffer>>
BY DEF SourceInv

LEMMA ModeChange ==
  ASSUME SourceInv, NEW mode \in {"stream", "live", "file"}, Source!setViewMode(mode)
  PROVE  SourceInv' /\ Source!Promised!Switch
<1>1. opened' \in 1..MaxOpened /\ viewMode' = mode /\ buffer' = <<>>
      /\ maxLines' = maxLines /\ paused' = paused /\ store' \in {store, <<>>}
  BY LogViewsAssumption DEF Source!setViewMode, SourceInv
<1>2. closing' \subseteq [id : 1..MaxOpened, revoked : BOOLEAN]
  <2>1. CASE ws # NoSocket /\ ws.state # "closed"
    <3>1. PICK revoked \in BOOLEAN : closing' = closing \cup {[id |-> ws.id, revoked |-> revoked]}
      BY <2>1 DEF Source!setViewMode, Source!LeaveSocket
    <3>2. ws.id \in 1..MaxOpened
      BY <2>1 DEF SourceInv, SourceSocket
    <3> QED BY <3>1, <3>2 DEF SourceInv
  <2>2. CASE ~(ws # NoSocket /\ ws.state # "closed")
    BY <2>2 DEF Source!setViewMode, Source!LeaveSocket, SourceInv
  <2> QED BY <2>1, <2>2
<1>0. store' \in Seq(SourceLine) /\ buffer' \in Seq(SourceLine) /\ Source!Promised!Switch
  <2>1. <<>> \in Seq(SourceLine) /\ store \in Seq(SourceLine)
    BY NoLines DEF SourceInv
  <2> QED BY <1>1, <2>1 DEF Source!Promised!Switch
<1>a. maxLines' \in Caps /\ paused' \in BOOLEAN
  BY <1>1 DEF SourceInv
<1>3. CASE mode = "file"
  <2>1. ws' = NoSocket
    BY <1>3 DEF Source!setViewMode
  <2> QED BY <1>0, <1>a, <1>1, <1>2, <1>3, <2>1 DEF SourceInv
<1>4. CASE mode # "file"
  <2>1. ws' = Source!Socket(opened', mode)
    BY <1>4 DEF Source!setViewMode
  <2>2. ws' \in SourceSocket
    BY <1>1, <2>1, SocketIsTyped
  <2> QED BY <1>0, <1>a, <1>1, <1>2, <2>2 DEF SourceInv
<1> QED BY <1>3, <1>4

LEMMA SourceSteps ==
  ASSUME SourceInv, Source!SourceNext
  PROVE  SourceInv' /\ [Source!Promised!TailNext]_<<store, buffer>>
<1> USE DEF Source!Stay, Source!Reads, Source!streamVars, Source!fileVars
<1>1. ASSUME NEW n \in Caps, Source!Configure(n)
      PROVE  SourceInv' /\ [Source!Promised!TailNext]_<<store, buffer>>
  BY <1>1 DEF Source!Configure, SourceInv
<1>2. ASSUME NEW mode \in {"stream", "live", "file"}, Source!setViewMode(mode)
      PROVE  SourceInv' /\ [Source!Promised!TailNext]_<<store, buffer>>
  BY <1>2, ModeChange DEF Source!Promised!TailNext
<1>3. CASE Source!onopen
  <2>1. ws' = [ws EXCEPT !.state = "open"] /\ ws \in SourceSocket
    BY <1>3 DEF Source!onopen, SourceInv
  <2>2. ws' \in SourceSocket
    BY <2>1 DEF SourceSocket
  <2> QED BY <1>3, <2>2 DEF Source!onopen, SourceInv
<1>4. CASE Source!onmessage
  <2>1. ws \in SourceSocket /\ ws.n # ws.history /\ (ws.n > ws.history => ws.n <= ws.history + MaxLive)
    BY <1>4 DEF Source!onmessage, Source!Live, SourceInv
  <2>2. ws.n + 1 \in 0..History + MaxLive + 1
    BY <2>1, LogViewsAssumption DEF SourceSocket
  <2>3. ws' \in SourceSocket
    BY <1>4, <2>1, <2>2 DEF Source!onmessage, SourceSocket
  <2> DEFINE line == Source!Entry(ws.id, IF ws.n < ws.history THEN "history" ELSE "live", ws.n)
  <2>4. line \in SourceLine
    BY <2>1 DEF Source!Entry, SourceLine, SourceSocket
  <2>5. buffer' = Append(buffer, line) /\ UNCHANGED store
    BY <1>4 DEF Source!onmessage
  <2>6. buffer' \in Seq(SourceLine) /\ Source!Promised!Come
    BY <2>4, <2>5, SourceComes
  <2> QED BY <1>4, <2>3, <2>5, <2>6 DEF Source!onmessage, SourceInv, Source!Promised!TailNext
<1>5. CASE Source!onhistoryend
  <2>1. ws \in SourceSocket /\ ws.n = ws.history
    BY <1>5 DEF Source!onhistoryend, Source!Live, SourceInv
  <2>2. ws.n + 1 \in 0..History + MaxLive + 1
    BY <2>1, LogViewsAssumption DEF SourceSocket
  <2>3. ws' \in SourceSocket
    BY <1>5, <2>1, <2>2 DEF Source!onhistoryend, SourceSocket
  <2>4. store' \in Seq(SourceLine) /\ buffer' \in Seq(SourceLine) /\ Source!Promised!Show
    BY <1>5, SourceShowsAll DEF Source!onhistoryend
  <2> QED BY <1>5, <2>3, <2>4 DEF Source!onhistoryend, SourceInv, Source!Promised!TailNext
<1>6. CASE Source!onclose
  <2>1. ws \in SourceSocket
    BY <1>6 DEF Source!onclose, SourceInv
  <2>2. ws' \in SourceSocket
    BY <1>6, <2>1 DEF Source!onclose, SourceSocket
  <2> DEFINE line == Source!Entry(ws.id, "revoked", ws.n)
  <2>3. line \in SourceLine
    BY <2>1 DEF Source!Entry, SourceLine, SourceSocket
  <2>4. UNCHANGED store /\ (UNCHANGED buffer \/ buffer' = Append(buffer, line))
    BY <1>6 DEF Source!onclose
  <2>5. UNCHANGED buffer \/ (buffer' \in Seq(SourceLine) /\ Source!Promised!Come)
    BY <2>3, <2>4, SourceComes
  <2> QED BY <1>6, <2>2, <2>4, <2>5 DEF Source!onclose, SourceInv, Source!Promised!TailNext
<1>7. ASSUME NEW c \in closing, Source!oncloseLate(c)
      PROVE  SourceInv' /\ [Source!Promised!TailNext]_<<store, buffer>>
  <2> DEFINE line == Source!Entry(c.id, "revoked", 0)
  <2>1. line \in SourceLine
    BY LogViewsAssumption DEF Source!Entry, SourceLine, SourceInv
  <2>2. UNCHANGED store /\ (UNCHANGED buffer \/ buffer' = Append(buffer, line))
    BY <1>7 DEF Source!oncloseLate
  <2>3. UNCHANGED buffer \/ (buffer' \in Seq(SourceLine) /\ Source!Promised!Come)
    BY <2>1, <2>2, SourceComes
  <2> QED BY <1>7, <2>2, <2>3 DEF Source!oncloseLate, SourceInv, Source!Promised!TailNext
<1>8. CASE Source!flush
  <2>1. store' \in Seq(SourceLine) /\ buffer' \in Seq(SourceLine) /\ Source!Promised!Show
    BY <1>8, SourceFlushes
  <2> QED BY <1>8, <2>1 DEF Source!flush, SourceInv, Source!Promised!TailNext
<1>9. CASE Source!togglePause
  <2>1. ws \in SourceSocket /\ paused' \in BOOLEAN
    BY <1>9 DEF Source!togglePause, SourceInv
  <2>2. ws' \in SourceSocket
    BY <1>9, <2>1 DEF Source!togglePause, SourceSocket, SourceInv
  <2> QED BY <1>9, <2>1, <2>2 DEF Source!togglePause, SourceInv
<1>10. CASE Source!clear
  <2>1. UNCHANGED buffer /\ (store' = <<>> \/ UNCHANGED store)
    BY <1>10 DEF Source!clear
  <2>2. store' \in Seq(SourceLine) /\ [Source!Promised!TailNext]_<<store, buffer>>
    BY <2>1, NoLines DEF SourceInv, Source!Promised!TailNext, Source!Promised!Clear
  <2>3. UNCHANGED <<viewMode, maxLines, ws, closing, buffer, paused, opened>>
    BY <1>10 DEF Source!clear
  <2> QED BY <2>2, <2>3 DEF SourceInv
<1>11. ASSUME NEW f \in fetches, Source!ReadChunk(f) \/ Source!EndFetch(f) \/ Source!FailFetch(f)
       PROVE  SourceInv' /\ [Source!Promised!TailNext]_<<store, buffer>>
  <2>1. UNCHANGED <<viewMode, maxLines, ws, closing, store, buffer, paused, opened>>
    BY <1>11 DEF Source!ReadChunk, Source!EndFetch, Source!FailFetch
  <2> QED BY <2>1 DEF SourceInv
<1> QED BY <1>1, <1>2, <1>3, <1>4, <1>5, <1>6, <1>7, <1>8, <1>9, <1>10, <1>11 DEF Source!SourceNext

LEMMA SourceRefines ==
  SourceInv /\ [Next]_vars => SourceInv' /\ [Source!Promised!TailNext]_<<store, buffer>>
<1> SUFFICES ASSUME SourceInv, [Next]_vars
             PROVE  SourceInv' /\ [Source!Promised!TailNext]_<<store, buffer>>
  OBVIOUS
<1>1. CASE SourceStep
  BY <1>1, SourceSteps DEF SourceStep
<1>2. CASE UNCHANGED sourceVars
  BY <1>2 DEF sourceVars, SourceInv
<1> QED BY <1>1, <1>2 DEF Next, MergedStep, ViewStep, vars

(* useLogStream implements LogTail: what the view shows is the end of what *)
(* its sockets deliver, in order and without a gap, whatever reconnections *)
(* and trims there are (useLogStream.ts:20-126).                           *)
THEOREM SourceIsATail == Spec => ShowsATail
<1>1. Spec => []SourceInv
  BY SourceInitially, SourceRefines, PTL DEF Spec
<1>2. Spec => Source!Promised!TailSpec
  BY <1>1, SourceInitially, SourceRefines, PTL DEF Spec, Source!Promised!TailSpec
<1> QED BY <1>2 DEF ShowsATail, Source!ShowsATail

-----------------------------------------------------------------------------
(* The merged view. *)
Numbers == 0..MergedHistory + MergedLive + 1
MergedLine == [of : Sessions, at : 1..MaxEffects, kind : {"history", "live", "revoked"}, n : Numbers]
MergedSocket == [state : {"connecting", "open", "closed"}, n : Numbers, held : BOOLEAN]

MergedInv ==
  /\ sessions \subseteq Sessions /\ sockets \in [sessions -> MergedSocket]
  /\ mergedPaused \in BOOLEAN /\ effects \in 1..MaxEffects
  /\ mergedStore \in Seq(MergedLine) /\ mergedBuffer \in Seq(MergedLine)

MergedTail == <<mergedStore, mergedBuffer>>

LEMMA MergedComes ==
  ASSUME MergedInv, NEW line \in MergedLine,
         mergedBuffer' = Append(mergedBuffer, line), UNCHANGED mergedStore
  PROVE  mergedBuffer' \in Seq(MergedLine) /\ Merged!Promised!Come
<1>1. /\ Append(mergedBuffer, line) \in Seq(MergedLine)
      /\ Len(Append(mergedBuffer, line)) = Len(mergedBuffer) + 1
  BY AppendLine DEF MergedInv
<1> QED BY <1>1 DEF Merged!Promised!Come, MergedLine, Numbers

LEMMA MergedShowsAll ==
  ASSUME MergedInv, mergedStore' = mergedStore \o mergedBuffer, mergedBuffer' = <<>>
  PROVE  mergedStore' \in Seq(MergedLine) /\ mergedBuffer' \in Seq(MergedLine) /\ Merged!Promised!Show
<1> DEFINE all == mergedStore \o mergedBuffer
<1>1. all \in Seq(MergedLine) /\ Len(all) \in Nat /\ SubSeq(all, 1, Len(all)) = all
  BY Concatenated DEF MergedInv
<1>2. 1 \in 1..Len(all) + 1 /\ mergedStore' = SubSeq(all, 1, Len(all)) /\ ~(1 > 1)
  BY <1>1
<1>3. Merged!Promised!Show
  BY <1>2 DEF Merged!Promised!Show
<1> QED BY <1>1, <1>3, NoLines

LEMMA MergedFlushes ==
  ASSUME MergedInv, Merged!flush
  PROVE  mergedStore' \in Seq(MergedLine) /\ mergedBuffer' \in Seq(MergedLine) /\ Merged!Promised!Show
<1> DEFINE all == mergedStore \o mergedBuffer
           n == Merged!Fewer(all)
<1>1. all \in Seq(MergedLine) /\ Len(all) \in Nat
  BY Concatenated DEF MergedInv
<1>2. n \in 0..Len(all) /\ (n > 0 => Len(all) - n >= Cap)
  BY <1>1, LogViewsAssumption DEF Merged!Fewer
<1>3. mergedStore' = SubSeq(all, n + 1, Len(all)) /\ mergedBuffer' = <<>>
  BY DEF Merged!flush
<1> HIDE DEF n, all
<1>4. mergedStore' \in Seq(MergedLine) /\ Len(mergedStore') = Len(all) - n
  BY <1>1, <1>2, <1>3, EndOf
<1>5. n + 1 \in 1..Len(all) + 1 /\ (n + 1 > 1 => Len(mergedStore') >= Cap)
  BY <1>1, <1>2, <1>4, LogViewsAssumption
<1>6. Merged!Promised!Show
  BY <1>3, <1>5 DEF Merged!Promised!Show, all
<1> QED BY <1>3, <1>4, <1>6, NoLines

LEMMA MergedInitially == Init => MergedInv /\ Merged!Promised!TailInit
<1> SUFFICES ASSUME Init PROVE MergedInv /\ Merged!Promised!TailInit
  OBVIOUS
<1>1. sessions \subseteq Sessions /\ sockets = [s \in sessions |-> Merged!Socket]
  BY DEF Init, Merged!MergedInit
<1>2. Merged!Socket \in MergedSocket
  BY LogViewsAssumption DEF Merged!Socket, MergedSocket, Numbers
<1>3. sockets \in [sessions -> MergedSocket]
  BY <1>1, <1>2
<1>4. mergedStore = <<>> /\ mergedBuffer = <<>> /\ <<>> \in Seq(MergedLine)
  BY NoLines DEF Init, Merged!MergedInit
<1>5. mergedPaused \in BOOLEAN
  BY DEF Init, Merged!MergedInit
<1>6. effects \in 1..MaxEffects
  BY LogViewsAssumption DEF Init, Merged!MergedInit
<1> QED BY <1>1, <1>3, <1>4, <1>5, <1>6 DEF MergedInv, Merged!Promised!TailInit

(* The effect runs anew: what was not shown yet is lost, the store stays.  *)
LEMMA ReconnectSwitches ==
  ASSUME MergedInv, NEW ids \in SUBSET Sessions, Merged!Reconnect(ids)
  PROVE  MergedInv' /\ Merged!Promised!Switch
<1>1. /\ sessions' = ids /\ sockets' = [s \in ids |-> Merged!Socket]
      /\ mergedBuffer' = <<>> /\ UNCHANGED <<mergedStore, mergedPaused>>
  BY DEF Merged!Reconnect
<1>2. effects' \in 1..MaxEffects
  BY LogViewsAssumption DEF Merged!Reconnect, MergedInv
<1>3. Merged!Socket \in MergedSocket
  BY LogViewsAssumption DEF Merged!Socket, MergedSocket, Numbers
<1>4. sockets' \in [sessions' -> MergedSocket]
  BY <1>1, <1>3
<1>5. <<>> \in Seq(MergedLine)
  BY NoLines
<1> QED BY <1>1, <1>2, <1>4, <1>5 DEF MergedInv, Merged!Promised!Switch

(* A socket of a session says or does something. *)
LEMMA SocketSteps ==
  ASSUME MergedInv, NEW s \in DOMAIN sockets,
         Merged!onopen(s) \/ Merged!onclose(s) \/ Merged!onmessage(s) \/ Merged!onhistoryend(s)
  PROVE  MergedInv' /\ [Merged!Promised!TailNext]_MergedTail
<1>1. /\ s \in Sessions /\ sockets[s] \in MergedSocket /\ sockets[s].n \in Numbers
      /\ effects \in 1..MaxEffects
  BY DEF MergedInv, MergedSocket
<1>2. UNCHANGED <<sessions, mergedPaused, effects>>
  BY DEF Merged!onopen, Merged!onclose, Merged!onmessage, Merged!onhistoryend
<1>3. CASE Merged!onopen(s)
  <2>1. sockets' \in [sessions -> MergedSocket]
    BY <1>1, <1>3 DEF Merged!onopen, MergedInv, MergedSocket
  <2> QED BY <1>2, <1>3, <2>1 DEF Merged!onopen, MergedInv, MergedTail
<1>4. CASE Merged!onclose(s)
  <2>1. sockets' \in [sessions -> MergedSocket]
    BY <1>1, <1>4 DEF Merged!onclose, MergedInv, MergedSocket
  <2> DEFINE line == [of |-> s, at |-> effects, kind |-> "revoked", n |-> sockets[s].n]
  <2>2. line \in MergedLine
    BY <1>1 DEF MergedLine
  <2>3. UNCHANGED mergedStore /\ (UNCHANGED mergedBuffer \/ mergedBuffer' = Append(mergedBuffer, line))
    BY <1>4 DEF Merged!onclose
  <2>4. UNCHANGED mergedBuffer \/ (mergedBuffer' \in Seq(MergedLine) /\ Merged!Promised!Come)
    BY <2>2, <2>3, MergedComes
  <2> QED BY <1>2, <2>1, <2>3, <2>4 DEF MergedInv, MergedTail, Merged!Promised!TailNext
<1>5. CASE Merged!onmessage(s)
  <2>1. sockets[s].n + 1 \in Numbers
    BY <1>1, <1>5, LogViewsAssumption, SMTT(20) DEF Merged!onmessage, Numbers
  <2>2. sockets' \in [sessions -> MergedSocket]
    BY <1>1, <1>5, <2>1 DEF Merged!onmessage, Merged!Sends, MergedInv, MergedSocket
  <2> DEFINE line == [of |-> s, at |-> effects, n |-> sockets[s].n,
                      kind |-> IF sockets[s].n < MergedHistory THEN "history" ELSE "live"]
  <2>3. line \in MergedLine
    BY <1>1 DEF MergedLine
  <2>4. UNCHANGED mergedStore /\ mergedBuffer' = Append(mergedBuffer, line)
    BY <1>5 DEF Merged!onmessage
  <2>5. mergedBuffer' \in Seq(MergedLine) /\ Merged!Promised!Come
    BY <2>3, <2>4, MergedComes
  <2> QED BY <1>2, <2>2, <2>4, <2>5 DEF MergedInv, MergedTail, Merged!Promised!TailNext
<1>6. CASE Merged!onhistoryend(s)
  <2>1. sockets[s].n + 1 \in Numbers
    BY <1>1, <1>6, LogViewsAssumption DEF Merged!onhistoryend, Numbers
  <2>2. sockets' \in [sessions -> MergedSocket]
    BY <1>1, <1>6, <2>1 DEF Merged!onhistoryend, Merged!Sends, MergedInv, MergedSocket
  <2>3. \/ mergedStore' = mergedStore \o mergedBuffer /\ mergedBuffer' = <<>>
        \/ UNCHANGED <<mergedStore, mergedBuffer>>
    BY <1>6 DEF Merged!onhistoryend
  <2>4. \/ mergedStore' \in Seq(MergedLine) /\ mergedBuffer' \in Seq(MergedLine) /\ Merged!Promised!Show
        \/ UNCHANGED <<mergedStore, mergedBuffer>>
    BY <2>3, MergedShowsAll
  <2> QED BY <1>2, <2>2, <2>4 DEF MergedInv, MergedTail, Merged!Promised!TailNext
<1> QED BY <1>3, <1>4, <1>5, <1>6

LEMMA MergedSteps ==
  ASSUME MergedInv, Merged!MergedNext
  PROVE  MergedInv' /\ [Merged!Promised!TailNext]_MergedTail
<1>1. ASSUME NEW s \in Sessions, Merged!AddSession(s) \/ Merged!onRemoveSession(s)
      PROVE  MergedInv' /\ [Merged!Promised!TailNext]_MergedTail
  <2>1. PICK ids \in SUBSET Sessions : Merged!Reconnect(ids)
    BY <1>1 DEF Merged!AddSession, Merged!onRemoveSession, MergedInv
  <2> QED BY <2>1, ReconnectSwitches DEF Merged!Promised!TailNext
<1>2. ASSUME NEW s \in DOMAIN sockets,
             Merged!onopen(s) \/ Merged!onclose(s) \/ Merged!onmessage(s) \/ Merged!onhistoryend(s)
      PROVE  MergedInv' /\ [Merged!Promised!TailNext]_MergedTail
  BY <1>2, SocketSteps
<1>3. CASE Merged!flush
  <2>1. mergedStore' \in Seq(MergedLine) /\ mergedBuffer' \in Seq(MergedLine) /\ Merged!Promised!Show
    BY <1>3, MergedFlushes
  <2> QED BY <1>3, <2>1 DEF Merged!flush, MergedInv, Merged!Promised!TailNext
<1>4. CASE Merged!togglePause
  <2>1. mergedPaused' \in BOOLEAN /\ UNCHANGED <<sessions, mergedStore, mergedBuffer, effects>>
    BY <1>4 DEF Merged!togglePause
  <2>2. sockets' = [s \in DOMAIN sockets |->
           IF sockets[s].state = "open" THEN [sockets[s] EXCEPT !.held = ~mergedPaused] ELSE sockets[s]]
    BY <1>4 DEF Merged!togglePause
  <2>3. ASSUME NEW s \in sessions
        PROVE  /\ sockets[s] \in MergedSocket
               /\ [sockets[s] EXCEPT !.held = ~mergedPaused] \in MergedSocket
    BY DEF MergedInv, MergedSocket
  <2>4. sockets' \in [sessions -> MergedSocket]
    BY <2>2, <2>3 DEF MergedInv
  <2> QED BY <2>1, <2>4 DEF MergedInv, MergedTail
<1>5. CASE Merged!clear
  <2>1. mergedStore' = <<>> /\ UNCHANGED <<sessions, sockets, mergedBuffer, mergedPaused, effects>>
    BY <1>5 DEF Merged!clear
  <2> QED BY <2>1, NoLines DEF MergedInv, Merged!Promised!TailNext, Merged!Promised!Clear
<1> QED BY <1>1, <1>2, <1>3, <1>4, <1>5 DEF Merged!MergedNext

LEMMA MergedRefines ==
  MergedInv /\ [Next]_vars => MergedInv' /\ [Merged!Promised!TailNext]_MergedTail
<1> SUFFICES ASSUME MergedInv, [Next]_vars
             PROVE  MergedInv' /\ [Merged!Promised!TailNext]_MergedTail
  OBVIOUS
<1>1. CASE MergedStep
  BY <1>1, MergedSteps DEF MergedStep
<1>2. CASE UNCHANGED mergedVars
  BY <1>2 DEF mergedVars, MergedInv, MergedTail
<1> QED BY <1>1, <1>2 DEF Next, SourceStep, ViewStep, vars

(* MergedLogPanel implements LogTail too, although its store outlives the  *)
(* sockets (MergedLogPanel.tsx:33-150).                                    *)
THEOREM MergedIsATail == Spec => MergedShowsATail
<1>1. Spec => []MergedInv
  BY MergedInitially, MergedRefines, PTL DEF Spec
<1>2. Spec => Merged!Promised!TailSpec
  BY <1>1, MergedInitially, MergedRefines, PTL DEF Spec, Merged!Promised!TailSpec, MergedTail
<1> QED BY <1>2 DEF MergedShowsATail, Merged!MergedShowsATail
-----------------------------------------------------------------------------
(* What the view says of its socket and its file. *)
StatusInv ==
  /\ viewMode = "file" => ws = NoSocket
  /\ viewMode # "file" /\ ~late => connected = (ws.state = "open")
  /\ viewMode # "file" /\ ws.state = "open" /\ ws.told => ws.held = paused
  /\ ws # NoSocket /\ ws.state = "connecting" => ~ws.told

(* At most one request of the file was not aborted: it is the view's, and  *)
(* the chunks that are shown are those that it has read.                   *)
Fetch == [id : 1..MaxOpened, left : 0..Chunks, aborted : BOOLEAN]

FileInv ==
  /\ fetches \subseteq Fetch /\ fileStore \in Int
  /\ \A f, g \in fetches : ~f.aborted /\ ~g.aborted => f = g
  /\ \A f \in fetches : ~f.aborted =>
       /\ viewMode = "file" /\ ~failed /\ (late \/ loading)
       /\ fileStore \in {-1, Chunks - f.left}
  /\ viewMode = "file" /\ ~late /\ ~loading /\ ~failed => fileStore \in {-1, Chunks}

LEMMA StatusInitially == Init => StatusInv /\ FileInv
<1> SUFFICES ASSUME Source!SourceInit PROVE StatusInv /\ FileInv
  BY DEF Init
<1>1. /\ viewMode = "stream" /\ ws = Source!Socket(1, "stream") /\ connected = FALSE
      /\ fileStore = 0 /\ fetches = {}
  BY DEF Source!SourceInit
<1>2. ws.state = "connecting" /\ ws.told = FALSE
  BY <1>1 DEF Source!Socket
<1>3. StatusInv
  BY <1>1, <1>2 DEF StatusInv
<1>4. FileInv
  BY <1>1 DEF FileInv
<1> QED BY <1>3, <1>4

LEMMA StatusSteps ==
  ASSUME SourceInv, StatusInv, Source!SourceNext
  PROVE  StatusInv'
<1>1. ASSUME NEW n \in Caps, Source!Configure(n) PROVE StatusInv'
  BY <1>1 DEF Source!Configure, Source!streamVars, StatusInv
<1>2. ASSUME NEW mode \in {"stream", "live", "file"}, Source!setViewMode(mode) PROVE StatusInv'
  <2>1. viewMode' = mode /\ connected' = FALSE
        /\ ws' = IF mode = "file" THEN NoSocket ELSE Source!Socket(opened', mode)
    BY <1>2 DEF Source!setViewMode
  <2>2. mode # "file" => ws'.state = "connecting" /\ ws'.told = FALSE
    BY <2>1 DEF Source!Socket
  <2> QED BY <2>1, <2>2 DEF StatusInv
<1>3. CASE Source!onopen
  <2>1. /\ ws' = [ws EXCEPT !.state = "open"] /\ ws # NoSocket /\ ws.state = "connecting"
        /\ connected' = TRUE /\ viewMode' = viewMode
    BY <1>3 DEF Source!onopen, Source!Stay
  <2>2. ws \in SourceSocket /\ viewMode # "file" /\ ~ws.told
    BY <2>1 DEF SourceInv, StatusInv
  <2>3. ws'.state = "open" /\ ws'.told = ws.told
    BY <2>1, <2>2 DEF SourceSocket
  <2> QED BY <2>1, <2>2, <2>3 DEF StatusInv
<1>4. CASE Source!onmessage \/ Source!onhistoryend
  <2>1. /\ ws' = [ws EXCEPT !.n = @ + 1] /\ ws # NoSocket
        /\ UNCHANGED <<viewMode, connected, late, paused>>
    BY <1>4 DEF Source!onmessage, Source!onhistoryend, Source!Stay, Source!Live
  <2>2. ws \in SourceSocket
    BY <2>1 DEF SourceInv
  <2>3. ws'.state = ws.state /\ ws'.told = ws.told /\ ws'.held = ws.held
    BY <2>1, <2>2 DEF SourceSocket
  <2>4. viewMode' # "file"
    BY <2>1 DEF StatusInv
  <2> QED BY <2>1, <2>3, <2>4 DEF StatusInv
<1>5. CASE Source!onclose
  <2>1. /\ ws' = [ws EXCEPT !.state = "closed"] /\ ws # NoSocket
        /\ connected' = FALSE /\ viewMode' = viewMode
    BY <1>5 DEF Source!onclose, Source!Stay
  <2>2. ws \in SourceSocket /\ viewMode # "file"
    BY <2>1 DEF SourceInv, StatusInv
  <2>3. ws'.state = "closed"
    BY <2>1, <2>2 DEF SourceSocket
  <2> QED BY <2>1, <2>2, <2>3 DEF StatusInv
<1>6. ASSUME NEW c \in closing, Source!oncloseLate(c) PROVE StatusInv'
  BY <1>6 DEF Source!oncloseLate, Source!Stay, StatusInv
<1>7. CASE Source!flush \/ Source!clear
  BY <1>7 DEF Source!flush, Source!clear, Source!Stay, StatusInv
<1>8. CASE Source!togglePause
  <2>1. /\ viewMode # "file" /\ paused' = ~paused /\ UNCHANGED <<viewMode, connected, late>>
        /\ ws' = IF ws.state = "open" THEN [ws EXCEPT !.held = ~paused, !.told = TRUE] ELSE ws
    BY <1>8 DEF Source!togglePause, Source!Stay
  <2>2. ws \in SourceSocket
    BY <2>1 DEF SourceInv
  <2>3. CASE ws.state = "open"
    <3>1. ws'.state = ws.state /\ ws'.held = ~paused
      BY <2>1, <2>2, <2>3 DEF SourceSocket
    <3> QED BY <2>1, <2>3, <3>1 DEF StatusInv
  <2>4. CASE ws.state # "open"
    BY <2>1, <2>4 DEF StatusInv
  <2> QED BY <2>3, <2>4
<1>9. ASSUME NEW f \in fetches, Source!ReadChunk(f) \/ Source!EndFetch(f) \/ Source!FailFetch(f)
      PROVE  StatusInv'
  <2>1. UNCHANGED <<viewMode, ws, connected, paused>> /\ (late \in BOOLEAN => (late => late'))
    BY <1>9 DEF Source!ReadChunk, Source!EndFetch, Source!FailFetch, Source!Reads, Source!streamVars
  <2>2. late => late'
    BY <1>9 DEF Source!ReadChunk, Source!EndFetch, Source!FailFetch
  <2> QED BY <2>1, <2>2 DEF StatusInv
<1> QED
  BY <1>1, <1>2, <1>3, <1>4, <1>5, <1>6, <1>7, <1>8, <1>9 DEF Source!SourceNext

LEMMA FileSteps ==
  ASSUME SourceInv, StatusInv, FileInv, Source!SourceNext
  PROVE  FileInv'
<1>0. Chunks \in Nat
  BY LogViewsAssumption
<1>1. CASE UNCHANGED <<viewMode, fileStore, loading, failed, fetches>> /\ (late => late')
  BY <1>1 DEF FileInv
<1>2. CASE (\E n \in Caps : Source!Configure(n)) \/ Source!onmessage \/ Source!onhistoryend
           \/ Source!onclose \/ Source!flush \/ Source!togglePause
           \/ \E c \in closing : Source!oncloseLate(c)
  BY <1>1, <1>2 DEF Source!Configure, Source!onmessage, Source!onhistoryend, Source!onclose,
     Source!flush, Source!togglePause, Source!oncloseLate, Source!Stay, Source!fileVars
<1>3. CASE Source!onopen
  <2>1. viewMode' # "file" /\ UNCHANGED <<viewMode, fileStore, loading, failed, fetches>>
    BY <1>3 DEF Source!onopen, Source!Stay, Source!fileVars, StatusInv
  <2> QED BY <2>1 DEF FileInv
<1>4. ASSUME NEW mode \in {"stream", "live", "file"}, Source!setViewMode(mode) PROVE FileInv'
  <2> DEFINE new == [id |-> opened', left |-> Chunks, aborted |-> FALSE]
  <2>1. Source!Aborted \subseteq Fetch /\ \A f \in Source!Aborted : f.aborted
    <3>1. ASSUME NEW f \in fetches
          PROVE  [f EXCEPT !.aborted = TRUE] \in Fetch /\ [f EXCEPT !.aborted = TRUE].aborted
      BY DEF FileInv, Fetch
    <3> QED BY <3>1 DEF Source!Aborted
  <2>2. new \in Fetch
    <3>1. opened' \in 1..MaxOpened
      BY <1>4, LogViewsAssumption DEF Source!setViewMode, SourceInv
    <3> QED BY <1>0, <3>1 DEF Fetch
  <2>3. viewMode' = mode /\ fileStore' = 0
    BY <1>4 DEF Source!setViewMode
  <2>4. CASE mode = "file"
    <3>1. fetches' = Source!Aborted \cup {new} /\ loading' = TRUE /\ failed' = FALSE
      BY <1>4, <2>4 DEF Source!setViewMode
    <3>2. new.aborted = FALSE /\ new.left = Chunks
      OBVIOUS
    <3> HIDE DEF new
    <3> QED BY <1>0, <2>1, <2>2, <2>3, <2>4, <3>1, <3>2 DEF FileInv
  <2>5. CASE mode # "file"
    <3>1. fetches' = Source!Aborted
      BY <1>4, <2>5 DEF Source!setViewMode
    <3> QED BY <2>1, <2>3, <2>5, <3>1 DEF FileInv
  <2> QED BY <2>4, <2>5
<1>5. CASE Source!clear
  <2>1. UNCHANGED <<viewMode, loading, failed, fetches, late>> /\ fileStore' \in {-1, fileStore}
    BY <1>5 DEF Source!clear
  <2> QED BY <2>1 DEF FileInv
<1>6. ASSUME NEW f \in fetches, Source!ReadChunk(f) PROVE FileInv'
  <2> DEFINE g == [f EXCEPT !.left = @ - 1]
  <2>1. /\ f.left > 0 /\ ~f.aborted /\ f \in Fetch
        /\ fetches' = (fetches \ {f}) \cup {g}
        /\ fileStore' = IF fileStore = -1 THEN -1 ELSE fileStore + 1
        /\ UNCHANGED <<viewMode, loading, failed, late>>
    BY <1>6 DEF Source!ReadChunk, Source!Reads, FileInv
  <2>2. g \in Fetch /\ g.left = f.left - 1 /\ ~g.aborted
    BY <1>0, <2>1 DEF Fetch
  <2> HIDE DEF g
  <2>3. \A h \in fetches \ {f} : h.aborted
    BY <2>1 DEF FileInv
  <2>4. viewMode = "file" /\ ~failed /\ (late \/ loading) /\ fileStore \in {-1, Chunks - f.left}
    BY <2>1 DEF FileInv
  <2>5. fileStore' \in {-1, Chunks - g.left} /\ fileStore' \in Int
    <3>1. f.left \in Int /\ Chunks \in Int
      BY <1>0, <2>1 DEF Fetch
    <3> QED BY <2>1, <2>2, <2>4, <3>1
  <2>6. fetches' \subseteq Fetch
    BY <2>1, <2>2 DEF FileInv
  <2> QED BY <2>1, <2>2, <2>3, <2>4, <2>5, <2>6 DEF FileInv
<1>7. ASSUME NEW f \in fetches, Source!EndFetch(f) PROVE FileInv'
  <2>1. /\ f.left = 0 /\ fetches' = fetches \ {f} /\ loading' = FALSE
        /\ late' = (late \/ f.aborted) /\ UNCHANGED <<viewMode, fileStore, failed>>
    BY <1>7 DEF Source!EndFetch, Source!Reads
  <2>2. CASE f.aborted
    <3>1. late'
      BY <2>1, <2>2
    <3> QED BY <2>1, <3>1 DEF FileInv
  <2>3. CASE ~f.aborted
    <3>1. \A h \in fetches' : h.aborted
      BY <2>1, <2>3 DEF FileInv
    <3>2. fileStore \in {-1, Chunks}
      BY <1>0, <2>1, <2>3 DEF FileInv
    <3> QED BY <2>1, <3>1, <3>2 DEF FileInv
  <2> QED BY <2>2, <2>3
<1>8. ASSUME NEW f \in fetches, Source!FailFetch(f) PROVE FileInv'
  <2>1. fetches' = fetches \ {f} /\ UNCHANGED <<viewMode, fileStore, late>>
        /\ IF f.aborted THEN UNCHANGED <<loading, failed>> ELSE loading' = FALSE /\ failed' = TRUE
    BY <1>8 DEF Source!FailFetch, Source!Reads
  <2>2. CASE f.aborted
    BY <2>1, <2>2 DEF FileInv
  <2>3. CASE ~f.aborted
    <3>1. \A h \in fetches' : h.aborted
      BY <2>1, <2>3 DEF FileInv
    <3> QED BY <2>1, <2>3, <3>1 DEF FileInv
  <2> QED BY <2>2, <2>3
<1> QED
  BY <1>2, <1>3, <1>4, <1>5, <1>6, <1>7, <1>8 DEF Source!SourceNext

LEMMA StatusKeeps ==
  ASSUME SourceInv, StatusInv, FileInv, [Next]_vars
  PROVE  SourceInv' /\ StatusInv' /\ FileInv'
<1>1. SourceInv'
  BY SourceRefines
<1>2. CASE SourceStep
  BY <1>1, <1>2, StatusSteps, FileSteps DEF SourceStep
<1>3. CASE UNCHANGED sourceVars
  BY <1>1, <1>3 DEF sourceVars, StatusInv, FileInv
<1> QED BY <1>2, <1>3 DEF Next, MergedStep, ViewStep, vars

(* What the view shows as its status is its socket's and its file's, late  *)
(* reports of what it has left apart (useLogStream.ts, useStaticLogFetch.ts). *)
THEOREM StatusIsAlwaysTrue == Spec => []StatusIsTrue
<1>1. StatusInv /\ FileInv => StatusIsTrue
  BY DEF StatusInv, FileInv, StatusIsTrue, Source!StatusIsTrue
<1>2. Init => SourceInv /\ StatusInv /\ FileInv
  BY SourceInitially, StatusInitially
<1>3. SourceInv /\ StatusInv /\ FileInv /\ [Next]_vars => SourceInv' /\ StatusInv' /\ FileInv'
  BY StatusKeeps
<1> QED BY <1>1, <1>2, <1>3, PTL DEF Spec

-----------------------------------------------------------------------------
(* A flush adds the lines that came and drops the oldest n: the mark that  *)
(* was after some of the lines shown is still between the same lines.      *)
Marked(mark, n) == IF mark <= 0 THEN mark ELSE IF n > mark THEN 0 ELSE mark - n

Flushed(s, t, n) == SubSeq(s \o t, n + 1, Len(s \o t))

LEMMA FlushKeepsMark ==
  ASSUME NEW L, NEW s \in Seq(L), NEW t \in Seq(L), NEW n \in 0..Len(s \o t), NEW mark \in 0..Len(s)
  PROVE  /\ Marked(mark, n) \in 0..Len(Flushed(s, t, n))
         /\ \A i \in 1..Len(Flushed(s, t, n)) :
              /\ i <= Marked(mark, n) => \E j \in 1..Len(s) : j <= mark /\ Flushed(s, t, n)[i] = s[j]
              /\ ~(i <= Marked(mark, n)) => \/ \E j \in 1..Len(s) : j > mark /\ Flushed(s, t, n)[i] = s[j]
                                            \/ \E j \in 1..Len(t) : Flushed(s, t, n)[i] = t[j]
<1> DEFINE all == s \o t
           len == Len(all)
           new == Marked(mark, n)
           out == Flushed(s, t, n)
<1>0. n \in 0..len
  OBVIOUS
<1>1. /\ all \in Seq(L) /\ Len(all) = Len(s) + Len(t) /\ Len(s) \in Nat /\ Len(t) \in Nat
      /\ \A k \in 1..(Len(s) + Len(t)) : all[k] = IF k <= Len(s) THEN s[k] ELSE t[k - Len(s)]
  BY ConcatProperties
<1>2. /\ n \in Nat /\ n <= len /\ mark \in Nat /\ mark <= Len(s)
      /\ len \in Nat /\ len = Len(s) + Len(t)
  BY <1>1
<1> HIDE DEF all, len, out
<1>3. Len(out) = len - n /\ \A i \in 1..Len(out) : out[i] = all[i + n]
  <2> DEFINE a == n + 1
  <2>1. a \in Int /\ len \in Int /\ \A k \in a..len : all[k] \in L
    BY <1>1, <1>2 DEF len
  <2>2. out = SubSeq(all, a, len)
    BY DEF all, len, out, Flushed
  <2> HIDE DEF a
  <2>3. /\ Len(out) = IF a <= len THEN len - a + 1 ELSE 0
        /\ \A i \in 1..(len - a + 1) : out[i] = all[a + i - 1]
    <3>1. /\ Len(SubSeq(all, a, len)) = IF a <= len THEN len - a + 1 ELSE 0
          /\ \A i \in 1..(len - a + 1) : SubSeq(all, a, len)[i] = all[a + i - 1]
      BY <2>1, SubSeqProperties
    <3> QED BY <2>2, <3>1
  <2>4. Len(out) = len - n /\ len - a + 1 = len - n
    <3>1. Len(out) = IF a <= len THEN len - a + 1 ELSE 0
      BY <2>3
    <3> QED BY <1>2, <3>1 DEF a
  <2>5. ASSUME NEW i \in 1..Len(out) PROVE out[i] = all[i + n]
    <3>1. i \in 1..(len - a + 1)
      BY <2>4
    <3>2. out[i] = all[a + i - 1]
      BY <2>3, <3>1
    <3>3. a + i - 1 = i + n
      BY <1>2, <2>4 DEF a
    <3> QED BY <3>2, <3>3
  <2> QED BY <2>4, <2>5
<1>4. /\ new \in Nat /\ new <= Len(out)
      /\ \A i \in Nat : i >= 1 => (i <= new <=> i + n <= mark)
  BY <1>1, <1>2, <1>3 DEF Marked
<1> HIDE DEF new
<1>5. ASSUME NEW i \in 1..Len(out)
      PROVE  /\ i <= new => \E j \in 1..Len(s) : j <= mark /\ out[i] = s[j]
             /\ ~(i <= new) => \/ \E j \in 1..Len(s) : j > mark /\ out[i] = s[j]
                               \/ \E j \in 1..Len(t) : out[i] = t[j]
  <2>1. i \in Nat /\ i >= 1 /\ i + n \in 1..(Len(s) + Len(t)) /\ out[i] = all[i + n]
    BY <1>1, <1>2, <1>3
  <2>2. CASE i + n <= Len(s)
    <3>1. out[i] = s[i + n] /\ i + n \in 1..Len(s)
      BY <1>1, <2>1, <2>2
    <3>2. i <= new <=> i + n <= mark
      BY <1>4, <2>1
    <3>3. ~(i + n <= mark) => i + n > mark
      BY <1>2, <2>1
    <3> QED BY <3>1, <3>2, <3>3
  <2>3. CASE ~(i + n <= Len(s))
    <3>1. out[i] = t[i + n - Len(s)] /\ i + n - Len(s) \in 1..Len(t)
      BY <1>1, <2>1, <2>3
    <3>2. ~(i + n <= mark)
      BY <1>2, <2>1, <2>3
    <3>3. ~(i <= new)
      BY <1>4, <2>1, <3>2
    <3> QED BY <3>1, <3>3
  <2> QED BY <2>2, <2>3
<1>6. new \in 0..Len(out)
  BY <1>2, <1>3, <1>4
<1> QED BY <1>5, <1>6 DEF new, out

(* What comes is added at the end.                                         *)
LEMMA Added ==
  ASSUME NEW L, NEW s \in Seq(L), NEW line \in L
  PROVE  /\ Len(Append(s, line)) = Len(s) + 1 /\ Len(s) \in Nat
         /\ \A i \in 1..Len(Append(s, line)) : \/ i \in 1..Len(s) /\ Append(s, line)[i] = s[i]
                                               \/ Append(s, line)[i] = line
  BY AppendProperties

LEMMA Both ==
  ASSUME NEW L, NEW s \in Seq(L), NEW t \in Seq(L)
  PROVE  /\ Len(s \o t) \in Nat
         /\ \A i \in 1..Len(s \o t) : \/ \E j \in 1..Len(s) : (s \o t)[i] = s[j]
                                      \/ \E j \in 1..Len(t) : (s \o t)[i] = t[j]
<1>1. /\ Len(s \o t) = Len(s) + Len(t) /\ Len(s) \in Nat /\ Len(t) \in Nat
      /\ \A k \in 1..(Len(s) + Len(t)) : (s \o t)[k] = IF k <= Len(s) THEN s[k] ELSE t[k - Len(s)]
  BY ConcatProperties
<1>2. ASSUME NEW i \in 1..Len(s \o t)
      PROVE  \/ \E j \in 1..Len(s) : (s \o t)[i] = s[j]
             \/ \E j \in 1..Len(t) : (s \o t)[i] = t[j]
  <2>1. CASE i <= Len(s)
    BY <1>1, <2>1
  <2>2. CASE ~(i <= Len(s))
    <3>1. i - Len(s) \in 1..Len(t)
      BY <1>1, <2>2
    <3> QED BY <1>1, <2>2, <3>1
  <2> QED BY <2>1, <2>2
<1> QED BY <1>1, <1>2

-----------------------------------------------------------------------------
(* Where the history ends: the server sends the end of the history once,   *)
(* between its last line and the first live one, so until then nothing     *)
(* that came is live, and from then on nothing that comes is history.      *)
Ended == viewMode = "file" \/ ws.n > ws.history

NumbersInv ==
  /\ historyEnd = -1 \/ historyEnd \in 0..Len(store)
  /\ historyEnd >= 0 =>
       /\ Ended
       /\ \A i \in 1..Len(store) :
            IF i <= historyEnd THEN store[i].kind # "live" ELSE store[i].kind # "history"
  /\ Ended => \A i \in 1..Len(buffer) : buffer[i].kind # "history"
  /\ ~Ended => /\ \A i \in 1..Len(buffer) : buffer[i].kind # "live"
               /\ \A i \in 1..Len(store) : store[i].kind # "live"

LEMMA NumbersInitially == Init => NumbersInv
<1> SUFFICES ASSUME Source!SourceInit PROVE NumbersInv
  BY DEF Init
<1>1. store = <<>> /\ buffer = <<>> /\ historyEnd = -1
  BY DEF Source!SourceInit
<1> QED BY <1>1 DEF NumbersInv

LEMMA NumbersSteps ==
  ASSUME SourceInv, StatusInv, NumbersInv, Source!SourceNext
  PROVE  NumbersInv'
<1> USE DEF Source!Stay
<1>0. store \in Seq(SourceLine) /\ buffer \in Seq(SourceLine) /\ Len(store) \in Nat
  BY DEF SourceInv
<1>1. ASSUME UNCHANGED <<store, buffer, historyEnd>>, Ended' <=> Ended PROVE NumbersInv'
  BY <1>1 DEF NumbersInv
<1>2. ASSUME NEW line \in SourceLine, line.kind = "revoked", UNCHANGED <<store, historyEnd>>,
             buffer' = Append(buffer, line) \/ UNCHANGED buffer, Ended' <=> Ended
      PROVE  NumbersInv'
  <2>1. \A i \in 1..Len(buffer') : \/ i \in 1..Len(buffer) /\ buffer'[i] = buffer[i]
                                  \/ buffer'[i] = line
    BY <1>0, <1>2, Added
  <2>2. /\ Ended' => \A i \in 1..Len(buffer') : buffer'[i].kind # "history"
        /\ ~Ended' => \A i \in 1..Len(buffer') : buffer'[i].kind # "live"
    BY <1>2, <2>1 DEF NumbersInv
  <2> QED BY <1>2, <2>2 DEF NumbersInv
<1>3. ASSUME NEW mode \in {"stream", "live", "file"}, Source!setViewMode(mode) PROVE NumbersInv'
  <2>1. CASE mode = "file"
    <3>1. buffer' = <<>> /\ viewMode' = "file" /\ UNCHANGED <<store, historyEnd>>
      BY <1>3, <2>1 DEF Source!setViewMode
    <3> QED BY <3>1 DEF NumbersInv, Ended
  <2>2. CASE mode # "file"
    <3>1. buffer' = <<>> /\ store' = <<>> /\ historyEnd' = -1
      BY <1>3, <2>2 DEF Source!setViewMode
    <3> QED BY <3>1 DEF NumbersInv
  <2> QED BY <2>1, <2>2
<1>4. CASE Source!onopen
  <2>1. /\ ws \in SourceSocket /\ ws' = [ws EXCEPT !.state = "open"]
        /\ UNCHANGED <<store, buffer, historyEnd, viewMode>>
    BY <1>4 DEF Source!onopen, SourceInv
  <2>2. ws'.n = ws.n /\ ws'.history = ws.history
    BY <2>1 DEF SourceSocket
  <2> QED BY <1>1, <2>1, <2>2 DEF Ended
<1>5. CASE Source!onmessage
  <2> DEFINE line == Source!Entry(ws.id, IF ws.n < ws.history THEN "history" ELSE "live", ws.n)
  <2>1. /\ ws \in SourceSocket /\ ws' = [ws EXCEPT !.n = @ + 1] /\ ws.n # ws.history
        /\ viewMode # "file" /\ UNCHANGED <<viewMode, store, historyEnd>>
        /\ buffer' = Append(buffer, line)
    BY <1>5 DEF Source!onmessage, Source!Live, SourceInv, StatusInv
  <2>2. ws'.n = ws.n + 1 /\ ws'.history = ws.history /\ ws.n \in Nat /\ ws.history \in Nat
    BY <2>1, LogViewsAssumption, SMTT(20) DEF SourceSocket
  <2>3. /\ line.kind = IF ws.n < ws.history THEN "history" ELSE "live"
        /\ line \in SourceLine
    BY <2>1 DEF Source!Entry, SourceLine, SourceSocket
  <2>4. (Ended' <=> Ended) /\ (Ended <=> ~(ws.n < ws.history))
    BY <2>1, <2>2 DEF Ended
  <2> HIDE DEF line
  <2>5. \A i \in 1..Len(buffer') : \/ i \in 1..Len(buffer) /\ buffer'[i] = buffer[i]
                                  \/ buffer'[i] = line
    BY <1>0, <2>1, <2>3, Added
  <2> QED BY <2>1, <2>3, <2>4, <2>5 DEF NumbersInv
<1>6. CASE Source!onhistoryend
  <2>1. /\ ws \in SourceSocket /\ ws' = [ws EXCEPT !.n = @ + 1] /\ ws.n = ws.history
        /\ viewMode # "file" /\ UNCHANGED viewMode
        /\ buffer' = <<>> /\ store' = store \o buffer /\ historyEnd' = Len(store')
    BY <1>6 DEF Source!onhistoryend, Source!Live, SourceInv, StatusInv
  <2>2. ws'.n = ws.n + 1 /\ ws'.history = ws.history /\ ws.n \in Nat
    BY <2>1, LogViewsAssumption DEF SourceSocket
  <2>3. ~Ended /\ Ended'
    BY <2>1, <2>2 DEF Ended
  <2>4. Len(store') \in Nat /\ \A i \in 1..Len(store') : store'[i].kind # "live"
    <3>1. /\ Len(store') \in Nat
          /\ \A i \in 1..Len(store') : \/ \E j \in 1..Len(store) : store'[i] = store[j]
                                       \/ \E j \in 1..Len(buffer) : store'[i] = buffer[j]
      BY <1>0, <2>1, Both
    <3> QED BY <2>3, <3>1 DEF NumbersInv
  <2> QED BY <2>1, <2>3, <2>4 DEF NumbersInv
<1>7. CASE Source!onclose
  <2> DEFINE line == Source!Entry(ws.id, "revoked", ws.n)
  <2>1. /\ ws \in SourceSocket /\ ws' = [ws EXCEPT !.state = "closed"]
        /\ UNCHANGED <<viewMode, store, historyEnd>>
        /\ UNCHANGED buffer \/ buffer' = Append(buffer, line)
    BY <1>7 DEF Source!onclose, SourceInv
  <2>2. ws'.n = ws.n /\ ws'.history = ws.history
    BY <2>1 DEF SourceSocket
  <2>3. line \in SourceLine /\ line.kind = "revoked"
    BY <2>1 DEF Source!Entry, SourceLine, SourceSocket
  <2>4. Ended' <=> Ended
    BY <2>1, <2>2 DEF Ended
  <2> QED BY <1>2, <2>1, <2>3, <2>4
<1>8. ASSUME NEW c \in closing, Source!oncloseLate(c) PROVE NumbersInv'
  <2> DEFINE line == Source!Entry(c.id, "revoked", 0)
  <2>1. /\ UNCHANGED <<ws, viewMode, store, historyEnd>>
        /\ UNCHANGED buffer \/ buffer' = Append(buffer, line)
    BY <1>8 DEF Source!oncloseLate
  <2>2. line \in SourceLine /\ line.kind = "revoked"
    BY LogViewsAssumption DEF Source!Entry, SourceLine, SourceInv
  <2>3. Ended' <=> Ended
    BY <2>1 DEF Ended
  <2> QED BY <1>2, <2>1, <2>2, <2>3
<1>9. CASE Source!flush
  <2> DEFINE all == store \o buffer
             n == IF Len(all) > 2 * ws.cap THEN Len(all) - ws.cap ELSE 0
  <2>1. /\ ws \in SourceSocket /\ UNCHANGED <<ws, viewMode>> /\ buffer' = <<>>
        /\ store' = Flushed(store, buffer, n) /\ historyEnd' = Marked(historyEnd, n)
    BY <1>9 DEF Source!flush, Source!Trimmed, Source!Moved, Marked, Flushed, SourceInv
  <2>2. Len(all) \in Nat /\ n \in 0..Len(all)
    <3>1. ws.cap \in Nat
      BY <2>1, LogViewsAssumption DEF SourceSocket
    <3> QED BY <1>0, <3>1, Both
  <2> HIDE DEF n
  <2>3. Ended' <=> Ended
    BY <2>1 DEF Ended
  <2>4. CASE historyEnd = -1
    <3>1. historyEnd' = -1
      BY <2>1, <2>4 DEF Marked
    <3>2. \A i \in 1..Len(store') : \/ \E j \in 1..Len(store) : store'[i] = store[j]
                                    \/ \E j \in 1..Len(buffer) : store'[i] = buffer[j]
      <4>1. 0 \in 0..Len(store)
        BY <1>0
      <4> QED BY <1>0, <2>1, <2>2, <4>1, FlushKeepsMark
    <3>3. ~Ended => \A i \in 1..Len(store') : store'[i].kind # "live"
      BY <3>2 DEF NumbersInv
    <3>4. buffer' = <<>>
      BY <2>1
    <3> QED BY <2>3, <3>1, <3>3, <3>4 DEF NumbersInv
  <2>5. CASE historyEnd # -1
    <3>1. historyEnd \in 0..Len(store) /\ historyEnd >= 0 /\ Ended
      BY <1>0, <2>5 DEF NumbersInv
    <3>2. /\ historyEnd' \in 0..Len(store')
          /\ \A i \in 1..Len(store') :
               /\ i <= historyEnd' => \E j \in 1..Len(store) : j <= historyEnd /\ store'[i] = store[j]
               /\ ~(i <= historyEnd') => \/ \E j \in 1..Len(store) : j > historyEnd /\ store'[i] = store[j]
                                         \/ \E j \in 1..Len(buffer) : store'[i] = buffer[j]
      BY <1>0, <2>1, <2>2, <3>1, FlushKeepsMark
    <3>3. \A j \in 1..Len(store) : /\ j <= historyEnd => store[j].kind # "live"
                                   /\ j > historyEnd => store[j].kind # "history"
      BY <1>0, <3>1 DEF NumbersInv
    <3>4. \A j \in 1..Len(buffer) : buffer[j].kind # "history"
      BY <3>1 DEF NumbersInv
    <3>5. \A i \in 1..Len(store') :
            IF i <= historyEnd' THEN store'[i].kind # "live" ELSE store'[i].kind # "history"
      BY <3>2, <3>3, <3>4
    <3>6. buffer' = <<>>
      BY <2>1
    <3>7. historyEnd' \in 0..Len(store')
      BY <3>2
    <3> QED BY <2>3, <3>1, <3>5, <3>6, <3>7 DEF NumbersInv
  <2> QED BY <2>4, <2>5
<1>10. CASE Source!togglePause
  <2>1. /\ ws \in SourceSocket /\ UNCHANGED <<viewMode, store, buffer, historyEnd>>
        /\ ws' = IF ws.state = "open" THEN [ws EXCEPT !.held = ~paused, !.told = TRUE] ELSE ws
    BY <1>10 DEF Source!togglePause, SourceInv
  <2>2. ws'.n = ws.n /\ ws'.history = ws.history
    BY <2>1 DEF SourceSocket
  <2> QED BY <1>1, <2>1, <2>2 DEF Ended
<1>11. CASE Source!clear
  <2>1. UNCHANGED <<viewMode, ws, buffer>>
        /\ \/ UNCHANGED <<store, historyEnd>>
           \/ store' = <<>> /\ historyEnd' = -1
    <3>1. CASE viewMode = "file"
      BY <1>11, <3>1 DEF Source!clear
    <3>2. CASE viewMode # "file"
      BY <1>11, <3>2 DEF Source!clear
    <3> QED BY <3>1, <3>2
  <2>2. Ended' <=> Ended
    BY <2>1 DEF Ended
  <2>3. CASE UNCHANGED <<store, historyEnd>>
    BY <1>1, <2>1, <2>2, <2>3
  <2>4. CASE store' = <<>> /\ historyEnd' = -1
    BY <2>1, <2>2, <2>4 DEF NumbersInv
  <2> QED BY <2>1, <2>3, <2>4
<1>12. CASE UNCHANGED <<viewMode, ws, store, buffer, historyEnd>>
  BY <1>1, <1>12 DEF Ended
<1>13. CASE (\E n \in Caps : Source!Configure(n))
            \/ \E f \in fetches : Source!ReadChunk(f) \/ Source!EndFetch(f) \/ Source!FailFetch(f)
  BY <1>12, <1>13 DEF Source!Configure, Source!ReadChunk, Source!EndFetch, Source!FailFetch,
     Source!Reads, Source!streamVars
<1> QED
  BY <1>3, <1>4, <1>5, <1>6, <1>7, <1>8, <1>9, <1>10, <1>11, <1>13 DEF Source!SourceNext

LEMMA NumbersKeep ==
  ASSUME SourceInv, StatusInv, FileInv, NumbersInv, [Next]_vars
  PROVE  NumbersInv'
<1>1. CASE SourceStep
  BY <1>1, NumbersSteps DEF SourceStep
<1>2. CASE UNCHANGED sourceVars
  BY <1>2 DEF sourceVars, NumbersInv, Ended
<1> QED BY <1>1, <1>2 DEF Next, MergedStep, ViewStep, vars

(* "Line numbers relative to live start": the lines numbered from 1 on are *)
(* those that are not history, whatever was trimmed (assignLineNumbers.ts, *)
(* useLogStream.ts:20-126).                                                *)
THEOREM NumbersAlwaysStartLive == Spec => []NumbersStartLive
<1> DEFINE Inv == SourceInv /\ StatusInv /\ FileInv /\ NumbersInv
<1>1. Inv => NumbersStartLive
  <2> SUFFICES ASSUME SourceInv, NumbersInv, historyEnd >= 0, NEW i \in 1..Len(store),
                      store[i].kind # "revoked"
               PROVE  (Source!LineNumber(i) >= 1) <=> (store[i].kind = "live")
    BY DEF NumbersStartLive, Source!NumbersStartLive
  <2>1. store[i].kind \in {"history", "live", "revoked"} /\ Len(store) \in Nat
    <3>1. store[i] \in SourceLine /\ Len(store) \in Nat
      BY DEF SourceInv
    <3> QED BY <3>1 DEF SourceLine
  <2>2. historyEnd \in Nat /\ i \in Nat /\ i >= 1
    BY <2>1 DEF NumbersInv
  <2>3. Source!LineNumber(i) >= 1 <=> i > historyEnd
    BY <2>2 DEF Source!LineNumber
  <2>4. IF i <= historyEnd THEN store[i].kind # "live" ELSE store[i].kind # "history"
    BY DEF NumbersInv
  <2> QED BY <2>1, <2>2, <2>3, <2>4
<1>2. Init => Inv
  BY SourceInitially, StatusInitially, NumbersInitially
<1>3. Inv /\ [Next]_vars => Inv'
  BY StatusKeeps, NumbersKeep
<1> QED BY <1>1, <1>2, <1>3, PTL DEF Spec

-----------------------------------------------------------------------------
(* The mark of the merged view is set when the history of every session    *)
(* has ended; then each socket is past its own, so no history comes after. *)
Past == {s \in sessions : sockets[s].n > MergedHistory}

MarkInv ==
  /\ historyDone = Past
  /\ mergedEnd = -1 \/ mergedEnd \in 0..Len(mergedStore)
  /\ mergedEnd >= 0 =>
       /\ Past = sessions
       /\ \A i \in 1..Len(mergedStore) : i > mergedEnd => mergedStore[i].kind # "history"
       /\ \A i \in 1..Len(mergedBuffer) : mergedBuffer[i].kind # "history"

OpenInv == openCount = Merged!countOpen(sockets)

LEMMA SameCardinality == \A S : Merged!Cardinality(S) = Cardinality(S)
  BY DEF Merged!Cardinality, Cardinality

LEMMA NoneOpen ==
  ASSUME NEW ids
  PROVE  Merged!countOpen([s \in ids |-> Merged!Socket]) = 0
<1>1. {s \in DOMAIN [t \in ids |-> Merged!Socket] :
         [t \in ids |-> Merged!Socket][s].state = "open"} = {}
  BY DEF Merged!Socket
<1>2. Cardinality({}) = 0
  BY FS_EmptySet
<1> QED BY <1>1, <1>2, SameCardinality DEF Merged!countOpen

LEMMA NonePast ==
  ASSUME NEW ids
  PROVE  {s \in ids : [t \in ids |-> Merged!Socket][s].n > MergedHistory} = {}
  BY LogViewsAssumption DEF Merged!Socket

LEMMA MarkInitially == Init => MarkInv /\ OpenInv
<1> SUFFICES ASSUME Merged!MergedInit PROVE MarkInv /\ OpenInv
  BY DEF Init
<1>1. /\ sockets = [s \in sessions |-> Merged!Socket] /\ mergedEnd = -1 /\ historyDone = {}
      /\ openCount = 0
  BY DEF Merged!MergedInit
<1> QED BY <1>1, NoneOpen, NonePast DEF MarkInv, OpenInv, Past

LEMMA OpenSteps ==
  ASSUME MergedInv, OpenInv, Merged!MergedNext
  PROVE  OpenInv'
<1>1. ASSUME NEW ids, Merged!Reconnect(ids) PROVE OpenInv'
  BY <1>1, NoneOpen DEF Merged!Reconnect, OpenInv
<1>2. ASSUME NEW s \in DOMAIN sockets, Merged!onopen(s) \/ Merged!onclose(s) PROVE OpenInv'
  BY <1>2 DEF Merged!onopen, Merged!onclose, OpenInv
<1>3. ASSUME openCount' = openCount, DOMAIN sockets' = DOMAIN sockets,
             \A s \in DOMAIN sockets : sockets'[s].state = sockets[s].state
      PROVE  OpenInv'
  <2>1. {s \in DOMAIN sockets' : sockets'[s].state = "open"}
          = {s \in DOMAIN sockets : sockets[s].state = "open"}
    BY <1>3
  <2> QED BY <1>3, <2>1 DEF OpenInv, Merged!countOpen
<1>4. ASSUME NEW s \in DOMAIN sockets, Merged!onmessage(s) \/ Merged!onhistoryend(s)
      PROVE  OpenInv'
  <2>1. openCount' = openCount /\ sockets' = [sockets EXCEPT ![s].n = @ + 1]
    BY <1>4 DEF Merged!onmessage, Merged!onhistoryend, Merged!Sends
  <2>2. \A t \in DOMAIN sockets : sockets[t] \in MergedSocket
    BY DEF MergedInv
  <2>3. \A t \in DOMAIN sockets : sockets'[t].state = sockets[t].state
    BY <2>1, <2>2 DEF MergedSocket
  <2> QED BY <1>3, <2>1, <2>3
<1>5. CASE Merged!togglePause
  <2>1. /\ openCount' = openCount
        /\ sockets' = [s \in DOMAIN sockets |->
             IF sockets[s].state = "open" THEN [sockets[s] EXCEPT !.held = ~mergedPaused] ELSE sockets[s]]
    BY <1>5 DEF Merged!togglePause
  <2>2. \A t \in DOMAIN sockets : sockets[t] \in MergedSocket
    BY DEF MergedInv
  <2>3. \A t \in DOMAIN sockets : sockets'[t].state = sockets[t].state
    BY <2>1, <2>2 DEF MergedSocket
  <2> QED BY <1>3, <2>1, <2>3
<1>6. CASE Merged!flush \/ Merged!clear
  BY <1>6 DEF Merged!flush, Merged!clear, OpenInv
<1> QED
  BY <1>1, <1>2, <1>4, <1>5, <1>6 DEF Merged!MergedNext, Merged!AddSession, Merged!onRemoveSession

LEMMA MarkSteps ==
  ASSUME MergedInv, MarkInv, Merged!MergedNext
  PROVE  MarkInv'
<1>0. /\ mergedStore \in Seq(MergedLine) /\ mergedBuffer \in Seq(MergedLine)
      /\ Len(mergedStore) \in Nat /\ MergedHistory \in Nat /\ Cap \in Nat
      /\ DOMAIN sockets = sessions /\ sessions \subseteq Sessions
      /\ \A s \in sessions : sockets[s] \in MergedSocket /\ sockets[s].n \in Nat
  BY LogViewsAssumption DEF MergedInv, MergedSocket, Numbers
<1>1. ASSUME NEW ids, Merged!Reconnect(ids) PROVE MarkInv'
  BY <1>1, NonePast DEF Merged!Reconnect, MarkInv, Past
<1>2. ASSUME sessions' = sessions, \A s \in sessions : sockets'[s].n = sockets[s].n
      PROVE  Past' = Past
  BY <1>2 DEF Past
<1>3. ASSUME NEW s \in DOMAIN sockets, Merged!onopen(s) PROVE MarkInv'
  <2>1. /\ sockets' = [sockets EXCEPT ![s].state = "open"]
        /\ UNCHANGED <<sessions, mergedStore, mergedBuffer, mergedEnd, historyDone>>
    BY <1>3 DEF Merged!onopen
  <2>2. \A t \in sessions : sockets'[t].n = sockets[t].n
    BY <1>0, <2>1 DEF MergedSocket
  <2> QED BY <1>2, <2>1, <2>2 DEF MarkInv
<1>4. ASSUME NEW s \in DOMAIN sockets, Merged!onclose(s) PROVE MarkInv'
  <2> DEFINE line == [of |-> s, at |-> effects, kind |-> "revoked", n |-> sockets[s].n]
  <2>1. /\ sockets' = [sockets EXCEPT ![s].state = "closed"]
        /\ UNCHANGED <<sessions, mergedStore, mergedEnd, historyDone>>
        /\ UNCHANGED mergedBuffer \/ mergedBuffer' = Append(mergedBuffer, line)
    BY <1>4 DEF Merged!onclose
  <2>2. \A t \in sessions : sockets'[t].n = sockets[t].n
    BY <1>0, <2>1 DEF MergedSocket
  <2>3. line \in MergedLine /\ line.kind = "revoked"
    BY <1>0 DEF MergedLine, MergedInv, MergedSocket
  <2> HIDE DEF line
  <2>4. \A i \in 1..Len(mergedBuffer') :
          \/ i \in 1..Len(mergedBuffer) /\ mergedBuffer'[i] = mergedBuffer[i]
          \/ mergedBuffer'[i] = line
    BY <1>0, <2>1, <2>3, Added
  <2>5. Past' = Past
    BY <1>2, <2>1, <2>2
  <2>6. (\A i \in 1..Len(mergedBuffer) : mergedBuffer[i].kind # "history")
          => \A i \in 1..Len(mergedBuffer') : mergedBuffer'[i].kind # "history"
    BY <2>3, <2>4
  <2> QED BY <2>1, <2>5, <2>6 DEF MarkInv
<1>5. ASSUME NEW s \in DOMAIN sockets, Merged!onmessage(s) PROVE MarkInv'
  <2> DEFINE line == [of |-> s, at |-> effects, n |-> sockets[s].n,
                      kind |-> IF sockets[s].n < MergedHistory THEN "history" ELSE "live"]
  <2>1. /\ sockets' = [sockets EXCEPT ![s].n = @ + 1] /\ sockets[s].n # MergedHistory
        /\ UNCHANGED <<sessions, mergedStore, mergedEnd, historyDone>>
        /\ mergedBuffer' = Append(mergedBuffer, line)
    BY <1>5 DEF Merged!onmessage, Merged!Sends
  <2>2. \A t \in sessions : sockets'[t].n = IF t = s THEN sockets[t].n + 1 ELSE sockets[t].n
    BY <1>0, <2>1 DEF MergedSocket
  <2>3. /\ line \in MergedLine
        /\ line.kind = IF sockets[s].n < MergedHistory THEN "history" ELSE "live"
    BY <1>0 DEF MergedLine, MergedInv, MergedSocket
  <2> HIDE DEF line
  <2>4. \A i \in 1..Len(mergedBuffer') :
          \/ i \in 1..Len(mergedBuffer) /\ mergedBuffer'[i] = mergedBuffer[i]
          \/ mergedBuffer'[i] = line
    BY <1>0, <2>1, <2>3, Added
  <2>5. Past' = Past
    <3>1. sockets[s].n + 1 > MergedHistory <=> sockets[s].n > MergedHistory
      BY <1>0, <2>1
    <3>2. \A t \in sessions : sockets'[t].n > MergedHistory <=> sockets[t].n > MergedHistory
      BY <2>2, <3>1
    <3> QED BY <2>1, <3>2 DEF Past
  <2>6. Past = sessions => ~(sockets[s].n < MergedHistory)
    BY <1>0 DEF Past
  <2>7. Past = sessions /\ (\A i \in 1..Len(mergedBuffer) : mergedBuffer[i].kind # "history")
          => \A i \in 1..Len(mergedBuffer') : mergedBuffer'[i].kind # "history"
    BY <2>3, <2>4, <2>6
  <2> QED BY <2>1, <2>5, <2>7 DEF MarkInv
<1>6. ASSUME NEW s \in DOMAIN sockets, Merged!onhistoryend(s) PROVE MarkInv'
  <2>1. /\ sockets' = [sockets EXCEPT ![s].n = @ + 1] /\ sockets[s].n = MergedHistory
        /\ sessions' = sessions /\ historyDone' = historyDone \cup {s}
        /\ \/ /\ Merged!AllDone(historyDone')
              /\ mergedStore' = mergedStore \o mergedBuffer /\ mergedBuffer' = <<>>
              /\ mergedEnd' = Len(mergedStore')
           \/ UNCHANGED <<mergedStore, mergedBuffer, mergedEnd>>
    BY <1>6 DEF Merged!onhistoryend, Merged!Sends
  <2>2. \A t \in sessions : sockets'[t].n = IF t = s THEN sockets[t].n + 1 ELSE sockets[t].n
    BY <1>0, <2>1 DEF MergedSocket
  <2>3. Past' = Past \cup {s} /\ historyDone' = Past'
    <3>1. MergedHistory + 1 > MergedHistory
      BY <1>0
    <3>2. \A t \in sessions : sockets'[t].n > MergedHistory <=> t = s \/ sockets[t].n > MergedHistory
      BY <2>1, <2>2, <3>1
    <3>3. Past' = Past \cup {s}
      BY <1>0, <2>1, <3>2 DEF Past
    <3> QED BY <2>1, <3>3 DEF MarkInv
  <2>4. mergedEnd = -1
    <3>1. s \notin Past
      BY <1>0, <2>1 DEF Past
    <3>2. ~(mergedEnd >= 0)
      BY <1>0, <3>1 DEF MarkInv
    <3> QED BY <1>0, <3>2 DEF MarkInv
  <2>5. CASE UNCHANGED <<mergedStore, mergedBuffer, mergedEnd>>
    BY <2>3, <2>4, <2>5 DEF MarkInv
  <2>6. CASE /\ Merged!AllDone(historyDone')
             /\ mergedStore' = mergedStore \o mergedBuffer /\ mergedBuffer' = <<>>
             /\ mergedEnd' = Len(mergedStore')
    <3>1. Past' = sessions'
      <4>1. IsFiniteSet(sessions) /\ Past' \in SUBSET sessions
        BY <1>0, <2>1, LogViewsAssumption, FS_Subset DEF Past
      <4>2. Cardinality(Past') >= Cardinality(sessions)
        BY <2>1, <2>3, <2>6, SameCardinality DEF Merged!AllDone
      <4>3. /\ Cardinality(Past') <= Cardinality(sessions)
            /\ Cardinality(Past') \in Nat /\ Cardinality(sessions) \in Nat
        BY <4>1, FS_Subset, FS_CardinalityType
      <4>4. Cardinality(sessions) = Cardinality(Past')
        BY <4>2, <4>3
      <4> QED BY <2>1, <4>1, <4>4, FS_Subset
    <3>2. Len(mergedStore') \in Nat
      BY <1>0, <2>6, Both
    <3>3. \A i \in 1..Len(mergedStore') : ~(i > mergedEnd')
      BY <2>6, <3>2
    <3>4. mergedEnd' \in 0..Len(mergedStore')
      BY <2>6, <3>2
    <3>5. mergedBuffer' = <<>>
      BY <2>6
    <3> QED BY <2>3, <3>1, <3>3, <3>4, <3>5 DEF MarkInv
  <2> QED BY <2>1, <2>5, <2>6
<1>7. CASE Merged!flush
  <2> DEFINE n == Merged!Fewer(mergedStore \o mergedBuffer)
  <2>1. /\ UNCHANGED <<sessions, sockets, historyDone>> /\ mergedBuffer' = <<>>
        /\ mergedStore' = Flushed(mergedStore, mergedBuffer, n)
        /\ mergedEnd' = Marked(mergedEnd, n)
    BY <1>7 DEF Merged!flush, Marked, Flushed
  <2>2. n \in 0..Len(mergedStore \o mergedBuffer)
    BY <1>0, Both DEF Merged!Fewer
  <2> HIDE DEF n
  <2>3. Past' = Past
    BY <2>1 DEF Past
  <2>4. CASE mergedEnd = -1
    <3>1. mergedEnd' = -1
      BY <2>1, <2>4 DEF Marked
    <3> QED BY <2>1, <2>3, <3>1 DEF MarkInv
  <2>5. CASE mergedEnd # -1
    <3>1. mergedEnd \in 0..Len(mergedStore) /\ mergedEnd >= 0
      BY <1>0, <2>5 DEF MarkInv
    <3>2. /\ mergedEnd' \in 0..Len(mergedStore')
          /\ \A i \in 1..Len(mergedStore') :
               /\ i <= mergedEnd' =>
                    \E j \in 1..Len(mergedStore) : j <= mergedEnd /\ mergedStore'[i] = mergedStore[j]
               /\ ~(i <= mergedEnd') =>
                    \/ \E j \in 1..Len(mergedStore) : j > mergedEnd /\ mergedStore'[i] = mergedStore[j]
                    \/ \E j \in 1..Len(mergedBuffer) : mergedStore'[i] = mergedBuffer[j]
      <4> DEFINE out == Flushed(mergedStore, mergedBuffer, n)
                 new == Marked(mergedEnd, n)
      <4>1. /\ new \in 0..Len(out)
            /\ \A i \in 1..Len(out) :
                 /\ i <= new => \E j \in 1..Len(mergedStore) : j <= mergedEnd /\ out[i] = mergedStore[j]
                 /\ ~(i <= new) =>
                      \/ \E j \in 1..Len(mergedStore) : j > mergedEnd /\ out[i] = mergedStore[j]
                      \/ \E j \in 1..Len(mergedBuffer) : out[i] = mergedBuffer[j]
        <5>1. mergedStore \in Seq(MergedLine) /\ mergedBuffer \in Seq(MergedLine)
          BY <1>0
        <5>2. mergedEnd \in 0..Len(mergedStore)
          BY <3>1
        <5> QED BY ONLY <2>2, <5>1, <5>2, FlushKeepsMark
      <4>2. mergedStore' = out /\ mergedEnd' = new
        BY <2>1
      <4> HIDE DEF out, new
      <4> QED BY <4>1, <4>2
    <3>3. /\ \A j \in 1..Len(mergedStore) : j > mergedEnd => mergedStore[j].kind # "history"
          /\ \A j \in 1..Len(mergedBuffer) : mergedBuffer[j].kind # "history"
          /\ Past = sessions
      BY <3>1 DEF MarkInv
    <3>4. \A i \in 1..Len(mergedStore') : ~(i <= mergedEnd') => mergedStore'[i].kind # "history"
      BY <3>2, <3>3
    <3>5. \A i \in 1..Len(mergedStore') : i > mergedEnd' => ~(i <= mergedEnd')
      BY <3>2
    <3>6. mergedBuffer' = <<>> /\ mergedEnd' \in 0..Len(mergedStore')
      BY <2>1, <3>2
    <3> QED BY <2>1, <2>3, <3>3, <3>4, <3>5, <3>6 DEF MarkInv
  <2> QED BY <2>4, <2>5
<1>8. CASE Merged!togglePause
  <2>1. /\ UNCHANGED <<sessions, mergedStore, mergedBuffer, mergedEnd, historyDone>>
        /\ sockets' = [s \in DOMAIN sockets |->
             IF sockets[s].state = "open" THEN [sockets[s] EXCEPT !.held = ~mergedPaused] ELSE sockets[s]]
    BY <1>8 DEF Merged!togglePause
  <2>2. \A t \in sessions : sockets'[t].n = sockets[t].n
    BY <1>0, <2>1 DEF MergedSocket
  <2> QED BY <1>2, <2>1, <2>2 DEF MarkInv
<1>9. CASE Merged!clear
  <2>1. mergedEnd' = -1 /\ UNCHANGED <<sessions, sockets, historyDone>>
    BY <1>9 DEF Merged!clear
  <2> QED BY <2>1 DEF MarkInv, Past
<1> QED
  BY <1>1, <1>3, <1>4, <1>5, <1>6, <1>7, <1>8, <1>9
  DEF Merged!MergedNext, Merged!AddSession, Merged!onRemoveSession

LEMMA MarkKeeps ==
  ASSUME MergedInv, MarkInv, OpenInv, [Next]_vars
  PROVE  MergedInv' /\ MarkInv' /\ OpenInv'
<1>1. MergedInv'
  BY MergedRefines
<1>2. CASE MergedStep
  BY <1>1, <1>2, MarkSteps, OpenSteps DEF MergedStep
<1>3. CASE UNCHANGED mergedVars
  BY <1>1, <1>3 DEF mergedVars, MarkInv, OpenInv, Past, Merged!countOpen
<1> QED BY <1>2, <1>3 DEF Next, SourceStep, ViewStep, vars

(* No history of any session comes after the mark of the merged view, and  *)
(* it counts the open sources right (MergedLogPanel.tsx:33-150).           *)
THEOREM HistoriesAlwaysComeFirst == Spec => []HistoriesComeFirst
<1> DEFINE Inv == MergedInv /\ MarkInv /\ OpenInv
<1>1. Inv => HistoriesComeFirst
  <2> SUFFICES ASSUME Inv PROVE HistoriesComeFirst
    OBVIOUS
  <2>1. Len(mergedStore) \in Nat
    BY DEF MergedInv
  <2>2. mergedEnd >= 0 =>
          /\ mergedEnd <= Len(mergedStore)
          /\ \A i \in mergedEnd + 1..Len(mergedStore) : mergedStore[i].kind # "history"
    <3> SUFFICES ASSUME mergedEnd >= 0
                 PROVE  /\ mergedEnd <= Len(mergedStore)
                        /\ \A i \in mergedEnd + 1..Len(mergedStore) : mergedStore[i].kind # "history"
      OBVIOUS
    <3>1. mergedEnd \in 0..Len(mergedStore)
      BY DEF MarkInv
    <3>2. \A i \in mergedEnd + 1..Len(mergedStore) : i \in 1..Len(mergedStore) /\ i > mergedEnd
      BY <2>1, <3>1
    <3> QED BY <2>1, <3>1, <3>2 DEF MarkInv
  <2>3. mergedEnd >= 0 => \A i \in 1..Len(mergedBuffer) : mergedBuffer[i].kind # "history"
    BY DEF MarkInv
  <2>4. openCount = Merged!countOpen(sockets)
    BY DEF OpenInv
  <2> QED BY <2>2, <2>3, <2>4 DEF HistoriesComeFirst, Merged!HistoriesComeFirst
<1>2. Init => Inv
  BY MergedInitially, MarkInitially
<1>3. Inv /\ [Next]_vars => Inv'
  BY MarkKeeps
<1> QED BY <1>1, <1>2, <1>3, PTL DEF Spec

-----------------------------------------------------------------------------
(* While follow is off and nothing is dropped or filtered anew, the lines  *)
(* shown are those shown when it went off and those that arrived since.    *)
PillInv ==
  /\ logs \in Seq(Kinds) /\ since \in Seq(Kinds)
  /\ unseenFrom \in Nat /\ follow \in BOOLEAN /\ disturbed \in BOOLEAN
  /\ ~follow /\ ~disturbed => View!Count(logs) = unseenFrom + View!Count(since)

LEMMA ViewCardinality == \A S : View!Cardinality(S) = Cardinality(S)
  BY DEF View!Cardinality, Cardinality

LEMMA CountIsNatural ==
  ASSUME NEW lines \in Seq(Kinds)
  PROVE  View!Count(lines) \in Nat /\ IsFiniteSet(View!Filtered(lines))
<1>1. IsFiniteSet(1..Len(lines))
  BY FS_Interval
<1>2. View!Filtered(lines) \in SUBSET (1..Len(lines))
  BY DEF View!Filtered
<1>3. IsFiniteSet(View!Filtered(lines))
  BY <1>1, <1>2, FS_Subset
<1> QED BY <1>3, FS_CardinalityType, ViewCardinality DEF View!Count

LEMMA CountOfNone == View!Count(<<>>) = 0
<1>1. View!Filtered(<<>>) = {}
  BY DEF View!Filtered
<1> QED BY <1>1, FS_EmptySet, ViewCardinality DEF View!Count

LEMMA CountAdds ==
  ASSUME NEW lines \in Seq(Kinds), NEW k \in Kinds
  PROVE  /\ View!Passes(k) => View!Count(Append(lines, k)) = View!Count(lines) + 1
         /\ ~View!Passes(k) => View!Count(Append(lines, k)) = View!Count(lines)
<1> DEFINE more == Append(lines, k)
           last == Len(lines) + 1
<1>1. /\ Len(lines) \in Nat /\ Len(more) = last /\ more[last] = k
      /\ \A i \in 1..Len(lines) : more[i] = lines[i]
  BY AppendProperties
<1> HIDE DEF more
<1>2. last \notin View!Filtered(lines)
  BY <1>1 DEF View!Filtered
<1>3. \A i : i \in 1..last <=> i \in 1..Len(lines) \/ i = last
  BY <1>1
<1>4. CASE View!Passes(k)
  <2>1. View!Filtered(more) = View!Filtered(lines) \cup {last}
    BY <1>1, <1>3, <1>4 DEF View!Filtered
  <2>2. Cardinality(View!Filtered(more)) = Cardinality(View!Filtered(lines)) + 1
    BY <1>2, <2>1, CountIsNatural, FS_AddElement
  <2> QED BY <1>4, <2>2, ViewCardinality DEF View!Count, more
<1>5. CASE ~View!Passes(k)
  <2>1. View!Filtered(more) = View!Filtered(lines)
    BY <1>1, <1>3, <1>5 DEF View!Filtered
  <2> QED BY <1>5, <2>1 DEF View!Count, more
<1> QED BY <1>4, <1>5

LEMMA PillInitially == Init => PillInv
<1> SUFFICES ASSUME View!ViewInit PROVE PillInv
  BY DEF Init
<1>1. logs = <<>> /\ since = <<>> /\ unseenFrom = 0 /\ follow = TRUE /\ disturbed = FALSE
  BY DEF View!ViewInit
<1>2. logs \in Seq(Kinds) /\ since \in Seq(Kinds) /\ unseenFrom \in Nat
  BY <1>1, NoLines
<1> QED BY <1>1, <1>2, Zenon DEF PillInv

LEMMA PillSteps ==
  ASSUME PillInv, View!ViewNext
  PROVE  PillInv'
<1>0. Cap \in Nat \ {0}
  BY LogViewsAssumption
<1>1. ASSUME UNCHANGED <<hidden, timeFilter, debouncedSearch>>
      PROVE  (View!Count(logs))' = View!Count(logs') /\ (View!Count(since))' = View!Count(since')
  BY <1>1 DEF View!Count, View!Filtered, View!Passes
<1>2. ASSUME NEW k \in Kinds, View!Arrive(k) PROVE PillInv'
  <2> DEFINE all == Append(logs, k)
             cut == Len(all) > 2 * Cap
  <2>1. /\ logs' = IF cut THEN SubSeq(all, Len(all) - Cap + 1, Len(all)) ELSE all
        /\ disturbed' = (disturbed \/ cut)
        /\ since' = IF follow THEN <<>> ELSE Append(since, k)
        /\ UNCHANGED <<hidden, timeFilter, debouncedSearch, follow, unseenFrom>>
    BY <1>2 DEF View!Arrive
  <2>2. all \in Seq(Kinds) /\ Len(all) \in Nat
    BY AppendLine DEF PillInv
  <2>3. logs' \in Seq(Kinds)
    <3>1. CASE cut
      <4>1. Len(all) - Cap \in 0..Len(all)
        BY <1>0, <2>2, <3>1
      <4>2. SubSeq(all, (Len(all) - Cap) + 1, Len(all)) \in Seq(Kinds)
        BY <2>2, <4>1, EndOf
      <4> QED BY <2>1, <3>1, <4>2
    <3> QED BY <2>1, <2>2, <3>1
  <2>4. since' \in Seq(Kinds)
    BY <2>1, NoLines, AppendLine DEF PillInv
  <2>5. unseenFrom' \in Nat /\ follow' \in BOOLEAN
    BY <2>1 DEF PillInv
  <2>6. disturbed' \in BOOLEAN
    BY <2>1
  <2>7. ASSUME ~follow, ~disturbed, ~cut
        PROVE  View!Count(all) = unseenFrom + View!Count(Append(since, k))
    <3>1. View!Count(logs) = unseenFrom + View!Count(since) /\ unseenFrom \in Nat
      BY <2>7 DEF PillInv
    <3>2. View!Count(since) \in Nat /\ View!Count(logs) \in Nat
      BY CountIsNatural DEF PillInv
    <3>3. CASE View!Passes(k)
      <4>1. View!Count(all) = View!Count(logs) + 1
        BY <3>3, CountAdds DEF PillInv
      <4>2. View!Count(Append(since, k)) = View!Count(since) + 1
        BY <3>3, CountAdds DEF PillInv
      <4> QED BY <3>1, <3>2, <4>1, <4>2
    <3>4. CASE ~View!Passes(k)
      <4>1. View!Count(all) = View!Count(logs)
        BY <3>4, CountAdds DEF PillInv
      <4>2. View!Count(Append(since, k)) = View!Count(since)
        BY <3>4, CountAdds DEF PillInv
      <4> QED BY <3>1, <4>1, <4>2
    <3> QED BY <3>3, <3>4
  <2>8. ~follow' /\ ~disturbed' => (View!Count(logs))' = unseenFrom' + (View!Count(since))'
    <3> SUFFICES ASSUME ~follow', ~disturbed'
                 PROVE  (View!Count(logs))' = unseenFrom' + (View!Count(since))'
      OBVIOUS
    <3>1. ~follow /\ ~disturbed /\ ~cut
      BY <2>1
    <3>2. logs' = all /\ since' = Append(since, k) /\ unseenFrom' = unseenFrom
      BY <2>1, <3>1
    <3>3. (View!Count(logs))' = View!Count(all) /\ (View!Count(since))' = View!Count(Append(since, k))
      BY <1>1, <2>1, <3>2
    <3> QED BY <2>7, <3>1, <3>2, <3>3
  <2> QED BY <2>3, <2>4, <2>5, <2>6, <2>8 DEF PillInv
<1>3. ASSUME disturbed' = TRUE, UNCHANGED <<follow, unseenFrom, since>>, logs' \in Seq(Kinds)
      PROVE  PillInv'
  BY <1>3 DEF PillInv
<1>4. CASE View!clear
  BY <1>3, <1>4, NoLines DEF View!clear
<1>5. CASE View!resetFilters \/ View!Debounce \/ (\E k \in Kinds : View!toggle(k))
            \/ \E on \in BOOLEAN : View!setTimeFilter(on)
  <2>1. disturbed' = TRUE /\ UNCHANGED <<logs, follow, unseenFrom, since>>
    BY <1>5 DEF View!resetFilters, View!Debounce, View!toggle, View!setTimeFilter, View!Refilter
  <2> QED BY <1>3, <2>1 DEF PillInv
<1>6. ASSUME UNCHANGED <<hidden, timeFilter, debouncedSearch, logs, since, unseenFrom, follow, disturbed>>
      PROVE  PillInv'
  BY <1>1, <1>6 DEF PillInv
<1>7. CASE View!togglePause \/ \E text \in Kinds \cup {NoSearch} : View!setSearch(text)
  BY <1>6, <1>7 DEF View!togglePause, View!setSearch
<1>8. ASSUME NEW on \in BOOLEAN, View!setFollow(on) PROVE PillInv'
  <2>1. /\ follow # on /\ follow' = on /\ since' = <<>> /\ disturbed' = FALSE
        /\ unseenFrom' = IF on THEN unseenFrom ELSE View!Count(logs)
        /\ UNCHANGED <<hidden, timeFilter, debouncedSearch, logs>>
    BY <1>8 DEF View!setFollow, View!Baseline
  <2>2. View!Count(logs) \in Nat
    BY CountIsNatural DEF PillInv
  <2>3. unseenFrom' \in Nat
    BY <2>1, <2>2 DEF PillInv
  <2>4. (View!Count(logs))' = View!Count(logs) /\ (View!Count(since))' = 0
    BY <1>1, <2>1, CountOfNone
  <2>5. ~follow' => (View!Count(logs))' = unseenFrom' + (View!Count(since))'
    BY <2>1, <2>2, <2>4
  <2>6. logs' \in Seq(Kinds) /\ since' \in Seq(Kinds)
    BY <2>1, NoLines DEF PillInv
  <2> QED BY <2>1, <2>3, <2>5, <2>6 DEF PillInv
<1>9. CASE View!FollowButton \/ View!Pill \/ \E on \in BOOLEAN : View!onScroll(on)
  <2>1. \E on \in BOOLEAN : View!setFollow(on)
    <3>1. CASE View!FollowButton
      <4>1. CASE follow = TRUE
        <5>1. View!setFollow(FALSE)
          BY <3>1, <4>1 DEF View!FollowButton, View!setFollow, View!Baseline
        <5> QED BY <5>1
      <4>2. CASE follow = FALSE
        <5>1. View!setFollow(TRUE)
          BY <3>1, <4>2 DEF View!FollowButton, View!setFollow, View!Baseline
        <5> QED BY <5>1
      <4>3. follow = TRUE \/ follow = FALSE
        BY Zenon DEF PillInv
      <4> QED BY <4>1, <4>2, <4>3
    <3>2. CASE View!Pill
      BY <3>2 DEF View!Pill
    <3>3. CASE \E on \in BOOLEAN : View!onScroll(on)
      BY <3>3 DEF View!onScroll
    <3> QED BY <1>9, <3>1, <3>2, <3>3
  <2> QED BY <1>8, <2>1
<1> QED
  BY <1>2, <1>4, <1>5, <1>7, <1>9 DEF View!ViewNext

LEMMA PillKeeps == PillInv /\ [Next]_vars => PillInv'
<1> SUFFICES ASSUME PillInv, [Next]_vars PROVE PillInv'
  OBVIOUS
<1>1. CASE ViewStep
  BY <1>1, PillSteps DEF ViewStep
<1>2. CASE UNCHANGED viewVars
  BY <1>2 DEF viewVars, PillInv, View!Count, View!Filtered, View!Passes
<1> QED BY <1>1, <1>2 DEF Next, SourceStep, MergedStep, vars

(* The pill counts the lines that arrived since follow was switched off    *)
(* and that the filters let through (useLogViewState.ts:78-92,             *)
(* LogLines.tsx:95).                                                       *)
THEOREM PillAlwaysCountsArrivals == Spec => []PillCountsArrivals
<1>1. PillInv => PillCountsArrivals
  <2> SUFFICES ASSUME PillInv, ~follow, ~disturbed PROVE View!unseen = View!Count(since)
    BY DEF PillCountsArrivals, View!PillCountsArrivals
  <2>1. View!Count(logs) = unseenFrom + View!Count(since) /\ unseenFrom \in Nat
    BY DEF PillInv
  <2>2. View!Count(since) \in Nat
    BY CountIsNatural DEF PillInv
  <2> QED BY <2>1, <2>2 DEF View!unseen
<1> QED BY <1>1, PillInitially, PillKeeps, PTL DEF Spec
=============================================================================
