------------------------------ MODULE LogViews ------------------------------
(***************************************************************************)
(* The log views of the web interface (web/src, components/LogConsole):    *)
(* the source of a single view, the source of the merged view, and what    *)
(* either shows of its lines.  They share no state; a behaviour follows    *)
(* one of them, and the others stay as they begin.                         *)
(***************************************************************************)
EXTENDS Integers, FiniteSets

CONSTANTS
  Caps, History, MaxLive, Chunks, MaxOpened, NoSocket,
  Sessions, Cap, MergedHistory, MergedLive, MaxEffects,
  Kinds, Dated, NoSearch, MaxLines

ASSUME LogViewsAssumption ==
  /\ Caps \subseteq Nat \ {0} /\ Cap \in Nat \ {0}
  /\ \E least \in Caps : \A n \in Caps : least <= n
  /\ IsFiniteSet(Sessions)
  /\ {History, MaxLive, MergedHistory, MergedLive, Chunks, MaxLines} \subseteq Nat
  /\ MaxOpened \in Nat \ {0} /\ MaxEffects \in Nat \ {0}
  /\ Dated \subseteq Kinds /\ NoSearch \notin Kinds

VARIABLES
  followed,       \* the part the behaviour is about
  viewMode, maxLines, ws, closing, store, buffer, historyEnd, connected, paused,
  fileStore, loading, failed, fetches, opened, late,
  sessions, sockets, mergedStore, mergedBuffer, mergedEnd, historyDone, openCount,
  mergedPaused, effects,
  logs, hidden, search, debouncedSearch, timeFilter, follow, viewPaused, unseenFrom,
  arrived, since, disturbed

Source == INSTANCE LogSource
Merged == INSTANCE MergedLog WITH
  store <- mergedStore, buffer <- mergedBuffer, historyEnd <- mergedEnd,
  paused <- mergedPaused, History <- MergedHistory, MaxLive <- MergedLive
View   == INSTANCE LogView WITH paused <- viewPaused

sourceVars == <<viewMode, maxLines, ws, closing, store, buffer, historyEnd, connected, paused,
                fileStore, loading, failed, fetches, opened, late>>
mergedVars == <<sessions, sockets, mergedStore, mergedBuffer, mergedEnd, historyDone,
                openCount, mergedPaused, effects>>
viewVars   == <<logs, hidden, search, debouncedSearch, timeFilter, follow, viewPaused,
                unseenFrom, arrived, since, disturbed>>
vars == <<followed, sourceVars, mergedVars, viewVars>>

Init ==
  /\ followed \in {"source", "merged", "view"}
  /\ Source!SourceInit /\ Merged!MergedInit /\ View!ViewInit
  /\ followed # "source" => \A n \in Caps : n <= maxLines
  /\ followed # "merged" => sessions = Sessions

SourceStep ==
  /\ followed = "source" /\ Source!SourceNext
  /\ UNCHANGED <<followed, mergedVars, viewVars>>
MergedStep ==
  /\ followed = "merged" /\ Merged!MergedNext
  /\ UNCHANGED <<followed, sourceVars, viewVars>>
ViewStep ==
  /\ followed = "view" /\ View!ViewNext
  /\ UNCHANGED <<followed, sourceVars, mergedVars>>

Next == SourceStep \/ MergedStep \/ ViewStep

Spec == Init /\ [][Next]_vars

-----------------------------------------------------------------------------
(* The properties of the parts; each is stated and explained in its module. *)
ShowsATail         == Source!ShowsATail
MergedShowsATail   == Merged!MergedShowsATail
NumbersStartLive   == Source!NumbersStartLive
StatusIsTrue       == Source!StatusIsTrue
HistoriesComeFirst == Merged!HistoriesComeFirst
PillCountsArrivals == View!PillCountsArrivals
PillCountsNoOthers == View!PillCountsNoOthers
=============================================================================
