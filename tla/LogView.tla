------------------------------ MODULE LogView -------------------------------
(***************************************************************************)
(* What a log view shows of the lines it has (web/src, useLogViewState.ts, *)
(* LogLines.tsx and the controls around them): filters, following the end, *)
(* and the pill that counts new lines while it does not follow.            *)
(*                                                                         *)
(* A line is its kind: what levels, facets, the search and the time range  *)
(* tell apart.                                                             *)
(***************************************************************************)
EXTENDS Integers, Sequences, FiniteSets

CONSTANTS
  Kinds,
  Dated,          \* kinds with a time, which is out of the range once one is set
  NoSearch,
  Cap,            \* maxLines of the source
  MaxLines        \* bound on the lines that arrive

VARIABLES
  logs,           \* the kinds of the source's lines
  hidden,         \* kinds that the levels and facets leave out
  search, debouncedSearch,
  timeFilter,     \* a time range is set
  follow, paused,
  unseenFrom,     \* how many lines were shown when follow was switched off
  arrived,        \* lines so far
  since,          \* history: the lines that arrived since follow was switched off
  disturbed       \* history: since then lines were dropped or filters changed

viewVars == <<logs, hidden, search, debouncedSearch, timeFilter, follow, paused,
              unseenFrom, arrived, since, disturbed>>

Passes(k) ==
  /\ k \notin hidden
  /\ timeFilter => k \notin Dated
  /\ debouncedSearch \in {NoSearch, k}
Filtered(lines) == {i \in 1..Len(lines) : Passes(lines[i])}    \* where they are
Count(lines)    == Cardinality(Filtered(lines))

ViewInit ==
  /\ logs = <<>> /\ hidden = {} /\ timeFilter = FALSE
  /\ search = NoSearch /\ debouncedSearch = NoSearch
  /\ follow = TRUE /\ paused = FALSE /\ unseenFrom = 0
  /\ arrived = 0 /\ since = <<>> /\ disturbed = FALSE

-----------------------------------------------------------------------------
(* The source: a flush may drop the oldest lines; clear drops them all. *)
Arrive(k) ==
  /\ arrived < MaxLines /\ arrived' = arrived + 1
  /\ LET all == Append(logs, k)
         cut == Len(all) > 2 * Cap
     IN  /\ logs' = IF cut THEN SubSeq(all, Len(all) - Cap + 1, Len(all)) ELSE all
         /\ disturbed' = (disturbed \/ cut)
  /\ since' = IF follow THEN <<>> ELSE Append(since, k)
  /\ UNCHANGED <<hidden, search, debouncedSearch, timeFilter, follow, paused, unseenFrom>>

clear ==
  /\ logs' = <<>> /\ disturbed' = TRUE
  /\ UNCHANGED <<hidden, search, debouncedSearch, timeFilter, follow, paused,
                 unseenFrom, arrived, since>>

togglePause ==
  /\ paused' = ~paused
  /\ UNCHANGED <<logs, hidden, search, debouncedSearch, timeFilter, follow, unseenFrom,
                 arrived, since, disturbed>>

-----------------------------------------------------------------------------
(* Filters.  The search takes effect after a pause in typing. *)
Refilter ==
  /\ disturbed' = TRUE
  /\ UNCHANGED <<logs, follow, paused, unseenFrom, arrived, since>>

toggle(k) ==                                    \* toggleLevel, toggleFacet
  /\ hidden' = IF k \in hidden THEN hidden \ {k} ELSE hidden \cup {k}
  /\ Refilter /\ UNCHANGED <<search, debouncedSearch, timeFilter>>

resetFilters ==
  /\ hidden # {} /\ hidden' = {} /\ search' = NoSearch
  /\ Refilter /\ UNCHANGED <<debouncedSearch, timeFilter>>

setTimeFilter(on) ==
  /\ timeFilter' = on
  /\ Refilter /\ UNCHANGED <<hidden, search, debouncedSearch>>

setSearch(text) ==
  /\ search' = text
  /\ UNCHANGED <<logs, hidden, debouncedSearch, timeFilter, follow, paused, unseenFrom,
                 arrived, since, disturbed>>

Debounce ==
  /\ debouncedSearch # search /\ debouncedSearch' = search
  /\ Refilter /\ UNCHANGED <<hidden, search, timeFilter>>

-----------------------------------------------------------------------------
(* Following.  The baseline of the pill is taken when follow goes off. *)
BaselineOfAll(on) == IF on THEN unseenFrom ELSE Len(logs)       \* mutant
Baseline(on)      == IF on THEN unseenFrom ELSE Count(logs)

setFollow(on) ==
  /\ follow # on /\ follow' = on
  /\ unseenFrom' = Baseline(on)
  /\ since' = <<>> /\ disturbed' = FALSE
  /\ UNCHANGED <<logs, hidden, search, debouncedSearch, timeFilter, paused, arrived>>

(* A scroll of the user; the table is only there when it has rows. *)
onScroll(atBottom) == ~paused /\ Filtered(logs) # {} /\ setFollow(atBottom)
FollowButton       == setFollow(~follow)

unseen ==
  IF follow \/ Count(logs) < unseenFrom THEN 0 ELSE Count(logs) - unseenFrom
Pill == ~paused /\ unseen > 0 /\ setFollow(TRUE)

ViewNext ==
  \/ \E k \in Kinds : Arrive(k) \/ toggle(k)
  \/ \E text \in Kinds \cup {NoSearch} : setSearch(text)
  \/ clear \/ togglePause \/ resetFilters \/ Debounce \/ FollowButton \/ Pill
  \/ \E on \in BOOLEAN : setTimeFilter(on) \/ onScroll(on)

-----------------------------------------------------------------------------
(* The pill counts the lines that arrived since follow was switched off,   *)
(* by whichever control, and that the filters let through, until lines are *)
(* dropped or a filter changes.                                            *)
PillCountsArrivals ==
  ~follow /\ ~disturbed => unseen = Count(since)

(* LogLines.tsx, line 95: "Lines that arrived since follow was switched    *)
(* off, for the 'N new lines' pill": it never counts more than arrived.    *)
PillCountsNoOthers == unseen <= Len(since)
=============================================================================
