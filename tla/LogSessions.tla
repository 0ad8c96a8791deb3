---------------------------- MODULE LogSessions -----------------------------
(***************************************************************************)
(* The open panes of the logs page (web/src, LogsPage.tsx).  A row of the  *)
(* tree opens the pane of its source or closes it; the two know each other *)
(* by an id made of names.                                                 *)
(***************************************************************************)
EXTENDS Integers, Sequences

CONSTANTS
  Rows,           \* sources in the tree: [at, kind, scope, group, name]
  LIMITS,         \* panes of the layouts "grid", "tabs" and "merged"
  NoTab

ASSUME LimitsAreNat == LIMITS \in [{"grid", "tabs", "merged"} -> Nat \ {0}]

VARIABLES
  sessions,       \* open panes, [id, source] in their order
  layout,
  activeTab

sessionVars == <<sessions, layout, activeTab>>
Layouts     == {"grid", "tabs", "merged"}

Ids(ss)      == {ss[i].id : i \in 1..Len(ss)}
RowId(row)   == <<row.scope, row.group, row.name>>       \* a workload's kind is not in it
addedId(row) == IF row.kind = "object" THEN <<row.scope, "storage", row.name>> ELSE RowId(row)

SessionsInit ==
  /\ sessions = <<>> /\ activeTab = NoTab
  /\ layout \in Layouts                  \* the one that was used last

(* The effect that follows every change: the tab that is shown is open. *)
FocusAny(ss, tab) == IF ss = <<>> THEN NoTab ELSE tab   \* mutant: the effect only clears
Focus(ss, tab) ==
  IF ss = <<>> THEN NoTab ELSE IF tab \in Ids(ss) THEN tab ELSE ss[1].id

Show(ss, tab) == sessions' = ss /\ activeTab' = Focus(ss, tab)

addSession(row) ==
  LET id   == addedId(row)
      full == Len(sessions) >= LIMITS[layout]
  IN  Show(IF id \in Ids(sessions) \/ full THEN sessions
           ELSE Append(sessions, [id |-> id, source |-> row]), id)

(* Filters the panes by id; an id is open at most once (WithinLimit).      *)
Without(i) == SubSeq(sessions, 1, i - 1) \o SubSeq(sessions, i + 1, Len(sessions))
removeSession(id) ==
  \E i \in 1..Len(sessions) : sessions[i].id = id /\ Show(Without(i), activeTab)

(* A click on a row; a row whose pane is not open is blocked when all are  *)
(* taken.                                                                  *)
isFull == Len(sessions) >= LIMITS[layout]
ClickRow(row) ==
  /\ RowId(row) \in Ids(sessions) \/ ~isFull
  /\ IF RowId(row) \in Ids(sessions) THEN removeSession(RowId(row)) ELSE addSession(row)
  /\ UNCHANGED layout

ClosePane(i) == i \in 1..Len(sessions) /\ removeSession(sessions[i].id) /\ UNCHANGED layout

KeptAll(mode) == sessions                \* mutant: a smaller layout keeps every pane
Kept(mode)    == SubSeq(sessions, 1, IF Len(sessions) > LIMITS[mode] THEN LIMITS[mode] ELSE Len(sessions))
changeLayout(mode) ==
  /\ mode \in Layouts \ {layout} /\ layout' = mode
  /\ Show(Kept(mode), activeTab)

(* A tab is clicked, or the arrows go round the tabs. *)
FocusTab(i) ==
  /\ layout = "tabs" /\ i \in 1..Len(sessions)
  /\ Show(sessions, sessions[i].id) /\ UNCHANGED layout

SessionsNext ==
  \/ \E row \in Rows : ClickRow(row)
  \/ \E i \in 1..Len(sessions) : ClosePane(i) \/ FocusTab(i)
  \/ \E mode \in Layouts : changeLayout(mode)

SessionsSpec == SessionsInit /\ [][SessionsNext]_sessionVars

-----------------------------------------------------------------------------
(* However panes are opened, closed and the layout changed, there are no   *)
(* more than the layout takes, each once, and the tab that is shown is     *)
(* open (LogsPage.tsx:94,227-232,571-590): the page is never blank.        *)
WithinLimit ==
  /\ Len(sessions) <= LIMITS[layout]
  /\ \A i, j \in 1..Len(sessions) : sessions[i].id = sessions[j].id => i = j
PageIsNotBlank == sessions # <<>> => activeTab \in Ids(sessions)

(* "click a source again to close it" (LogsPage.tsx:922): a click on a row *)
(* closes the pane that is open under the row's id, so a pane can be       *)
(* closed where it was opened when it has the id of its row.               *)
SecondClickCloses ==
  \A i \in 1..Len(sessions) : sessions[i].id = RowId(sessions[i].source)
=============================================================================
