------------------------------ MODULE LogsPage ------------------------------
(***************************************************************************)
(* The logs page (web/src, LogsPage.tsx): the tree of sources on the left  *)
(* and the panes of those that are open.                                   *)
(***************************************************************************)
EXTENDS SourceTree, LogSessions

pageVars == <<tops, expanded, loading, children, asked, sessions, layout, activeTab>>

PageInit == TreeInit /\ SessionsInit

(* A row is in a node that holds it, or at the top: a standalone service.  *)
RowShown(row) ==
  IF row.at = Root THEN tops["standalone"] = "some"
  ELSE Shown(row.at) /\ row.at \in expanded \cap Full

UseRow == \E row \in Rows : RowShown(row) /\ ClickRow(row)

PageNext ==
  \/ TreeNext /\ UNCHANGED sessionVars
  \/ UseRow /\ UNCHANGED treeVars
  \/ (\E i \in 1..Len(sessions) : ClosePane(i)) /\ UNCHANGED treeVars
  \/ (\E mode \in Layouts : changeLayout(mode)) /\ UNCHANGED treeVars
  \/ (\E i \in 1..Len(sessions) : FocusTab(i)) /\ UNCHANGED treeVars

PageSpec == PageInit /\ [][PageNext]_pageVars
=============================================================================
