---------------------------- MODULE AccessScope -----------------------------
(***************************************************************************)
(* What a user may see, as an administrator picks it (web/src,             *)
(* AdminPage.tsx): AccessScopeField with its tree of rows and its chips,   *)
(* which the dialogs that create, edit and approve a user share.           *)
(*                                                                         *)
(* A path is a sequence of names: workspace, environment, service.         *)
(***************************************************************************)
EXTENDS Integers, Sequences, FiniteSets

CONSTANTS
  Paths,          \* the workspaces, environments and services there are
  Full            \* the entry "*": everything

VARIABLES
  role,           \* the role chosen in the form
  scope,          \* the selected entries
  limited,        \* the selection that is remembered while access is full
  tree            \* the rows there are: what loadScopeTree found

scopeVars == <<role, scope, limited, tree>>

Above(p)        == {SubSeq(p, 1, i) : i \in 1..Len(p) - 1}
Below(p, chips) == {q \in chips \ {Full} : p \in Above(q)}

RowShown(p)   == p \in tree /\ Above(p) \cap scope = {}

ToggledLoose(p) ==                   \* mutant: children stay beside their parent
  IF p \in scope THEN scope \ {Full, p} ELSE ((scope \ {Full}) \ Above(p)) \cup {p}
Toggled(p) ==
  IF p \in scope THEN scope \ {Full, p}
  ELSE (scope \ (Below(p, scope) \cup Above(p) \cup {Full})) \cup {p}

(* A new account starts with everything, one that waits for approval with  *)
(* nothing, and one that is edited with what it has.                       *)
ScopeInit ==
  /\ role = "reader"
  /\ scope \in {{Full}, {}} \cup {{p} : p \in Paths}
  /\ limited = scope \ {Full}
  /\ tree = {}

(* Each list of loadScopeTree may fail on its own, and is empty then. *)
LoadScopeTree ==
  /\ tree = {}
  /\ \E lost \in {{}} \cup {{p} : p \in Paths} :
       tree' = {p \in Paths : p \notin lost /\ Above(p) \cap lost = {}}
  /\ UNCHANGED <<role, scope, limited>>

Picking == role # "admin" /\ Full \notin scope

Select(s) == scope' = s /\ limited' = s /\ UNCHANGED <<role, tree>>

PickRow(p) == Picking /\ RowShown(p) /\ Select(Toggled(p))

ScopeChips(gone) ==          \* the cross of one chip, or "Clear all"
  /\ Picking /\ gone \subseteq scope
  /\ gone = scope \/ Cardinality(gone) = 1
  /\ Select(scope \ gone)

AccessScopeField ==
  /\ role # "admin"
  /\ scope' = IF Full \in scope THEN limited ELSE {Full}
  /\ UNCHANGED <<role, limited, tree>>

PickRole ==
  /\ role' = IF role = "admin" THEN "reader" ELSE "admin"
  /\ UNCHANGED <<scope, limited, tree>>

ScopeNext ==
  \/ LoadScopeTree \/ AccessScopeField \/ PickRole
  \/ \E p \in Paths : PickRow(p)
  \/ \E gone \in SUBSET scope : ScopeChips(gone)

-----------------------------------------------------------------------------
(* What a selection grants: an entry grants itself and everything below it. *)
Subtree(p)    == {q \in Paths : q = p \/ p \in Above(q)}
Access(chips) == UNION {Subtree(p) : p \in chips \ {Full}}

ClickKept ==
  IF Full \in scope THEN scope' \in {scope, limited}
  ELSE LET gained == scope' \ scope
           lost   == scope \ scope'
       IN  CASE Full \in scope' -> Access(limited') = Access(scope)
             [] gained # {} /\ Full \notin scope' ->
                  Access(scope') = Access(scope) \cup Access(gained)
             [] OTHER -> Access(scope') = Access(scope) \ Access(lost)

(* ScopePicker and ScopeChips: in whatever order rows are clicked, on a    *)
(* tree that may have been loaded in part, a click that selects an entry   *)
(* adds access to what is below it and takes none away, one that removes   *)
(* entries takes away the access to all that is below them, and a detour   *)
(* over full access (or over the role admin) leaves it as it was.          *)
AccessFollowsClicks == [][ClickKept]_scopeVars
=============================================================================
