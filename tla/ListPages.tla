----------------------------- MODULE ListPages ------------------------------
(***************************************************************************)
(* The pages that list what the server has (web/src/components/Views): the *)
(* dashboard, the manage pages and the lists below a resource or a         *)
(* workspace.  They load alike and differ in which requests may fail       *)
(* unnoticed, in whether another place can come under them, and in what    *)
(* can be deleted or imported from them.                                   *)
(***************************************************************************)
EXTENDS Integers, Sequences, FiniteSets, SequencesExt

CONSTANTS
  Entities,       \* what the server may have, [kind, name]
  Imported,       \* the workspace that an import makes
  Places,         \* what the address may name: a resource, a namespace, ...
  NoEntity,
  MaxLoads,       \* bound: loads that are under way at once
  MaxRemovals     \* bound: deletions that are under way at once

VARIABLES
  listPage,       \* which page this is
  place,
  onServer,       \* what the server has
  shownItems,     \* [of, items]
  fetching, refreshing, loadError,
  loads,          \* under way: [of, got], got is what the server answered
  confirming,     \* what the dialog asks about
  busy,           \* what is dimmed as being deleted
  removing,       \* deletions under way: [item, done]
  importCard, runningImport,
  overtaken,      \* history: a load has been overtaken by a later one
  missed          \* history: something this page was not told of

listVars == <<listPage, place, onServer, shownItems, fetching, refreshing, loadError, loads,
              confirming, busy, removing, importCard, runningImport, overtaken, missed>>

(* needed: the page fails without them; optional: an error reads as none.  *)
Dashboard          == [needed |-> {"workspace"}, optional |-> {"environment", "service", "resource"},
                       removes |-> {"workspace", "environment", "service"}, imports |-> TRUE, moves |-> FALSE]
ManageWorkspaces   == [needed |-> {"workspace"}, optional |-> {},
                       removes |-> {"workspace"}, imports |-> TRUE, moves |-> FALSE]
ManageEnvironments == [needed |-> {"environment"}, optional |-> {},
                       removes |-> {"environment"}, imports |-> FALSE, moves |-> FALSE]
ManageServices     == [needed |-> {"service"}, optional |-> {},
                       removes |-> {"service"}, imports |-> FALSE, moves |-> FALSE]
(* Lists of what a place has: the place changes under them. *)
Below == [needed |-> {"inside"}, optional |-> {}, removes |-> {}, imports |-> FALSE, moves |-> TRUE]
Namespaces         == Below              \* of a cluster, with its overview in the same Promise.all
WorkloadList       == Below              \* of a namespace
EnvironmentList    == Below              \* of a workspace, or of one of its services
WorkspaceServices  == Below              \* of a service-first workspace

PageOf == [dashboard |-> Dashboard, workspaces |-> ManageWorkspaces,
           environments |-> ManageEnvironments, services |-> ManageServices,
           namespaces |-> Namespaces, workloads |-> WorkloadList,
           envsOf |-> EnvironmentList, servicesOf |-> WorkspaceServices]
P == PageOf[listPage]
(* Kinds the page asks for, of those the server may have.                  *)
Kinds    == P.needed \cup (P.optional \cap {e.kind : e \in Entities})
Known    == {e \in Entities : e.kind \in Kinds}

NotYet   == [served |-> FALSE, items |-> {}, failed |-> {}]
LoadOf   == [of |-> place, got |-> NotYet]

ListInit ==
  /\ listPage \in DOMAIN PageOf
  /\ place \in IF P.moves THEN Places ELSE {NoEntity}
  /\ onServer \in SUBSET Known
  /\ shownItems = [of |-> place, items |-> {}]
  /\ fetching = TRUE /\ refreshing = TRUE /\ loadError = FALSE
  /\ loads = <<LoadOf>> /\ overtaken = FALSE /\ missed = FALSE
  /\ confirming = NoEntity /\ busy = NoEntity /\ removing = {}
  /\ importCard = FALSE /\ runningImport = FALSE

Begin(l) ==
  /\ Len(loads) < MaxLoads
  /\ loads' = Append(loads, l) /\ refreshing' = TRUE
  /\ overtaken' = (overtaken /\ loads # <<>>) /\ missed' = FALSE

pageRest == <<listPage, onServer, confirming, busy, removing, importCard, runningImport>>
Calm == confirming = NoEntity            \* no dialog is over the page

Refresh ==                               \* and Retry: both wait for the last load
  /\ Calm /\ ~refreshing /\ Begin(LoadOf)
  /\ UNCHANGED <<place, shownItems, fetching, loadError, pageRest>>
MovePlace(p) ==
  /\ P.moves /\ p # place /\ place' = p /\ Begin([LoadOf EXCEPT !.of = p])
  /\ UNCHANGED <<shownItems, fetching, loadError, pageRest>>

-----------------------------------------------------------------------------
(* The server answers a load, each of its requests well or not; what it    *)
(* answered is shown when it arrives, in any order.                        *)
ServeLoad(i, failed) ==
  /\ ~loads[i].got.served /\ failed \subseteq Kinds
  /\ loads' = [loads EXCEPT ![i].got =
       [served |-> TRUE, failed |-> failed, items |-> {e \in onServer : e.kind \notin failed}]]
  /\ UNCHANGED <<place, shownItems, fetching, refreshing, loadError, overtaken, missed, pageRest>>

AnswerLoad(i) ==
  LET l == loads[i] IN
  /\ l.got.served
  /\ loads' = RemoveAt(loads, i)
  /\ fetching' = FALSE /\ refreshing' = FALSE
  /\ loadError' = (l.got.failed \cap P.needed # {})
  /\ shownItems' = IF loadError' THEN shownItems ELSE [of |-> l.of, items |-> l.got.items]
  /\ overtaken' = (overtaken \/ i > 1)
  /\ missed' = (missed \/ l.got.failed \cap P.optional # {})
  /\ UNCHANGED <<place, pageRest>>

-----------------------------------------------------------------------------
(* The menu of an entity: nothing for who is not an administrator; a       *)
(* resource has no Delete here.                                            *)
menuItems(e) == (IF e.kind = "resource" THEN {"open"} ELSE {"open", "edit"})
                \cup (IF e.kind \in P.removes THEN {"delete"} ELSE {})
Listed(e) == ~fetching /\ e \in shownItems.items

listRest == <<listPage, place, shownItems, fetching, loadError, importCard, runningImport>>
handleDelete(e) ==
  /\ Calm /\ Listed(e) /\ "delete" \in menuItems(e) /\ Cardinality(removing) < MaxRemovals
  /\ confirming' = e
  /\ UNCHANGED <<onServer, refreshing, loads, overtaken, missed, busy, removing, listRest>>
Confirm(sure) ==
  /\ ~Calm /\ confirming' = NoEntity
  /\ IF sure THEN busy' = confirming /\ removing' = removing \cup {[item |-> confirming, done |-> FALSE]}
     ELSE UNCHANGED <<busy, removing>>
  /\ UNCHANGED <<onServer, refreshing, loads, overtaken, missed, listRest>>
ServeRemove(r) ==
  /\ ~r.done /\ onServer' = onServer \ {r.item}
  /\ removing' = (removing \ {r}) \cup {[r EXCEPT !.done = TRUE]}
  /\ UNCHANGED <<refreshing, loads, overtaken, missed, confirming, busy, listRest>>

(* What a page does when one of its own changes has succeeded: load again. *)
NoReload == UNCHANGED <<refreshing, loads, overtaken, missed>>   \* mutant: the list stays as it was
Reload   == Begin(LoadOf)
(* The dimming ends with whichever deletion ends first. *)
AnswerRemove(r, ok) ==
  /\ r \in removing /\ removing' = removing \ {r} /\ busy' = NoEntity
  /\ IF ok THEN r.done /\ Reload
     ELSE /\ missed' = (missed \/ r.done)             \* done, and the answer was lost
          /\ UNCHANGED <<refreshing, loads, overtaken>>
  /\ UNCHANGED <<onServer, confirming, listRest>>

-----------------------------------------------------------------------------
importRest == <<listPage, place, shownItems, fetching, loadError, confirming, busy, removing>>
ToggleImport ==
  /\ Calm /\ P.imports /\ importCard' = ~importCard
  /\ UNCHANGED <<onServer, refreshing, loads, overtaken, missed, runningImport, importRest>>
(* What is pasted is sent as a workspace, whatever it was detected as. *)
runImport ==
  /\ Calm /\ importCard /\ ~runningImport /\ runningImport' = TRUE
  /\ UNCHANGED <<onServer, refreshing, loads, overtaken, missed, importCard, importRest>>
onDone ==
  /\ runningImport /\ onServer' = onServer \cup {Imported}
  /\ runningImport' = FALSE /\ importCard' = FALSE /\ Reload /\ UNCHANGED importRest
ImportFails ==
  /\ runningImport /\ runningImport' = FALSE
  /\ UNCHANGED <<onServer, refreshing, loads, overtaken, missed, importCard, importRest>>

(* Another administrator adds or deletes; bound: once between two loads. *)
OtherChanges(e) ==
  /\ e \in Known /\ ~missed
  /\ onServer' = IF e \in onServer THEN onServer \ {e} ELSE onServer \cup {e}
  /\ missed' = TRUE
  /\ UNCHANGED <<refreshing, loads, overtaken, confirming, busy, removing, listRest>>

ListNext ==
  \/ Refresh
  \/ \E p \in Places : MovePlace(p)
  \/ \E i \in 1..Len(loads), failed \in SUBSET Kinds : ServeLoad(i, failed)
  \/ \E i \in 1..Len(loads) : AnswerLoad(i)
  \/ \E e \in Entities : handleDelete(e)
  \/ \E sure \in BOOLEAN : Confirm(sure)
  \/ \E r \in removing : ServeRemove(r)
  \/ \E r \in removing, ok \in BOOLEAN : AnswerRemove(r, ok)
  \/ ToggleImport \/ runImport \/ onDone \/ ImportFails
  \/ \E e \in Entities : OtherChanges(e)

-----------------------------------------------------------------------------
(* When the loads and deletions have settled in turn, the page lists what  *)
(* the server has of its kinds for the place it names: everything this     *)
(* page itself deleted or imported shows, and only what others changed or  *)
(* an error hid can be missing (WorkspacesView.tsx:81-175,                 *)
(* useDeleteEntity.ts:20-36).                                              *)
SettledListIsCurrent ==
  loads = <<>> /\ removing = {} /\ ~loadError /\ ~overtaken /\ ~missed =>
    shownItems = [of |-> place, items |-> onServer]
=============================================================================
