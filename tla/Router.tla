------------------------------- MODULE Router -------------------------------
(***************************************************************************)
(* Which page the web interface shows (web/src, App.tsx): the links of the *)
(* pages, the browser's history, the session, and the resolving of         *)
(* addresses, which takes requests and so overlaps with everything else.   *)
(***************************************************************************)
EXTENDS Addresses, SequencesExt


CONSTANTS
  NoUser,
  MaxEntries,     \* the entries of the browser's history (a bound)
  MaxResolving    \* bound on the addresses that are being resolved at once

VARIABLES
  serverMode,
  user,           \* NoUser, "reader" or "admin"
  loading,        \* the app starts
  view,
  history, here,  \* the browser's history, and where in it the browser is
  resolving,      \* addresses that are being resolved, and whether for a login: [hash, by]
  importing,      \* the page whose form is being saved
  unsure          \* history: the view is the answer for another address, or a way out

routerVars == <<serverMode, user, loading, view, history, here, resolving, importing, unsure>>

RouterInit ==
  /\ serverMode \in BOOLEAN
  /\ user = NoUser /\ loading = TRUE
  /\ view = Home
  /\ history \in {<<viewToHash(v)>> : v \in Views} /\ here = 1
  /\ resolving = <<>> /\ importing = Home /\ unsure = FALSE

-----------------------------------------------------------------------------
navigate(v) ==                           \* the browser forgets its oldest entries
  LET kept == SubSeq(history, IF here < MaxEntries THEN 1 ELSE 2, here)
  IN  /\ view' = v
      /\ history' = Append(kept, viewToHash(v)) /\ here' = Len(kept) + 1
      /\ unsure' = FALSE
replaceStateNot(v) == v \in Views /\ UNCHANGED <<history, here>>     \* mutant: the address is left
replaceState(v) == history' = [history EXCEPT ![here] = viewToHash(v)] /\ UNCHANGED here

SignIn == View("login", <<>>)
Outside(v) == v.page \in {"login", "register"}

(* The effect that starts the app: whom the token is of, then the address. *)
Start ==
  /\ loading /\ loading' = FALSE
  /\ UNCHANGED <<resolving, importing>>
  /\ \E lost \in BOOLEAN :
       LET restored == resolveHash(history[1], lost)
           way      == IF Outside(restored) THEN Home ELSE restored
       IN  \/ /\ serverMode /\ UNCHANGED serverMode /\ user' \in {"reader", "admin"}
              /\ view' = way /\ replaceState(way) /\ unsure' = FALSE
           \/ /\ serverMode /\ UNCHANGED serverMode /\ user' = NoUser   \* no token, or a stale one
              /\ view' = SignIn /\ replaceState(SignIn) /\ unsure' = FALSE
           \/ /\ serverMode' = FALSE /\ unsure' = TRUE                  \* the server does not answer
              /\ UNCHANGED <<user, view, history, here>>
           \/ /\ ~serverMode /\ UNCHANGED <<serverMode, user>>
              /\ IF Outside(restored) \/ restored.page = "admin"
                 THEN unsure' = TRUE /\ UNCHANGED <<view, history, here>>
                 ELSE view' = restored /\ replaceState(restored) /\ unsure' = FALSE

Resolve(hash, by) ==
  /\ Len(resolving) < MaxResolving
  /\ resolving' = Append(resolving, [hash |-> hash, by |-> by])

(* Back and forward. *)
onPopState(to) ==
  /\ ~loading /\ to \in 1..Len(history) \ {here} /\ here' = to
  /\ Resolve(history[to], "popstate")
  /\ UNCHANGED <<serverMode, user, loading, view, history, importing, unsure>>

(* The answers come in any order; the last to come is shown. *)
Restored(i, lost) ==
  /\ resolving[i].by = "popstate"
  /\ view' = resolveHash(resolving[i].hash, lost)
  /\ unsure' = (lost \/ resolving[i].hash # history[here])
  /\ resolving' = RemoveAt(resolving, i)
  /\ UNCHANGED <<serverMode, user, loading, history, here, importing>>

-----------------------------------------------------------------------------
(* What is rendered: the builder's pages come before the login. *)
Building == view.page \in {"create-workspace", "create-environment", "create-service"} \cup Edit
Gate     == ~loading /\ ~Building /\ serverMode /\ user = NoUser
Inside   == ~loading /\ ~Building /\ ~Gate

onLogin(role) ==
  /\ Gate /\ view.page # "register"
  /\ user' = role
  /\ Resolve(history[here], "login")
  /\ UNCHANGED <<serverMode, loading, view, history, here, importing, unsure>>

SignedIn(i, lost) ==
  /\ resolving[i].by = "login"
  /\ resolving' = RemoveAt(resolving, i)
  /\ LET restored == resolveHash(resolving[i].hash, lost)
     IN  navigate(IF Outside(restored) THEN Home ELSE restored)
  /\ UNCHANGED <<serverMode, user, loading, importing>>

Registering ==
  /\ Gate
  /\ navigate(IF view.page = "register" THEN SignIn ELSE View("register", <<>>))
  /\ UNCHANGED <<serverMode, user, loading, resolving, importing>>

handleLogout ==
  /\ Inside /\ serverMode /\ user # NoUser
  /\ user' = NoUser /\ view' = SignIn /\ replaceState(SignIn) /\ unsure' = FALSE
  /\ UNCHANGED <<serverMode, loading, resolving, importing>>

(* A form of the builder: back, or saved and then back to the list it      *)
(* belongs to, wherever the user is by then.                               *)
ListOf(page) ==
  View(CASE page \in {"create-workspace", "edit-workspace"}     -> "manage-workspaces"
         [] page \in {"create-service", "edit-service"}         -> "manage-services"
         [] page \in {"create-environment", "edit-environment"} -> "manage-environments", <<>>)

LeaveBuilder ==
  /\ ~loading /\ Building /\ navigate(ListOf(view.page))
  /\ UNCHANGED <<serverMode, user, loading, resolving, importing>>
onImportToServer ==
  /\ ~loading /\ Building /\ importing = Home /\ importing' = ListOf(view.page)
  /\ UNCHANGED <<serverMode, user, loading, view, history, here, resolving, unsure>>
Imported ==
  /\ importing # Home /\ navigate(importing) /\ importing' = Home
  /\ UNCHANGED <<serverMode, user, loading, resolving>>
ImportFails ==
  /\ importing # Home /\ importing' = Home
  /\ UNCHANGED <<serverMode, user, loading, view, history, here, resolving, unsure>>

-----------------------------------------------------------------------------
(* Links of the pages.  The header, the sidebar and the search lead to     *)
(* entries from everywhere.                                                *)
Admin == serverMode /\ user = "admin"
In(folder, v) == [v EXCEPT !.folder = folder]

Entries ==
  {Home, View("logs", <<>>)}
  \cup {SelectWorkspace(w) : w \in Workspaces}
  \cup Of("standalone-env-services", {<<e>> : e \in StandaloneEnvs})
  \cup Of("standalone-svc-console", {<<s>> : s \in StandaloneServices})
  \cup (IF serverMode THEN Of("resource-namespaces", {<<r>> : r \in Clusters \cup Storages}) ELSE {})
  \cup (IF Admin THEN {View(p, <<>>) : p \in Manage \cup {"admin"}} ELSE {})

FormsOf(page) ==
  CASE page = "manage-workspaces"   -> {View("create-workspace", <<>>)}
                                       \cup Of("edit-workspace", {<<w>> : w \in Workspaces})
    [] page = "manage-services"     -> {View("create-service", <<>>)}
                                       \cup Of("edit-service", {<<s>> : s \in StandaloneServices})
    [] page = "manage-environments" -> {View("create-environment", <<>>)}
                                       \cup Of("edit-environment", {<<e>> : e \in StandaloneEnvs})
    [] OTHER -> {}

DrillDown(v) ==
  LET a == v.at
  IN  CASE v.page = "environments" -> Of("services", {<<a[1], e>> : e \in Environments})
        [] v.page = "services"     -> Of("console", {a \o <<s>> : s \in Services})
                                      \cup Of("files", {a \o <<s>> : s \in Services})
                                      \cup Of("service-storage", {<<a[1], s>> : s \in Services})
        [] v.page = "console"      -> Of("files", {a})
        [] v.page = "workspace-services"   -> Of("service-environments", {<<a[1], s>> : s \in Services})
        [] v.page = "service-environments" -> Of("sf-console", {a \o <<e>> : e \in Environments})
        [] v.page = "standalone-env-services" -> Of("standalone-env-console", {<<a[1], s>> : s \in Services})
        [] v.page = "service-storage" -> {In(f, View("service-storage-console", a \o <<n>>)) :
                                            f \in Folders \cup {Top}, n \in Names}
        [] v.page = "resource-namespaces" /\ a[1] \in Clusters -> Of("resource-workloads", {<<a[1], n>> : n \in Names})
        [] v.page = "resource-namespaces" /\ a[1] \in Storages ->
             {In(f, View("resource-storage-console", <<a[1], n>>)) : f \in Folders \cup {Top}, n \in Names}
        [] v.page = "resource-workloads" -> Of("resource-console", {a \o <<"deployment", n>> : n \in Names})
        [] OTHER -> {}

(* The "Back" button of a page that has one. *)
Up(v) ==
  LET a == v.at
  IN  CASE v.page = "console"                  -> View("services", <<a[1], a[2]>>)
        [] v.page = "files"                    -> View("console", a)
        [] v.page = "sf-console"               -> View("service-environments", <<a[1], a[2]>>)
        [] v.page = "sf-files"                 -> View("sf-console", a)
        [] v.page = "standalone-env-console"   -> View("standalone-env-services", <<a[1]>>)
        [] v.page = "resource-console"         -> View("resource-workloads", <<a[1], a[2]>>)
        [] v.page = "resource-storage-console" -> In(v.folder, View("resource-namespaces", <<a[1]>>))
        [] v.page = "service-storage-console"  -> View("service-storage", <<a[1], a[2]>>)
        [] OTHER                               -> Home

(* The breadcrumbs between "Home" and the page itself. *)
breadcrumbs(v) ==
  LET a == v.at
  IN  CASE v.page \in {"services", "service-storage"} -> {View("environments", <<a[1]>>)}
        [] v.page = "console" -> {View("environments", <<a[1]>>), Up(v)}
        [] v.page = "files"   -> {View("environments", <<a[1]>>), View("services", <<a[1], a[2]>>), Up(v)}
        [] v.page = "service-environments" -> {View("workspace-services", <<a[1]>>)}
        [] v.page = "sf-console" -> {View("workspace-services", <<a[1]>>), Up(v)}
        [] v.page = "sf-files"   -> {View("workspace-services", <<a[1]>>), Up(Up(v)), Up(v)}
        [] v.page = "service-storage-console"  -> {View("environments", <<a[1]>>), Up(v)}
        [] v.page = "resource-workloads"       -> {View("resource-namespaces", <<a[1]>>)}
        [] v.page = "resource-console"         -> {View("resource-namespaces", <<a[1]>>), Up(v)}
        [] v.page \in {"standalone-env-console", "resource-storage-console"} -> {Up(v)}
        [] OTHER -> {}

FromDashboard == IF Admin THEN UNION {FormsOf(p) : p \in Manage} ELSE {}
Links(v) ==
  Entries \cup DrillDown(v) \cup breadcrumbs(v) \cup {Up(v)} \cup FormsOf(v.page)
  \cup (IF v.page = "workspaces" THEN FromDashboard ELSE {})

Click(v) ==
  /\ navigate(v)
  /\ UNCHANGED <<serverMode, user, loading, resolving, importing>>

RouterNext ==
  \/ Start \/ Registering \/ handleLogout \/ LeaveBuilder
  \/ onImportToServer \/ Imported \/ ImportFails
  \/ \E role \in {"reader", "admin"} : onLogin(role)
  \/ \E to \in 1..Len(history) : onPopState(to)
  \/ \E i \in 1..Len(resolving), lost \in BOOLEAN : Restored(i, lost) \/ SignedIn(i, lost)
  \/ Inside /\ \E v \in Links(view) : Click(v)

-----------------------------------------------------------------------------
SamePage(v, w) ==
  LET lists == {"environments", "workspace-services"}      \* of one workspace: one address
  IN  v.at = w.at /\ (v.page = w.page \/ {v.page, w.page} \subseteq lists)

(* The address in the browser is always that of the page: once every       *)
(* address is resolved, reloading or sharing it shows the page one is on   *)
(* (App.tsx:65-242), unless the last answer was late or an error's.        *)
AddressShowsView ==
  ~loading /\ resolving = <<>> /\ ~unsure /\ ~Ambiguous(view)
    => SamePage(resolveHash(history[here], FALSE), view)

(* The "Back" of an object of a storage returns to the folder it was found *)
(* in ("The back button returns you to the last folder you were in",       *)
(* docs/server-mode.md); App.tsx:948 names no folder.                      *)
BackReturnsToFolder ==
  [][view.page \in {"resource-storage-console", "service-storage-console"} /\ Inside /\ Click(Up(view))
       => view'.folder = view.folder]_routerVars

RouterSpec == RouterInit /\ [][RouterNext]_routerVars
=============================================================================
