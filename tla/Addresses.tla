----------------------------- MODULE Addresses ------------------------------
(***************************************************************************)
(* The pages of the web interface and their addresses (web/src, App.tsx):  *)
(* viewToHash writes an address, resolveHash reads one, asking the server  *)
(* for what it names.  A view is its page, the names it is of, and for     *)
(* objects of a storage the folder they were found in; an address is a     *)
(* sequence of names and words.                                            *)
(***************************************************************************)
EXTENDS Integers, Sequences

CONSTANTS
  Workspaces,     \* names; of those in
  ServiceFirst,   \* the services come before the environments
  Environments, Services,              \* of every workspace
  StandaloneEnvs, StandaloneServices,
  Clusters, Storages,                  \* resources with workloads, or with objects
  Names,          \* of namespaces, workloads and objects
  Folders,        \* folders of a storage
  Top             \* no folder

ASSUME ResourcesAssumption == Clusters \cap Storages = {}     \* a resource is of one type

Fixed  == {"login", "register", "admin", "logs",
           "create-workspace", "create-environment", "create-service"}
Manage == {"manage-workspaces", "manage-resources", "manage-services", "manage-environments"}
Edit   == {"edit-workspace", "edit-service", "edit-environment"}

View(page, at) == [page |-> page, at |-> at, folder |-> Top]
Home           == View("workspaces", <<>>)

viewToHash(v) ==
  CASE v.page = "workspaces"                              -> <<>>
    [] v.page \in Fixed                                   -> <<v.page>>
    [] v.page \in Manage                                  -> <<"manage", v.page>>
    [] v.page \in Edit                                    -> <<v.page>> \o v.at
    [] v.page \in {"environments", "workspace-services",
                   "services", "console"}                 -> <<"ws">> \o v.at
    [] v.page = "files"                                   -> <<"ws">> \o v.at \o <<"files">>
    [] v.page = "service-environments" -> <<"ws", v.at[1], "svc", v.at[2]>>
    [] v.page = "sf-console" -> <<"ws", v.at[1], "svc", v.at[2], "env", v.at[3]>>
    [] v.page = "sf-files"   -> <<"ws", v.at[1], "svc", v.at[2], "env", v.at[3], "files">>
    [] v.page = "service-storage"         -> <<"ws", v.at[1], "storage", v.at[2]>>
    [] v.page = "service-storage-console" -> <<"ws", v.at[1], "storage", v.at[2], "object", v.at[3]>>
    [] v.page \in {"standalone-env-services", "standalone-env-console"} -> <<"env">> \o v.at
    [] v.page = "standalone-svc-console"  -> <<"svc">> \o v.at
    [] v.page \in {"resource-namespaces", "resource-workloads",
                   "resource-console"}    -> <<"resources">> \o v.at
    [] v.page = "resource-storage-console" -> <<"resources", v.at[1], "object", v.at[2]>>

-----------------------------------------------------------------------------
(* Reading an address.  lost: a request on the way fails. *)
SelectWorkspace(w) ==                    \* handleSelectWorkspace
  View(IF w \in ServiceFirst THEN "workspace-services" ELSE "environments", <<w>>)

OfStorage(h) ==
  IF Len(h) >= 6 /\ h[5] = "object"
  THEN View("service-storage-console", <<h[2], h[4], h[6]>>)
  ELSE View("service-storage", <<h[2], h[4]>>)

OfService(h) ==
  IF Len(h) >= 6 /\ h[5] = "env" /\ h[6] \in Environments
  THEN View(IF Len(h) >= 7 /\ h[7] = "files" /\ h[4] \in Services THEN "sf-files" ELSE "sf-console",
            <<h[2], h[4], h[6]>>)
  ELSE View("service-environments", <<h[2], h[4]>>)

OfEnvironment(h) ==
  IF h[3] \notin Environments THEN SelectWorkspace(h[2])
  ELSE IF Len(h) = 3 \/ h[4] \notin Services THEN View("services", <<h[2], h[3]>>)
  ELSE View(IF Len(h) >= 5 /\ h[5] = "files" THEN "files" ELSE "console", <<h[2], h[3], h[4]>>)

OfWorkspace(h, lost) ==
  IF Len(h) < 2 \/ lost \/ h[2] \notin Workspaces THEN Home
  ELSE IF Len(h) = 2 THEN SelectWorkspace(h[2])
  ELSE IF h[3] = "storage" /\ Len(h) >= 4 THEN OfStorage(h)
  ELSE IF h[3] = "svc" /\ Len(h) >= 4 THEN OfService(h)
  ELSE OfEnvironment(h)

OfStandaloneEnv(h, lost) ==
  IF Len(h) < 2 \/ lost \/ h[2] \notin StandaloneEnvs THEN Home
  ELSE IF Len(h) = 2 \/ h[3] \notin Services THEN View("standalone-env-services", <<h[2]>>)
  ELSE View("standalone-env-console", <<h[2], h[3]>>)

OfStandaloneService(h, lost) ==
  IF Len(h) < 2 \/ lost \/ h[2] \notin StandaloneServices THEN Home
  ELSE View("standalone-svc-console", <<h[2]>>)

OfResource(h, lost) ==
  CASE Len(h) < 2                        -> Home
    [] Len(h) >= 4 /\ h[3] = "object"    -> IF lost \/ h[2] \notin Clusters \cup Storages THEN Home
                                            ELSE View("resource-storage-console", <<h[2], h[4]>>)
    [] Len(h) = 3                        -> View("resource-workloads", <<h[2], h[3]>>)
    [] Len(h) >= 5 /\ h[3] # "object"    -> View("resource-console", SubSeq(h, 2, 5))
    [] OTHER                             -> View("resource-namespaces", <<h[2]>>)

resolveHash(h, lost) ==
  CASE h = <<>>                                   -> Home
    [] h # <<>> /\ h[1] \in Fixed                 -> View(h[1], <<>>)
    [] h # <<>> /\ h[1] = "manage" /\ Len(h) > 1  -> View(h[2], <<>>)
    [] h # <<>> /\ h[1] \in Edit /\ Len(h) > 1    -> View(h[1], <<h[2]>>)
    [] h # <<>> /\ h[1] = "ws"                    -> OfWorkspace(h, lost)
    [] h # <<>> /\ h[1] = "env"                   -> OfStandaloneEnv(h, lost)
    [] h # <<>> /\ h[1] = "svc"                   -> OfStandaloneService(h, lost)
    [] h # <<>> /\ h[1] = "resources"             -> OfResource(h, lost)
    [] OTHER                                      -> Home

-----------------------------------------------------------------------------
(* The views there are. *)
Of(page, names) == {View(page, at) : at \in names}
Views ==
  {Home} \cup {View(p, <<>>) : p \in Fixed \cup Manage}
  \cup Of("edit-workspace", {<<w>> : w \in Workspaces})
  \cup Of("edit-service", {<<s>> : s \in StandaloneServices})
  \cup Of("edit-environment", {<<e>> : e \in StandaloneEnvs})
  \cup {SelectWorkspace(w) : w \in Workspaces}
  \cup Of("services", Workspaces \X Environments)
  \cup Of("console", Workspaces \X Environments \X Services)
  \cup Of("files", Workspaces \X Environments \X Services)
  \cup Of("service-environments", Workspaces \X Services)
  \cup Of("sf-console", Workspaces \X Services \X Environments)
  \cup Of("sf-files", Workspaces \X Services \X Environments)
  \cup Of("service-storage", Workspaces \X Services)
  \cup Of("service-storage-console", Workspaces \X Services \X Names)
  \cup Of("standalone-env-services", {<<e>> : e \in StandaloneEnvs})
  \cup Of("standalone-env-console", StandaloneEnvs \X Services)
  \cup Of("standalone-svc-console", {<<s>> : s \in StandaloneServices})
  \cup Of("resource-namespaces", {<<r>> : r \in Clusters \cup Storages})
  \cup Of("resource-workloads", Clusters \X Names)
  \cup Of("resource-console", Clusters \X Names \X {"deployment"} \X Names)
  \cup Of("resource-storage-console", Storages \X Names)

(* An environment or a namespace that is named like a word of an address   *)
(* is taken for that word.                                                 *)
Ambiguous(v) ==
  \/ v.page \in {"console", "files"} /\ v.at[2] \in {"svc", "storage"}
  \/ v.page = "resource-console" /\ v.at[2] = "object"
=============================================================================
