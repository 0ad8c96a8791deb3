----------------------------- MODULE MainViews ------------------------------
(***************************************************************************)
(* The pages of the web interface beside the administration's: the logs    *)
(* page, the browser of a service's files, that of a storage, the list of  *)
(* an environment's services, the lists of everything else and the         *)
(* configuration builder.  One is shown at a time and they share no state, *)
(* so those that are not shown stay as they begin.                         *)
(***************************************************************************)
EXTENDS LogsPage, ConfigBuilder

CONSTANTS
  LogServices, Files, Pages, NoFile, MaxFileAsks,
  ServiceEnvs, ServiceNames, NoEnv, MaxChecks,
  Entities, Imported, Places, NoEntity, MaxLoads, MaxRemovals,
  Buckets, NameOf, Folders, Top, MaxListings

ASSUME ServicesAssumption == IsFiniteSet(ServiceNames)
ASSUME WorkloadsAssumption == \A ns \in DOMAIN Workloads : IsFiniteSet(Workloads[ns])

VARIABLES
  shown,          \* the page that is shown
  service, list, selected, viewer, search, listAsks, pageAsks, crossedFiles, lastSearch,
  env, services, listLoading, listError, health, checks, lateCheck,
  listPage, place, onServer, shownItems, fetching, refreshing, loadError, loads, confirming,
  busy, removing, importCard, runningImport, overtaken, missed,
  bucket, currentPath, listing, listed, waiting, again, failed, filtered, listings, outrun, carried

LogFiles == INSTANCE FileBrowser
Status   == INSTANCE ServiceList
Lists    == INSTANCE ListPages
Storage  == INSTANCE StorageBrowser

fileVars    == <<service, list, selected, viewer, search, listAsks, pageAsks, crossedFiles,
                 lastSearch>>
statusVars  == <<env, services, listLoading, listError, health, checks, lateCheck>>
listVars    == <<listPage, place, onServer, shownItems, fetching, refreshing, loadError, loads,
                 confirming, busy, removing, importCard, runningImport, overtaken, missed>>
storageVars == <<bucket, currentPath, listing, listed, waiting, again, failed, filtered, listings,
                 outrun, carried>>
vars == <<shown, pageVars, fileVars, statusVars, listVars, storageVars, builderVars>>

Init ==
  /\ shown \in {"logs", "files", "status", "lists", "storage", "builder"}
  /\ PageInit /\ (shown # "logs" => layout = "grid")
  /\ LogFiles!FileBrowserInit /\ (shown # "files" => service = CHOOSE s \in LogServices : TRUE)
  /\ Status!ServiceListInit /\ (shown # "status" => env = CHOOSE e \in ServiceEnvs : TRUE)
  /\ Lists!ListInit /\ (shown # "lists" => listPage = "dashboard" /\ onServer = {})
  /\ Storage!StorageInit
  /\ (shown # "storage" => bucket = (CHOOSE b \in Buckets : TRUE) /\ currentPath = Top)
  /\ BuilderInit /\ (shown # "builder" => mode = "workspace" /\ phase = "editing")

LogsStep ==
  /\ shown = "logs" /\ PageNext
  /\ UNCHANGED <<shown, fileVars, statusVars, listVars, storageVars, builderVars>>
FilesStep ==
  /\ shown = "files" /\ LogFiles!FileBrowserNext
  /\ UNCHANGED <<shown, pageVars, statusVars, listVars, storageVars, builderVars>>
StatusStep ==
  /\ shown = "status" /\ Status!ServiceListNext
  /\ UNCHANGED <<shown, pageVars, fileVars, listVars, storageVars, builderVars>>
ListsStep ==
  /\ shown = "lists" /\ Lists!ListNext
  /\ UNCHANGED <<shown, pageVars, fileVars, statusVars, storageVars, builderVars>>
StorageStep ==
  /\ shown = "storage" /\ Storage!StorageNext
  /\ UNCHANGED <<shown, pageVars, fileVars, statusVars, listVars, builderVars>>
BuilderStep ==
  /\ shown = "builder" /\ BuilderNext
  /\ UNCHANGED <<shown, pageVars, fileVars, statusVars, listVars, storageVars>>

Next == LogsStep \/ FilesStep \/ StatusStep \/ ListsStep \/ StorageStep \/ BuilderStep

Spec == Init /\ [][Next]_vars

-----------------------------------------------------------------------------
(* The properties of the parts; each is stated and explained in its module. *)
ContentIsOfFile       == LogFiles!ContentIsOfFile
NoMatchesIsTrue       == LogFiles!NoMatchesIsTrue
StatusIsOfEnv         == Status!StatusIsOfEnv
SettledListIsCurrent  == Lists!SettledListIsCurrent
ListingIsOfPath       == Storage!ListingIsOfPath
=============================================================================
