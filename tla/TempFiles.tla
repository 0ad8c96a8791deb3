----------------------------- MODULE TempFiles -----------------------------
(***************************************************************************)
(* Temporary copies of compressed log files (filebrowser's TempManager and *)
(* its callers ReadPage and Search).                                       *)
(*                                                                         *)
(* A request looks for a copy under the lock, decompresses one without the *)
(* lock when there is none, registers it under the lock, and then opens it *)
(* by name, once or more.  A sweep every Period removes copies not asked   *)
(* for during TTL; shutting the server down removes them all, while        *)
(* requests that are being handled run on.                                 *)
(***************************************************************************)
EXTENDS Integers, FiniteSets

CONSTANTS
  Sources,    \* compressed log files
  Requests,   \* goroutines that handle a request
  Copies,     \* names of temporary files, never reused
  None,       \* no copy
  TTL,        \* how long a copy lives after it was last asked for
  Period,     \* how often the sweep runs
  Horizon     \* bound on the time modelled

ASSUME TempAssumption ==
  /\ TTL \in Nat /\ Period \in Nat \ {0} /\ Horizon \in Nat
  /\ None \notin Copies \cup Sources

VARIABLES
  now, nextSweep, stopped,
  path,       \* tm.entries: source -> its copy, or None
  asked,      \* tm.entries: source -> createdAt of its copy
  disk,       \* temporary files that exist
  pc,         \* request -> "idle", "creating", "storing", "reading"
  source,     \* request -> the source it reads
  copy,       \* request -> the copy it has, or None
  \* history, read by the properties only:
  made,       \* copy -> the source it was made from, or None
  took,       \* request -> when it was given its copy
  raced       \* sources that two requests were decompressing at once

manager == <<path, asked>>
request == <<pc, source, copy>>
tempVars == <<now, nextSweep, stopped, manager, disk, request, made, took, raced>>

TempInit ==
  /\ now = 0 /\ nextSweep = Period /\ stopped = FALSE
  /\ path = [s \in Sources |-> None] /\ asked = [s \in Sources |-> 0]
  /\ disk = {} /\ made = [f \in Copies |-> None] /\ raced = {}
  /\ pc = [r \in Requests |-> "idle"]
  /\ source \in [Requests -> Sources]
  /\ copy = [r \in Requests |-> None]
  /\ took = [r \in Requests |-> 0]

Goto(r, p) == pc' = [pc EXCEPT ![r] = p]
Tracked == {path[s] : s \in Sources}
InHand(r) == pc[r] = "storing"

-----------------------------------------------------------------------------
(* GetOrCreate, first half: a registered copy that still exists is used and
   its age starts again; one that is gone is forgotten. *)
NotRenewed(s) == asked[s]         \* fault: using a copy does not renew it

Renewed(s) == now

Hit(r) ==
  LET s == source[r] IN
  /\ pc[r] = "idle"
  /\ path[s] \in disk
  /\ asked' = [asked EXCEPT ![s] = Renewed(s)]
  /\ copy' = [copy EXCEPT ![r] = path[s]]
  /\ took' = [took EXCEPT ![r] = now]
  /\ Goto(r, "reading")
  /\ UNCHANGED <<now, nextSweep, stopped, path, disk, source, made, raced>>

Miss(r) ==
  LET s == source[r] IN
  /\ pc[r] = "idle"
  /\ path[s] \notin disk
  /\ path' = [path EXCEPT ![s] = None]
  /\ raced' = IF \E q \in Requests : pc[q] \in {"creating", "storing"} /\ source[q] = s
              THEN raced \cup {s} ELSE raced
  /\ Goto(r, "creating")
  /\ UNCHANGED <<now, nextSweep, stopped, asked, disk, source, copy, made, took>>

(* DecompressToTemp: a new file, or an error that leaves none. *)
Create(r, f) ==
  /\ pc[r] = "creating"
  /\ made[f] = None
  /\ disk' = disk \cup {f}
  /\ made' = [made EXCEPT ![f] = source[r]]
  /\ copy' = [copy EXCEPT ![r] = f]
  /\ Goto(r, "storing")
  /\ UNCHANGED <<now, nextSweep, stopped, manager, source, took, raced>>

CreateFails(r) ==
  /\ pc[r] = "creating"
  /\ Goto(r, "idle")
  /\ UNCHANGED <<now, nextSweep, stopped, manager, disk, source, copy, made, took, raced>>

(* GetOrCreate, second half: register the copy, whatever is registered now. *)
StoreNothing(r) == path                 \* fault: the copy is not registered

StoreSource(r) ==                       \* fault: the source is registered as its copy
  [path EXCEPT ![source[r]] = source[r]]

Stored(r) == [path EXCEPT ![source[r]] = copy[r]]

Register(r) ==
  LET s == source[r] IN
  /\ pc[r] = "storing"
  /\ path' = Stored(r)
  /\ asked' = [asked EXCEPT ![s] = now]
  /\ took' = [took EXCEPT ![r] = now]
  /\ Goto(r, "reading")
  /\ UNCHANGED <<now, nextSweep, stopped, disk, source, copy, made, raced>>

(* The request opens the copy by name, as often as it needs to, and finishes;
   opening a file that is gone is an error that ends it too. *)
Finish(r) ==
  /\ pc[r] = "reading"
  /\ Goto(r, "idle")
  /\ copy' = [copy EXCEPT ![r] = None]
  /\ took' = [took EXCEPT ![r] = 0]
  /\ source' \in {[source EXCEPT ![r] = s] : s \in Sources}
  /\ UNCHANGED <<now, nextSweep, stopped, manager, disk, made, raced>>

-----------------------------------------------------------------------------
(* cleanup *)
SweepOld(s) == path[s] # None /\ now - asked[s] > TTL + Period  \* fault: too lenient

SweepEarly(s) == path[s] # None /\ now - asked[s] >= TTL        \* fault: off by one

Stale(s) == path[s] # None /\ now - asked[s] > TTL

Sweep ==
  /\ ~stopped /\ now >= nextSweep
  /\ LET old == {s \in Sources : Stale(s)} IN
     /\ disk' = disk \ {path[s] : s \in old}
     /\ path' = [s \in Sources |-> IF s \in old THEN None ELSE path[s]]
  /\ nextSweep' = nextSweep + Period
  /\ UNCHANGED <<now, stopped, asked, request, made, took, raced>>

(* Shutdown: CleanupAll, before the requests in progress are waited for. *)
CleanupAll ==
  /\ ~stopped
  /\ stopped' = TRUE
  /\ disk' = disk \ Tracked
  /\ path' = [s \in Sources |-> None]
  /\ UNCHANGED <<now, nextSweep, asked, request, made, took, raced>>

(* Time passes; a sweep that is due comes first. *)
Tick ==
  /\ now < Horizon
  /\ ~stopped => now < nextSweep
  /\ now' = now + 1
  /\ UNCHANGED <<nextSweep, stopped, manager, disk, request, made, took, raced>>

TempNext ==
  \/ \E r \in Requests :
       \/ Hit(r) \/ Miss(r) \/ CreateFails(r) \/ Register(r) \/ Finish(r)
       \/ \E f \in Copies : Create(r, f)
  \/ Sweep \/ CleanupAll \/ Tick

TempSpec == TempInit /\ [][TempNext]_tempVars
-----------------------------------------------------------------------------
TempTypeOK ==
  /\ now \in 0..Horizon /\ nextSweep \in Nat /\ stopped \in BOOLEAN
  /\ path \in [Sources -> Copies \cup {None}]
  /\ asked \in [Sources -> 0..Horizon]
  /\ disk \subseteq Copies /\ raced \subseteq Sources
  /\ made \in [Copies -> Sources \cup {None}]
  /\ pc \in [Requests -> {"idle", "creating", "storing", "reading"}]
  /\ source \in [Requests -> Sources]
  /\ copy \in [Requests -> Copies \cup {None}]
  /\ took \in [Requests -> 0..Horizon]

(* A copy that nobody asks for is removed within the time to live and one
   sweep, as long as the server runs. *)
IdleCopiesExpire ==
  \A s \in Sources : (path[s] # None /\ ~stopped) => now <= asked[s] + TTL + Period

(* A request may find that its copy is gone, but only when it has held it for
   longer than the time to live or when the server is stopping. *)
VanishesOnlyWhenOld ==
  \A r \in Requests :
    (pc[r] = "reading" /\ copy[r] \notin disk) => (stopped \/ now - took[r] > TTL)

(* A copy is lost sight of, and never removed, only when two requests were
   decompressing its source at the same time. *)
LostOnlyByRace ==
  \A f \in disk \ Tracked :
    made[f] \in raced \/ \E r \in Requests : InHand(r) /\ copy[r] = f

(* ReadPage tells the user "The temporary file will be cleaned up
   automatically.": every copy on disk is about to be registered, or is
   registered with a manager that still sweeps. *)
EveryCopyIsCleanedUp ==
  \A f \in disk : \/ f \in Tracked /\ ~stopped
                  \/ \E r \in Requests : InHand(r) /\ copy[r] = f

(* When a copy goes, when it may vanish under a reader and when it may be left
   behind (GetOrCreate, cleanup). *)
CopiesComeAndGo == IdleCopiesExpire /\ VanishesOnlyWhenOld /\ LostOnlyByRace
=============================================================================
