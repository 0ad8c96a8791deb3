--------------------------- MODULE StorageBrowser ---------------------------
(***************************************************************************)
(* The browser of a bucket or container (web/src, StorageObjectsView.tsx): *)
(* one folder at a time, with the path to it and a filter.  The address    *)
(* can put another resource under a browser that is open.                  *)
(***************************************************************************)
EXTENDS Integers, Sequences, SequencesExt

CONSTANTS
  Buckets,        \* services and resources, each of some workspace or of none
  NameOf,         \* their names, which two workspaces may both use
  Folders,        \* paths below the root, which is Top
  Top,
  MaxListings     \* bound: listings that are under way at once

VARIABLES
  bucket,         \* the resource the address names
  currentPath,    \* where the breadcrumbs say one is
  listing,        \* [bucket, path] of the folder whose rows are shown
  listed,         \* a listing has arrived
  waiting,        \* loading
  again,          \* refreshing
  failed,         \* "Couldn't load storage"
  filtered,       \* a filter is typed
  listings,       \* under way, in the order they were asked for
  outrun,         \* history: a listing has overtaken an older one
  carried         \* history: path or rows may be those of the bucket shown before

storageVars == <<bucket, currentPath, listing, listed, waiting, again, failed, filtered,
                 listings, outrun, carried>>
Paths == Folders \cup {Top}

StorageInit ==
  /\ bucket \in Buckets /\ currentPath \in Paths        \* initialPath
  /\ listing = [bucket |-> bucket, path |-> Top] /\ listed = FALSE
  /\ waiting = TRUE /\ again = FALSE /\ failed = FALSE /\ filtered = FALSE
  /\ listings = <<[bucket |-> bucket, path |-> currentPath]>>
  /\ outrun = FALSE /\ carried = FALSE

loadDirectory(b, path, showRefresh) ==
  /\ Len(listings) < MaxListings
  /\ listings' = Append(listings, [bucket |-> b, path |-> path])
  /\ outrun' = (outrun /\ listings # <<>>)
  /\ IF showRefresh THEN again' = TRUE /\ UNCHANGED waiting ELSE waiting' = TRUE /\ UNCHANGED again

(* The effect depends on the name of the resource alone: for another name  *)
(* it loads the path the page was opened with and leaves the crumbs as     *)
(* they are; for the same name in another workspace it does not run.       *)
SwitchBucket(b, initialPath) ==
  /\ b # bucket /\ bucket' = b
  /\ IF NameOf[b] = NameOf[bucket]
     THEN carried' = TRUE /\ UNCHANGED <<waiting, again, listings, outrun>>
     ELSE carried' = (initialPath # currentPath) /\ loadDirectory(b, initialPath, FALSE)
  /\ UNCHANGED <<currentPath, listing, listed, failed, filtered>>

TargetNot(path) == currentPath           \* mutant: the path of the render before the click is loaded
Target(path)    == path

(* A folder's row or a crumb. *)
Crumbs == {Top, currentPath}             \* Breadcrumbs, the folders above one included
RowsShown == IF listed /\ ~waiting /\ listing.path = Top THEN Folders ELSE {}
navigateTo(path) ==
  /\ path \in Crumbs \cup RowsShown
  /\ currentPath' = path /\ filtered' = FALSE /\ carried' = FALSE
  /\ loadDirectory(bucket, Target(path), FALSE)
  /\ UNCHANGED <<bucket, listing, listed, failed>>
Refreshed ==                             \* Refresh and Retry: off while refreshing
  /\ ~again /\ loadDirectory(bucket, currentPath, TRUE)
  /\ carried' = FALSE /\ UNCHANGED <<bucket, currentPath, listing, listed, failed, filtered>>
setFilter == filtered' = ~filtered /\ UNCHANGED <<bucket, currentPath, listing, listed, waiting,
                                                 again, failed, listings, outrun, carried>>

AnswerListing(i, ok) ==
  /\ listings' = RemoveAt(listings, i) /\ outrun' = (outrun \/ i > 1)
  /\ waiting' = FALSE /\ again' = FALSE /\ failed' = ~ok
  /\ IF ok THEN listing' = listings[i] /\ listed' = TRUE ELSE UNCHANGED <<listing, listed>>
  /\ UNCHANGED <<bucket, currentPath, filtered, carried>>

StorageNext ==
  \/ \E b \in Buckets, p \in Paths : SwitchBucket(b, p)
  \/ \E p \in Paths : navigateTo(p)
  \/ Refreshed
  \/ setFilter
  \/ \E i \in 1..Len(listings), ok \in BOOLEAN : AnswerListing(i, ok)

-----------------------------------------------------------------------------
(* Once the listings have come in turn, the rows are those of the folder   *)
(* the breadcrumbs name, in this bucket (StorageObjectsView.tsx:108-143).  *)
(* Excepted, until one moves or refreshes: the address put another bucket  *)
(* under the open browser, and the crumbs still name another folder than   *)
(* the one that was loaded, or the bucket is of another workspace but has  *)
(* the same name, and the rows are still those of the former one.          *)
ListingIsOfPath ==
  listings = <<>> /\ ~outrun /\ ~failed /\ ~carried =>
    listed /\ listing = [bucket |-> bucket, path |-> currentPath]
=============================================================================
