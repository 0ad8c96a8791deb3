-------------------------- MODULE MainViews_proofs --------------------------
(***************************************************************************)
(* Proofs about the pages of the web interface, for any buckets, folders,  *)
(* environments, services and entities, and any number of requests under   *)
(* way.                                                                    *)
(***************************************************************************)
EXTENDS MainViews, ConfigBuilder_proofs, SequenceTheorems, FiniteSetTheorems, TLAPS

-----------------------------------------------------------------------------
(* Requests under way are kept in the order they were made. *)
Shortened(s, i) == SubSeq(s, 1, i - 1) \o SubSeq(s, i + 1, Len(s))

LEMMA ShortenedByOne ==
  ASSUME NEW S, NEW s \in Seq(S), NEW i \in 1..Len(s)
  PROVE  /\ Shortened(s, i) \in Seq(S) /\ Len(Shortened(s, i)) = Len(s) - 1
         /\ \A j \in 1..(Len(s) - 1) : Shortened(s, i)[j] = IF j < i THEN s[j] ELSE s[j + 1]
<1> DEFINE a == SubSeq(s, 1, i - 1)
           b == SubSeq(s, i + 1, Len(s))
<1>1. /\ a \in Seq(S) /\ Len(a) = i - 1
      /\ \A j \in 1..(i - 1) : a[j] = s[j]
  OBVIOUS
<1>2. /\ b \in Seq(S) /\ Len(b) = Len(s) - i
      /\ \A j \in 1..(Len(s) - i) : b[j] = s[i + j]
  OBVIOUS
<1>3. Shortened(s, i) = a \o b
  BY DEF Shortened
<1> HIDE DEF a, b
<1>4. /\ a \o b \in Seq(S) /\ Len(a \o b) = Len(s) - 1
      /\ \A j \in 1..(Len(s) - 1) : (a \o b)[j] = IF j <= i - 1 THEN a[j] ELSE b[j - (i - 1)]
  <2>1. Len(a) + Len(b) = Len(s) - 1
    BY <1>1, <1>2
  <2>2. /\ a \o b \in Seq(S) /\ Len(a \o b) = Len(a) + Len(b)
        /\ \A j \in 1..(Len(a) + Len(b)) :
             (a \o b)[j] = IF j <= Len(a) THEN a[j] ELSE b[j - Len(a)]
    BY <1>1, <1>2, ConcatProperties
  <2> QED BY <1>1, <2>1, <2>2
<1>5. ASSUME NEW j \in 1..(Len(s) - 1)
      PROVE  (a \o b)[j] = IF j < i THEN s[j] ELSE s[j + 1]
  <2>1. CASE j < i
    BY <1>1, <1>4, <2>1
  <2>2. CASE ~(j < i)
    <3>1. (a \o b)[j] = b[j - (i - 1)] /\ j - (i - 1) \in 1..(Len(s) - i)
      <4>1. Len(s) \in Nat /\ i \in Int /\ j \in Int /\ ~(j <= i - 1)
        BY <2>2
      <4>2. j - (i - 1) \in 1..(Len(s) - i)
        BY <4>1
      <4>3. (a \o b)[j] = b[j - (i - 1)]
        BY <1>4, <4>1
      <4> QED BY <4>2, <4>3
    <3>2. b[j - (i - 1)] = s[i + (j - (i - 1))]
      BY <1>2, <3>1
    <3>3. i + (j - (i - 1)) = j + 1
      OBVIOUS
    <3> QED BY <2>2, <3>1, <3>2, <3>3
  <2> QED BY <2>1, <2>2
<1> QED BY <1>3, <1>4, <1>5

(* The request that was made last. *)
Newest(s) == s[Len(s)]

LEMMA NewestShortened ==
  ASSUME NEW S, NEW s \in Seq(S), NEW i \in 1..Len(s), i < Len(s)
  PROVE  Shortened(s, i) # <<>> /\ Newest(Shortened(s, i)) = Newest(s)
<1>1. Len(Shortened(s, i)) = Len(s) - 1 /\ Shortened(s, i) \in Seq(S)
  BY ShortenedByOne
<1>2. Shortened(s, i)[Len(s) - 1] = s[Len(s)]
  <2>1. Len(s) - 1 \in 1..(Len(s) - 1) /\ ~(Len(s) - 1 < i) /\ (Len(s) - 1) + 1 = Len(s)
    OBVIOUS
  <2>2. Shortened(s, i)[Len(s) - 1] = s[(Len(s) - 1) + 1]
    BY <2>1, ShortenedByOne
  <2> QED BY <2>1, <2>2
<1>3. Len(Shortened(s, i)) # 0
  BY <1>1
<1> QED BY <1>1, <1>2, <1>3 DEF Newest

LEMMA NewestAppended ==
  ASSUME NEW S, NEW s \in Seq(S), NEW x \in S
  PROVE  Append(s, x) \in Seq(S) /\ Append(s, x) # <<>> /\ Newest(Append(s, x)) = x
BY DEF Newest

-----------------------------------------------------------------------------
(* StorageBrowser. *)
Listing == [bucket : Buckets, path : Storage!Paths]

StorageTyped ==
  /\ bucket \in Buckets /\ currentPath \in Storage!Paths
  /\ listings \in Seq(Listing)
  /\ outrun \in BOOLEAN

(* The listing that was asked for last is that of the path shown. *)
LastAsked ==
  listings # <<>> /\ ~carried /\ ~outrun =>
    Newest(listings) = [bucket |-> bucket, path |-> currentPath]

StorageInv == StorageTyped /\ LastAsked /\ ListingIsOfPath

LEMMA StorageInitially == Init => StorageInv
<1> SUFFICES ASSUME Storage!StorageInit PROVE StorageInv
  BY DEF Init
<1> DEFINE first == [bucket |-> bucket, path |-> currentPath]
<1>1. /\ bucket \in Buckets /\ currentPath \in Storage!Paths /\ listings = <<first>>
      /\ outrun = FALSE
  BY DEF Storage!StorageInit
<1>2. first \in Listing
  BY <1>1 DEF Listing
<1> HIDE DEF first
<1>3. listings \in Seq(Listing) /\ listings # <<>> /\ Newest(listings) = first
  BY <1>1, <1>2 DEF Newest
<1>4. StorageTyped /\ LastAsked
  BY <1>1, <1>3 DEF StorageTyped, LastAsked, first
<1> QED BY <1>3, <1>4 DEF StorageInv, ListingIsOfPath, Storage!ListingIsOfPath

(* A listing that is asked for. *)
LEMMA AskedLast ==
  ASSUME StorageTyped, NEW b \in Buckets, NEW path \in Storage!Paths, NEW r \in BOOLEAN,
         Storage!loadDirectory(b, path, r)
  PROVE  /\ listings' \in Seq(Listing) /\ listings' # <<>> /\ outrun' \in BOOLEAN
         /\ Newest(listings') = [bucket |-> b, path |-> path]
<1> DEFINE new == [bucket |-> b, path |-> path]
<1>1. new \in Listing
  BY DEF Listing
<1>2. listings' = Append(listings, new) /\ outrun' = (outrun /\ listings # <<>>)
  BY DEF Storage!loadDirectory
<1> HIDE DEF new
<1>3. listings' \in Seq(Listing) /\ listings' # <<>> /\ Newest(listings') = new
  BY <1>1, <1>2, NewestAppended DEF StorageTyped
<1> QED BY <1>2, <1>3 DEF new

LEMMA AnswerListingKeeps ==
  ASSUME StorageInv, NEW i \in 1..Len(listings), NEW ok \in BOOLEAN, Storage!AnswerListing(i, ok)
  PROVE  StorageInv'
<1>1. /\ listings' = Shortened(listings, i) /\ outrun' = (outrun \/ i > 1)
      /\ failed' = ~ok
      /\ ok => listing' = listings[i] /\ listed' = TRUE
      /\ UNCHANGED <<bucket, currentPath, carried>>
  BY DEF Storage!AnswerListing, Storage!RemoveAt, Shortened
<1>2. listings \in Seq(Listing) /\ outrun \in BOOLEAN /\ Len(listings) \in Nat
  BY DEF StorageInv, StorageTyped
<1>3. listings' \in Seq(Listing) /\ outrun' \in BOOLEAN /\ Len(listings') = Len(listings) - 1
  BY <1>1, <1>2, ShortenedByOne
<1>4. StorageTyped'
  BY <1>1, <1>3 DEF StorageInv, StorageTyped
<1>5. CASE i < Len(listings)
  <2>1. listings' # <<>> /\ Newest(listings') = Newest(listings) /\ listings # <<>>
    BY <1>1, <1>2, <1>5, NewestShortened
  <2>2. ~outrun' => ~outrun
    BY <1>1
  <2>3. LastAsked'
    BY <1>1, <2>1, <2>2 DEF StorageInv, LastAsked
  <2> QED BY <1>4, <2>1, <2>3 DEF StorageInv, ListingIsOfPath, Storage!ListingIsOfPath
<1>6. CASE i = Len(listings) /\ i > 1
  BY <1>1, <1>4, <1>6 DEF StorageInv, LastAsked, ListingIsOfPath, Storage!ListingIsOfPath
<1>7. CASE i = Len(listings) /\ i = 1
  <2>1. listings' = <<>> /\ listings # <<>> /\ listings[i] = Newest(listings)
    <3>1. Len(listings') = 0 /\ Len(listings) = 1
      BY <1>3, <1>7
    <3>2. listings' = <<>>
      BY <1>3, <3>1, EmptySeq
    <3> QED BY <1>2, <1>7, <3>1, <3>2 DEF Newest
  <2>2. LastAsked'
    BY <2>1 DEF LastAsked
  <2>3. ListingIsOfPath'
    BY <1>1, <2>1 DEF StorageInv, LastAsked, ListingIsOfPath, Storage!ListingIsOfPath
  <2> QED BY <1>4, <2>2, <2>3 DEF StorageInv
<1> QED BY <1>2, <1>5, <1>6, <1>7

LEMMA StorageKeeps == StorageInv /\ [Next]_vars => StorageInv'
<1> SUFFICES ASSUME StorageInv, [Next]_vars PROVE StorageInv'
  OBVIOUS
<1>0. StorageTyped
  BY DEF StorageInv
<1>1. ASSUME NEW b \in Buckets, NEW p \in Storage!Paths, Storage!SwitchBucket(b, p) PROVE StorageInv'
  <2>1. CASE NameOf[b] = NameOf[bucket]
    BY <1>0, <1>1, <2>1 DEF Storage!SwitchBucket, StorageInv, StorageTyped, LastAsked,
       ListingIsOfPath, Storage!ListingIsOfPath
  <2>2. CASE NameOf[b] # NameOf[bucket]
    <3>1. /\ listings' \in Seq(Listing) /\ listings' # <<>> /\ outrun' \in BOOLEAN
          /\ Newest(listings') = [bucket |-> b, path |-> p]
      BY <1>0, <1>1, <2>2, AskedLast DEF Storage!SwitchBucket
    <3>2. StorageTyped'
      BY <1>0, <1>1, <2>2, <3>1 DEF Storage!SwitchBucket, StorageTyped
    <3>3. LastAsked' /\ ListingIsOfPath'
      BY <1>0, <1>1, <2>2, <3>1 DEF Storage!SwitchBucket, LastAsked, StorageTyped,
         ListingIsOfPath, Storage!ListingIsOfPath
    <3> QED BY <3>2, <3>3 DEF StorageInv
  <2> QED BY <2>1, <2>2
<1>2. ASSUME NEW p \in Storage!Paths, Storage!navigateTo(p) PROVE StorageInv'
  <2>1. /\ listings' \in Seq(Listing) /\ listings' # <<>> /\ outrun' \in BOOLEAN
        /\ Newest(listings') = [bucket |-> bucket, path |-> p]
    BY <1>0, <1>2, AskedLast DEF Storage!navigateTo, Storage!Target, StorageTyped
  <2> QED
    BY <1>0, <1>2, <2>1 DEF Storage!navigateTo, StorageInv, StorageTyped, LastAsked,
       ListingIsOfPath, Storage!ListingIsOfPath
<1>3. ASSUME Storage!Refreshed PROVE StorageInv'
  <2>1. /\ listings' \in Seq(Listing) /\ listings' # <<>> /\ outrun' \in BOOLEAN
        /\ Newest(listings') = [bucket |-> bucket, path |-> currentPath]
    BY <1>0, <1>3, AskedLast DEF Storage!Refreshed, StorageTyped
  <2> QED
    BY <1>0, <1>3, <2>1 DEF Storage!Refreshed, StorageInv, StorageTyped, LastAsked,
       ListingIsOfPath, Storage!ListingIsOfPath
<1>4. CASE Storage!setFilter \/ UNCHANGED storageVars
  BY <1>4 DEF Storage!setFilter, storageVars, StorageInv, StorageTyped, LastAsked,
     ListingIsOfPath, Storage!ListingIsOfPath
<1> QED
  BY <1>1, <1>2, <1>3, <1>4, AnswerListingKeeps
     DEF Next, LogsStep, FilesStep, StatusStep, ListsStep, StorageStep, BuilderStep, vars,
         Storage!StorageNext

(* Once the listings have come in turn, the rows are those of the folder   *)
(* that is named (StorageObjectsView.tsx, loadDirectory).                  *)
THEOREM ListingSettles == Spec => []ListingIsOfPath
<1>1. StorageInv => ListingIsOfPath
  BY DEF StorageInv
<1> QED BY <1>1, StorageInitially, StorageKeeps, PTL DEF Spec
-----------------------------------------------------------------------------
(* ListPages. *)
AskedKinds == Lists!P.needed \cup Lists!P.optional
Things     == Entities \cup {Imported}
PageAnswer == [served : BOOLEAN, items : SUBSET Things, failed : SUBSET AskedKinds]
PageLoad   == [of : Places \cup {NoEntity}, got : PageAnswer]

ListTyped ==
  /\ place \in Places \cup {NoEntity}
  /\ onServer \subseteq Things
  /\ loads \in Seq(PageLoad)
  /\ overtaken \in BOOLEAN /\ missed \in BOOLEAN
  /\ confirming # NoEntity => confirming \in Things
  /\ removing \subseteq [item : Things, done : BOOLEAN]

(* A deletion that the server did and this page has not heard of. *)
Unheard == \E r \in removing : r.done

(* The load that was asked for last is of the place shown, and what it was *)
(* answered is what the server has, or another load will follow.           *)
LastLoad ==
  loads # <<>> /\ ~overtaken =>
    /\ Newest(loads).of = place
    /\ Newest(loads).got.served /\ ~missed =>
         \/ Newest(loads).got.items = {e \in onServer : e.kind \notin Newest(loads).got.failed}
         \/ Unheard
ShownCurrent ==
  loads = <<>> /\ ~loadError /\ ~overtaken /\ ~missed =>
    shownItems = [of |-> place, items |-> onServer] \/ Unheard

ListInv == ListTyped /\ LastLoad /\ ShownCurrent

LEMMA NewLoadTyped ==
  ASSUME NEW p \in Places \cup {NoEntity}
  PROVE  /\ [of |-> p, got |-> Lists!NotYet] \in PageLoad
         /\ ~Lists!NotYet.served
BY DEF PageLoad, PageAnswer, Lists!NotYet

LEMMA ListInitially == Init => ListInv
<1> SUFFICES ASSUME Lists!ListInit PROVE ListInv
  BY DEF Init
<1> DEFINE first == [of |-> place, got |-> Lists!NotYet]
<1>1. /\ place \in Places \cup {NoEntity} /\ loads = <<first>>
      /\ onServer \subseteq Things /\ overtaken = FALSE /\ missed = FALSE
      /\ confirming = NoEntity /\ removing = {}
  BY DEF Lists!ListInit, Lists!LoadOf, Lists!Known, Things
<1>2. first \in PageLoad /\ first.of = place /\ first.got = Lists!NotYet
  BY <1>1, NewLoadTyped
<1> HIDE DEF first
<1>3. loads \in Seq(PageLoad) /\ loads # <<>> /\ Newest(loads) = first
  BY <1>1, <1>2 DEF Newest
<1>4. ListTyped
  BY <1>1, <1>3 DEF ListTyped
<1>5. LastLoad /\ ShownCurrent
  BY <1>2, <1>3, NewLoadTyped DEF LastLoad, ShownCurrent
<1> QED BY <1>4, <1>5 DEF ListInv

(* A load that begins settles everything: what was missed, too. *)
LEMMA BeginKeeps ==
  ASSUME ListInv, NEW p \in Places \cup {NoEntity}, place' = p,
         Lists!Begin([of |-> p, got |-> Lists!NotYet]),
         onServer' \subseteq Things, confirming' # NoEntity => confirming' \in Things,
         removing' \subseteq removing, UNCHANGED listPage
  PROVE  ListInv'
<1> DEFINE new == [of |-> p, got |-> Lists!NotYet]
<1>1. new \in PageLoad /\ new.of = p /\ new.got = Lists!NotYet /\ ~new.got.served
  BY NewLoadTyped
<1>2. /\ loads' = Append(loads, new) /\ overtaken' = (overtaken /\ loads # <<>>)
      /\ missed' = FALSE
  BY DEF Lists!Begin
<1> HIDE DEF new
<1>3. loads' \in Seq(PageLoad) /\ loads' # <<>> /\ Newest(loads') = new
  BY <1>1, <1>2, NewestAppended DEF ListInv, ListTyped
<1>4. PageLoad' = PageLoad
  BY DEF PageLoad, PageAnswer, AskedKinds, Lists!P
<1>5. ListTyped'
  BY <1>2, <1>3, <1>4 DEF ListInv, ListTyped
<1>6. LastLoad' /\ ShownCurrent'
  BY <1>1, <1>3 DEF LastLoad, ShownCurrent
<1> QED BY <1>5, <1>6 DEF ListInv

(* What leaves the loads alone, and either what the server has too, or     *)
(* makes the page miss it.                                                 *)
LEMMA LoadsKept ==
  ASSUME ListInv, UNCHANGED <<listPage, place, loads, loadError, shownItems, overtaken>>,
         onServer' \subseteq Things, confirming' # NoEntity => confirming' \in Things,
         removing' \subseteq [item : Things, done : BOOLEAN], missed' \in BOOLEAN,
         missed => missed',
         missed' \/ Unheard' \/ (UNCHANGED onServer /\ ~Unheard)
  PROVE  ListInv'
<1>1. PageLoad' = PageLoad /\ Newest(loads)' = Newest(loads)
  BY DEF PageLoad, PageAnswer, AskedKinds, Lists!P, Newest
<1>2. ListTyped'
  BY <1>1 DEF ListInv, ListTyped
<1>3. CASE missed'
  BY <1>1, <1>2, <1>3 DEF ListInv, LastLoad, ShownCurrent
<1>4. CASE Unheard'
  BY <1>1, <1>2, <1>4 DEF ListInv, LastLoad, ShownCurrent
<1>5. CASE UNCHANGED onServer /\ ~Unheard
  BY <1>1, <1>2, <1>5 DEF ListInv, LastLoad, ShownCurrent
<1> QED BY <1>2, <1>3, <1>4, <1>5 DEF ListInv

LEMMA ServeLoadKeeps ==
  ASSUME ListInv, NEW i \in 1..Len(loads), NEW fails \in SUBSET Lists!Kinds,
         Lists!ServeLoad(i, fails)
  PROVE  ListInv'
<1> DEFINE answer == [served |-> TRUE, failed |-> fails, items |-> {e \in onServer : e.kind \notin fails}]
           l == [loads[i] EXCEPT !.got = answer]
<1>1. /\ loads' = [loads EXCEPT ![i] = l]
      /\ UNCHANGED <<listPage, place, onServer, shownItems, loadError, overtaken, missed, confirming,
                     removing>>
  BY DEF Lists!ServeLoad, Lists!pageRest
<1>2. loads \in Seq(PageLoad) /\ loads[i] \in PageLoad /\ Len(loads) \in Nat /\ onServer \subseteq Things
  BY DEF ListInv, ListTyped
<1>3. fails \subseteq AskedKinds
  BY DEF Lists!Kinds, AskedKinds
<1>4. answer \in PageAnswer
  BY <1>2, <1>3 DEF PageAnswer
<1>5. l \in PageLoad /\ l.of = loads[i].of /\ l.got = answer
  BY <1>2, <1>4 DEF PageLoad
<1>6. /\ answer.served /\ answer.failed = fails
      /\ answer.items = {e \in onServer : e.kind \notin fails}
  OBVIOUS
<1> HIDE DEF answer, l
<1>7. /\ loads' \in Seq(PageLoad) /\ Len(loads') = Len(loads)
      /\ \A j \in 1..Len(loads) : loads'[j] = IF j = i THEN l ELSE loads[j]
  BY <1>1, <1>2, <1>5, ExceptSeq
<1>8. PageLoad' = PageLoad
  BY <1>1 DEF PageLoad, PageAnswer, AskedKinds, Lists!P
<1>9. ListTyped'
  BY <1>1, <1>7, <1>8 DEF ListInv, ListTyped
<1>10. loads # <<>> /\ loads' # <<>>
  <2>1. Len(loads) # 0 /\ Len(loads') # 0
    BY <1>2, <1>7
  <2> QED BY <2>1
<1>11. Newest(loads') = IF i = Len(loads) THEN l ELSE Newest(loads)
  <2>1. Len(loads) \in 1..Len(loads)
    BY <1>2
  <2> QED BY <1>7, <2>1 DEF Newest
<1>12. Unheard' <=> Unheard
  BY <1>1 DEF Unheard
<1>13. LastLoad'
  <2>1. CASE i = Len(loads)
    <3>1. Newest(loads) = loads[i] /\ Newest(loads') = l
      BY <1>11, <2>1 DEF Newest
    <3> QED BY <1>1, <1>5, <1>6, <1>10, <3>1 DEF ListInv, LastLoad
  <2>2. CASE i # Len(loads)
    BY <1>1, <1>10, <1>11, <1>12, <2>2 DEF ListInv, LastLoad
  <2> QED BY <2>1, <2>2
<1>14. ShownCurrent'
  BY <1>10 DEF ShownCurrent
<1> QED BY <1>9, <1>13, <1>14 DEF ListInv

LEMMA AnswerLoadKeeps ==
  ASSUME ListInv, NEW i \in 1..Len(loads), Lists!AnswerLoad(i)
  PROVE  ListInv'
<1> DEFINE l == loads[i]
<1>1. /\ l.got.served /\ loads' = Shortened(loads, i)
      /\ loadError' = (l.got.failed \cap Lists!P.needed # {})
      /\ ~loadError' => shownItems' = [of |-> l.of, items |-> l.got.items]
      /\ overtaken' = (overtaken \/ i > 1)
      /\ missed' = (missed \/ l.got.failed \cap Lists!P.optional # {})
      /\ UNCHANGED <<place, listPage, onServer, confirming, removing>>
  BY DEF Lists!AnswerLoad, Lists!pageRest, Lists!RemoveAt, Shortened
<1>2. loads \in Seq(PageLoad) /\ l \in PageLoad /\ Len(loads) \in Nat
  BY DEF ListInv, ListTyped
<1>3. loads' \in Seq(PageLoad) /\ Len(loads') = Len(loads) - 1
  BY <1>1, <1>2, ShortenedByOne
<1>4. PageLoad' = PageLoad /\ (Unheard' <=> Unheard)
  BY <1>1 DEF PageLoad, PageAnswer, AskedKinds, Lists!P, Unheard
<1>5. ListTyped'
  BY <1>1, <1>3, <1>4 DEF ListInv, ListTyped
<1>6. CASE i < Len(loads)
  <2>1. loads' # <<>> /\ Newest(loads') = Newest(loads) /\ loads # <<>>
    BY <1>1, <1>2, <1>6, NewestShortened
  <2>2. (~overtaken' => ~overtaken) /\ (~missed' => ~missed)
    BY <1>1
  <2>3. LastLoad'
    BY <1>1, <1>4, <2>1, <2>2 DEF ListInv, LastLoad
  <2> QED BY <1>5, <2>1, <2>3 DEF ListInv, ShownCurrent
<1>7. CASE i = Len(loads) /\ i > 1
  BY <1>1, <1>5, <1>7 DEF ListInv, LastLoad, ShownCurrent
<1>8. CASE i = Len(loads) /\ i = 1
  <2>1. loads' = <<>> /\ loads # <<>> /\ l = Newest(loads)
    <3>1. Len(loads') = 0 /\ Len(loads) = 1
      BY <1>3, <1>8
    <3>2. loads' = <<>>
      BY <1>3, <3>1, EmptySeq
    <3>3. loads # <<>>
      BY <3>1
    <3>4. l = Newest(loads)
      BY <1>8 DEF Newest
    <3> QED BY <3>2, <3>3, <3>4
  <2>2. LastLoad'
    BY <2>1 DEF LastLoad
  <2>3. l.got.failed \subseteq AskedKinds
    BY <1>2 DEF PageLoad, PageAnswer
  <2>4. ~loadError' /\ ~missed' => l.got.failed = {}
    BY <1>1, <2>3 DEF AskedKinds
  <2>5. ~overtaken /\ ~missed => l.of = place /\ (Unheard \/ l.got.items = {e \in onServer : e.kind \notin l.got.failed})
    BY <1>1, <2>1 DEF ListInv, LastLoad
  <2>6. ASSUME ~loadError', ~overtaken', ~missed', ~Unheard'
        PROVE  shownItems' = [of |-> place, items |-> onServer]
    <3>1. l.of = place /\ l.got.items = {e \in onServer : e.kind \notin {}}
      BY <1>1, <1>4, <2>4, <2>5, <2>6
    <3>2. l.got.items = onServer
      BY <3>1
    <3> QED BY <1>1, <2>6, <3>1, <3>2
  <2>7. ShownCurrent'
    BY <1>1, <2>6 DEF ShownCurrent
  <2> QED BY <1>5, <2>2, <2>7 DEF ListInv
<1> QED BY <1>2, <1>6, <1>7, <1>8

LEMMA RemovalsKeep ==
  ASSUME ListInv, NEW r \in removing,
         Lists!ServeRemove(r) \/ \E ok \in BOOLEAN : Lists!AnswerRemove(r, ok)
  PROVE  ListInv'
<1>1. r \in [item : Things, done : BOOLEAN] /\ removing \subseteq [item : Things, done : BOOLEAN]
  BY DEF ListInv, ListTyped
<1>2. CASE Lists!ServeRemove(r)
  <2> DEFINE s == [r EXCEPT !.done = TRUE]
  <2>1. /\ removing' = (removing \ {r}) \cup {s} /\ onServer' = onServer \ {r.item}
        /\ UNCHANGED <<listPage, place, loads, loadError, shownItems, overtaken, missed, confirming>>
    BY <1>2 DEF Lists!ServeRemove, Lists!listRest
  <2>2. s \in [item : Things, done : BOOLEAN] /\ s.done
    BY <1>1
  <2> HIDE DEF s
  <2>3. Unheard'
    BY <2>1, <2>2 DEF Unheard
  <2>4. onServer' \subseteq Things /\ removing' \subseteq [item : Things, done : BOOLEAN]
        /\ missed' \in BOOLEAN /\ (confirming' # NoEntity => confirming' \in Things)
    BY <1>1, <2>1, <2>2 DEF ListInv, ListTyped
  <2> QED BY <2>1, <2>3, <2>4, LoadsKept
<1>3. CASE Lists!AnswerRemove(r, TRUE)
  BY <1>3, BeginKeeps DEF Lists!AnswerRemove, Lists!Reload, Lists!LoadOf, Lists!listRest, ListInv, ListTyped
<1>4. CASE Lists!AnswerRemove(r, FALSE)
  <2>1. /\ removing' = removing \ {r} /\ missed' = (missed \/ r.done)
        /\ UNCHANGED <<listPage, place, onServer, loads, loadError, shownItems, overtaken, confirming>>
    BY <1>4 DEF Lists!AnswerRemove, Lists!listRest
  <2>2. onServer' \subseteq Things /\ removing' \subseteq [item : Things, done : BOOLEAN]
        /\ missed' \in BOOLEAN /\ (confirming' # NoEntity => confirming' \in Things)
    BY <1>1, <2>1 DEF ListInv, ListTyped
  <2>3. missed' \/ Unheard' \/ (UNCHANGED onServer /\ ~Unheard)
    BY <2>1 DEF Unheard
  <2> QED BY <2>1, <2>2, <2>3, LoadsKept
<1> QED BY <1>2, <1>3, <1>4

LEMMA ListKeeps == ListInv /\ [Next]_vars => ListInv'
<1> SUFFICES ASSUME ListInv, [Next]_vars PROVE ListInv'
  OBVIOUS
<1>1. ASSUME UNCHANGED <<listPage, place, onServer, loads, loadError, shownItems, overtaken, missed>>,
             confirming' # NoEntity => confirming' \in Things, UNCHANGED removing
      PROVE  ListInv'
  <2>1. Unheard' \/ (UNCHANGED onServer /\ ~Unheard)
    BY <1>1 DEF Unheard
  <2> QED BY <1>1, <2>1, LoadsKept DEF ListInv, ListTyped
<1>2. CASE Lists!Refresh
  BY <1>2, BeginKeeps DEF Lists!Refresh, Lists!LoadOf, Lists!pageRest, ListInv, ListTyped
<1>3. ASSUME NEW p \in Places, Lists!MovePlace(p) PROVE ListInv'
  <2>1. [Lists!LoadOf EXCEPT !.of = p] = [of |-> p, got |-> Lists!NotYet]
    BY DEF Lists!LoadOf
  <2> QED
    BY <1>3, <2>1, BeginKeeps DEF Lists!MovePlace, Lists!pageRest, ListInv, ListTyped
<1>4. ASSUME NEW e \in Entities, Lists!handleDelete(e) PROVE ListInv'
  BY <1>1, <1>4 DEF Lists!handleDelete, Lists!listRest, Things
<1>5. ASSUME NEW sure \in BOOLEAN, Lists!Confirm(sure) PROVE ListInv'
  <2>1. CASE ~sure
    BY <1>1, <1>5, <2>1 DEF Lists!Confirm, Lists!listRest
  <2>2. CASE sure
    <3> DEFINE r == [item |-> confirming, done |-> FALSE]
    <3>1. /\ confirming \in Things /\ confirming' = NoEntity /\ removing' = removing \cup {r}
          /\ UNCHANGED <<listPage, place, onServer, loads, loadError, shownItems, overtaken, missed>>
      BY <1>5, <2>2 DEF Lists!Confirm, Lists!Calm, Lists!listRest, ListInv, ListTyped
    <3>2. r \in [item : Things, done : BOOLEAN] /\ ~r.done
      BY <3>1
    <3> HIDE DEF r
    <3>3. Unheard' \/ (UNCHANGED onServer /\ ~Unheard)
      BY <3>1 DEF Unheard
    <3> QED BY <3>1, <3>2, <3>3, LoadsKept DEF ListInv, ListTyped
  <2> QED BY <2>1, <2>2
<1>6. CASE Lists!ToggleImport \/ Lists!runImport \/ Lists!ImportFails
  BY <1>1, <1>6 DEF Lists!ToggleImport, Lists!runImport, Lists!ImportFails, Lists!importRest,
     ListInv, ListTyped
<1>7. CASE Lists!onDone
  BY <1>7, BeginKeeps DEF Lists!onDone, Lists!Reload, Lists!LoadOf, Lists!importRest, ListInv,
     ListTyped, Things
<1>8. ASSUME NEW e \in Entities, Lists!OtherChanges(e) PROVE ListInv'
  <2>1. /\ onServer' \subseteq Things /\ missed' = TRUE
        /\ UNCHANGED <<listPage, place, loads, loadError, shownItems, overtaken, confirming, removing>>
    BY <1>8 DEF Lists!OtherChanges, Lists!listRest, ListInv, ListTyped, Things
  <2> QED BY <2>1, LoadsKept DEF ListInv, ListTyped
<1>9. CASE UNCHANGED listVars
  BY <1>1, <1>9 DEF listVars, ListInv, ListTyped
<1>10. CASE Lists!ListNext
  BY <1>2, <1>3, <1>4, <1>5, <1>6, <1>7, <1>8, <1>10, ServeLoadKeeps, AnswerLoadKeeps, RemovalsKeep
     DEF Lists!ListNext
<1> QED
  BY <1>9, <1>10
     DEF Next, LogsStep, FilesStep, StatusStep, ListsStep, StorageStep, BuilderStep, vars

(* A page lists what the server has, but for what others changed or an     *)
(* error hid (WorkspacesView.tsx, useDeleteEntity.ts).                     *)
THEOREM ListsSettle == Spec => []SettledListIsCurrent
<1>1. ListInv => SettledListIsCurrent
  BY DEF ListInv, ShownCurrent, Unheard, SettledListIsCurrent, Lists!SettledListIsCurrent
<1> QED BY <1>1, ListInitially, ListKeeps, PTL DEF Spec
-----------------------------------------------------------------------------
(* FileBrowser's search. *)
SearchInv ==
  /\ search \in [open : BOOLEAN, searched : BOOLEAN, loading : BOOLEAN, error : BOOLEAN,
                 hits : {"none", "some"}]
  /\ NoMatchesIsTrue

LEMMA SearchInitially == Init => SearchInv
<1> SUFFICES ASSUME LogFiles!FileBrowserInit PROVE SearchInv
  BY DEF Init
<1>1. search = LogFiles!FreshSearch
  BY DEF LogFiles!FileBrowserInit
<1> QED
  BY <1>1 DEF SearchInv, LogFiles!FreshSearch, NoMatchesIsTrue, LogFiles!NoMatchesIsTrue

(* A panel that is opened, closed or emptied says nothing of matches. *)
LEMMA FreshSearchKeeps ==
  ASSUME SearchInv,
         search' = LogFiles!FreshSearch \/ \E o \in BOOLEAN : search' = [LogFiles!FreshSearch EXCEPT !.open = o]
  PROVE  SearchInv'
<1>1. PICK o \in BOOLEAN : search' = [open |-> o, searched |-> FALSE, loading |-> FALSE,
                                     error |-> FALSE, hits |-> "none"]
  BY DEF LogFiles!FreshSearch
<1>2. search'.searched = FALSE
  BY <1>1
<1>3. search' \in [open : BOOLEAN, searched : BOOLEAN, loading : BOOLEAN, error : BOOLEAN,
                   hits : {"none", "some"}]
  BY <1>1
<1> QED BY <1>2, <1>3 DEF SearchInv, NoMatchesIsTrue, LogFiles!NoMatchesIsTrue

LEMMA SearchKeeps == SearchInv /\ [Next]_vars => SearchInv'
<1> SUFFICES ASSUME SearchInv, [Next]_vars PROVE SearchInv'
  OBVIOUS
<1>1. search.open \in BOOLEAN
  BY DEF SearchInv
<1>2. ASSUME UNCHANGED <<search, lastSearch>> PROVE SearchInv'
  BY <1>2 DEF SearchInv, NoMatchesIsTrue, LogFiles!NoMatchesIsTrue
<1>3. ASSUME NEW s, LogFiles!AskList(s) PROVE SearchInv'
  BY <1>1, <1>3, FreshSearchKeeps DEF LogFiles!AskList
<1>4. CASE \/ \E s \in LogServices : LogFiles!SwitchService(s)
           \/ LogFiles!RetryList
  BY <1>3, <1>4 DEF LogFiles!SwitchService, LogFiles!RetryList
<1>5. CASE \/ \E file \in Files : LogFiles!SelectFile(file)
           \/ \E p \in Pages : LogFiles!TurnPage(p)
           \/ LogFiles!RetryPage
  BY <1>2, <1>5 DEF LogFiles!SelectFile, LogFiles!Select, LogFiles!TurnPage, LogFiles!RetryPage
<1>6. CASE LogFiles!ToggleSearch
  <2>1. search' = [LogFiles!FreshSearch EXCEPT !.open = ~search.open]
    BY <1>6 DEF LogFiles!ToggleSearch
  <2> QED BY <1>1, <2>1, FreshSearchKeeps
<1>7. CASE LogFiles!RunSearch
  BY <1>7 DEF LogFiles!RunSearch, SearchInv, NoMatchesIsTrue, LogFiles!NoMatchesIsTrue
<1>8. ASSUME NEW file \in Files, LogFiles!OpenMatch(file) PROVE SearchInv'
  BY <1>8, FreshSearchKeeps DEF LogFiles!OpenMatch
<1>9. ASSUME NEW i \in 1..Len(listAsks), NEW ok \in BOOLEAN, LogFiles!AnswerList(i, ok)
      PROVE  SearchInv'
  <2>1. /\ search' \in {search, [LogFiles!FreshSearch EXCEPT !.open = search.open]}
        /\ UNCHANGED lastSearch
    BY <1>9 DEF LogFiles!AnswerList
  <2> QED BY <1>1, <1>2, <2>1, FreshSearchKeeps
<1>10. ASSUME NEW i \in 1..Len(pageAsks), NEW ok \in BOOLEAN, LogFiles!AnswerPage(i, ok)
       PROVE  SearchInv'
  BY <1>2, <1>10 DEF LogFiles!AnswerPage
<1>11. ASSUME NEW o \in {"none", "some", "failed"}, LogFiles!AnswerSearch(o)
       PROVE  SearchInv'
  BY <1>11 DEF LogFiles!AnswerSearch, LogFiles!SearchResult, SearchInv, NoMatchesIsTrue,
     LogFiles!NoMatchesIsTrue
<1>12. CASE LogFiles!FileBrowserNext
  BY <1>4, <1>5, <1>6, <1>7, <1>8, <1>9, <1>10, <1>11, <1>12 DEF LogFiles!FileBrowserNext
<1>13. CASE UNCHANGED fileVars
  BY <1>2, <1>13 DEF fileVars
<1> QED
  BY <1>12, <1>13
     DEF Next, LogsStep, FilesStep, StatusStep, ListsStep, StorageStep, BuilderStep, vars

(* "No matches" is said only of a search that found none (FileSearch.tsx). *)
THEOREM NoMatchesIsAlwaysTrue == Spec => []NoMatchesIsTrue
<1>1. SearchInv => NoMatchesIsTrue
  BY DEF SearchInv
<1> QED BY <1>1, SearchInitially, SearchKeeps, PTL DEF Spec

-----------------------------------------------------------------------------
(* FileBrowser's viewer. *)
PageRequest == [service : LogServices, file : Files, page : Pages \cup {1}]

ViewerTyped ==
  /\ service \in LogServices /\ selected \in Files \cup {NoFile}
  /\ list \in [loading : BOOLEAN, error : BOOLEAN, of : LogServices \cup {NoFile}]
  /\ viewer \in [page : Pages \cup {1}, data : PageRequest \cup {LogFiles!NoPage},
                 loading : BOOLEAN, error : BOOLEAN]
  /\ listAsks \in Seq(LogServices) /\ pageAsks \in Seq(PageRequest)
  /\ crossedFiles \in BOOLEAN

(* The page that was asked for last is the one the viewer stands on. *)
Stands == [service |-> service, file |-> selected, page |-> viewer.page]
LastPage ==
  LogFiles!ViewerShown /\ pageAsks # <<>> /\ ~crossedFiles => Newest(pageAsks) = Stands

ViewerInv == ViewerTyped /\ LastPage /\ ContentIsOfFile

LEMMA NewestOfAsked ==
  ASSUME NEW S, NEW s \in Seq(S), NEW t \in Seq(S), t # <<>>
  PROVE  s \o t \in Seq(S) /\ s \o t # <<>> /\ Newest(s \o t) = Newest(t)
<1>1. /\ Len(s) \in Nat /\ Len(t) \in Nat /\ Len(t) # 0
      /\ s \o t \in Seq(S) /\ Len(s \o t) = Len(s) + Len(t)
      /\ \A j \in 1..(Len(s) + Len(t)) :
           (s \o t)[j] = IF j <= Len(s) THEN s[j] ELSE t[j - Len(s)]
  BY ConcatProperties
<1> DEFINE both == s \o t
           last == Len(s) + Len(t)
<1>2. last \in 1..last /\ ~(last <= Len(s)) /\ last - Len(s) = Len(t)
  BY <1>1
<1>3. both[last] = t[Len(t)]
  BY <1>1, <1>2
<1>4. Len(both) = last /\ last # 0
  BY <1>1
<1>5. both # <<>>
  <2> HIDE DEF both
  <2> QED BY <1>4
<1> QED BY <1>1, <1>3, <1>4, <1>5 DEF Newest

LEMMA ViewerInitially == Init => ViewerInv
<1> SUFFICES ASSUME LogFiles!FileBrowserInit PROVE ViewerInv
  BY DEF Init
<1>1. /\ service \in LogServices /\ selected = NoFile /\ viewer = LogFiles!FreshViewer
      /\ list = [loading |-> TRUE, error |-> FALSE, of |-> NoFile]
      /\ listAsks = <<service>> /\ pageAsks = <<>> /\ crossedFiles = FALSE
  BY DEF LogFiles!FileBrowserInit
<1>2. ~LogFiles!ViewerShown
  BY <1>1 DEF LogFiles!ViewerShown
<1>3. listAsks \in Seq(LogServices) /\ pageAsks \in Seq(PageRequest)
  BY <1>1
<1>4. ViewerTyped
  BY <1>1, <1>3 DEF ViewerTyped, LogFiles!FreshViewer
<1> QED BY <1>2, <1>4 DEF ViewerInv, LastPage, ContentIsOfFile, LogFiles!ContentIsOfFile

(* A page that is asked for, and perhaps another before it. *)
LEMMA AskKeeps ==
  ASSUME ViewerTyped, NEW reqs \in Seq(PageRequest), reqs # <<>>, LogFiles!Ask(reqs)
  PROVE  /\ pageAsks' \in Seq(PageRequest) /\ pageAsks' # <<>> /\ crossedFiles' \in BOOLEAN
         /\ Newest(pageAsks') = Newest(reqs)
<1>1. pageAsks' = pageAsks \o reqs /\ crossedFiles' = (crossedFiles /\ pageAsks # <<>>)
  BY DEF LogFiles!Ask
<1> QED BY <1>1, NewestOfAsked DEF ViewerTyped

LEMMA SelectKeeps ==
  ASSUME ViewerInv, NEW file \in Files, LogFiles!Select(file)
  PROVE  ViewerInv'
<1> DEFINE first == LogFiles!PageAsk(service, file, 1)
           old   == LogFiles!PageAsk(service, file, viewer.page)
           reqs  == IF selected = NoFile THEN <<first>> ELSE LogFiles!PageAsks(file)
<1>1. /\ selected' = file /\ viewer' = LogFiles!FreshViewer /\ LogFiles!Ask(reqs)
      /\ UNCHANGED <<service, list, listAsks>>
  BY DEF LogFiles!Select
<1>2. first \in PageRequest /\ old \in PageRequest /\ viewer.page \in Pages \cup {1}
  BY DEF ViewerInv, ViewerTyped, LogFiles!PageAsk, PageRequest
<1>3. reqs = <<first>> \/ reqs = <<old, first>>
  BY <1>2 DEF LogFiles!PageAsks
<1> HIDE DEF first, old, reqs
<1>4. reqs \in Seq(PageRequest) /\ reqs # <<>> /\ Newest(reqs) = first
  <2>1. CASE reqs = <<first>>
    BY <1>2, <2>1 DEF Newest
  <2>2. CASE reqs = <<old, first>>
    <3>1. <<old, first>> \in Seq(PageRequest) /\ <<old, first>> # <<>> /\ Len(<<old, first>>) = 2
      BY <1>2
    <3>2. <<old, first>>[2] = first
      OBVIOUS
    <3> QED BY <2>2, <3>1, <3>2 DEF Newest
  <2> QED BY <1>3, <2>1, <2>2
<1>5. /\ pageAsks' \in Seq(PageRequest) /\ pageAsks' # <<>> /\ crossedFiles' \in BOOLEAN
      /\ Newest(pageAsks') = first
  BY <1>1, <1>4, AskKeeps DEF ViewerInv
<1>6. viewer' = [page |-> 1, data |-> LogFiles!NoPage, loading |-> TRUE, error |-> FALSE]
  BY <1>1 DEF LogFiles!FreshViewer
<1>7. first = Stands'
  BY <1>1, <1>6 DEF Stands, first, LogFiles!PageAsk
<1>8. ViewerTyped'
  BY <1>1, <1>5, <1>6 DEF ViewerInv, ViewerTyped
<1> QED BY <1>5, <1>7, <1>8 DEF ViewerInv, LastPage, ContentIsOfFile, LogFiles!ContentIsOfFile

(* The viewer stands on another page, or on the same one again. *)
LEMMA TurnKeeps ==
  ASSUME ViewerInv, LogFiles!ViewerShown, NEW p \in Pages \cup {1},
         viewer' = [viewer EXCEPT !.page = p, !.loading = TRUE, !.error = FALSE],
         LogFiles!Ask(LogFiles!Turned(p)), UNCHANGED <<service, list, selected, listAsks>>
  PROVE  ViewerInv'
<1> DEFINE req == LogFiles!PageAsk(service, selected, p)
<1>1. req \in PageRequest
  BY DEF ViewerInv, ViewerTyped, LogFiles!ViewerShown, LogFiles!PageAsk, PageRequest
<1>2. LogFiles!Turned(p) = <<req>>
  BY DEF LogFiles!Turned
<1> HIDE DEF req
<1>3. <<req>> \in Seq(PageRequest) /\ <<req>> # <<>> /\ Newest(<<req>>) = req
  BY <1>1 DEF Newest
<1>4. /\ pageAsks' \in Seq(PageRequest) /\ pageAsks' # <<>> /\ crossedFiles' \in BOOLEAN
      /\ Newest(pageAsks') = req
  BY <1>2, <1>3, AskKeeps DEF ViewerInv
<1>5. /\ viewer' \in [page : Pages \cup {1}, data : PageRequest \cup {LogFiles!NoPage},
                      loading : BOOLEAN, error : BOOLEAN]
      /\ viewer'.page = p
  BY DEF ViewerInv, ViewerTyped
<1>6. req = Stands'
  BY <1>5 DEF Stands, req, LogFiles!PageAsk
<1>7. ViewerTyped'
  BY <1>4, <1>5 DEF ViewerInv, ViewerTyped
<1> QED BY <1>4, <1>6, <1>7 DEF ViewerInv, LastPage, ContentIsOfFile, LogFiles!ContentIsOfFile

LEMMA AnswerPageKeeps ==
  ASSUME ViewerInv, NEW i \in 1..Len(pageAsks), NEW ok \in BOOLEAN, LogFiles!AnswerPage(i, ok)
  PROVE  ViewerInv'
<1>1. /\ pageAsks' = Shortened(pageAsks, i) /\ crossedFiles' = (crossedFiles \/ i > 1)
      /\ viewer' = IF ok THEN [viewer EXCEPT !.data = pageAsks[i], !.loading = FALSE]
                   ELSE [viewer EXCEPT !.error = TRUE, !.loading = FALSE]
      /\ UNCHANGED <<service, list, selected, listAsks>>
  BY DEF LogFiles!AnswerPage, LogFiles!RemoveAt, Shortened
<1>2. pageAsks \in Seq(PageRequest) /\ Len(pageAsks) \in Nat /\ pageAsks[i] \in PageRequest
  BY DEF ViewerInv, ViewerTyped
<1>3. pageAsks' \in Seq(PageRequest) /\ Len(pageAsks') = Len(pageAsks) - 1
  BY <1>1, <1>2, ShortenedByOne
<1>4. /\ viewer' \in [page : Pages \cup {1}, data : PageRequest \cup {LogFiles!NoPage},
                      loading : BOOLEAN, error : BOOLEAN]
      /\ viewer'.page = viewer.page
      /\ ok => viewer'.data = pageAsks[i]
      /\ ~ok => viewer'.error = TRUE
  BY <1>1, <1>2 DEF ViewerInv, ViewerTyped
<1>5. crossedFiles' \in BOOLEAN
  BY <1>1 DEF ViewerInv, ViewerTyped
<1>6. ViewerTyped'
  BY <1>1, <1>3, <1>4, <1>5 DEF ViewerInv, ViewerTyped
<1>7. /\ LogFiles!ViewerShown' <=> LogFiles!ViewerShown
      /\ Stands' = Stands
  BY <1>1, <1>4 DEF LogFiles!ViewerShown, LogFiles!HasBody, Stands
<1>8. CASE i < Len(pageAsks)
  <2>1. pageAsks' # <<>> /\ Newest(pageAsks') = Newest(pageAsks) /\ pageAsks # <<>>
    BY <1>1, <1>2, <1>8, NewestShortened
  <2>2. LastPage'
    BY <1>1, <1>7, <2>1 DEF ViewerInv, LastPage
  <2> QED BY <1>6, <2>1, <2>2 DEF ViewerInv, ContentIsOfFile, LogFiles!ContentIsOfFile
<1>9. CASE i = Len(pageAsks) /\ i > 1
  BY <1>1, <1>6, <1>9 DEF ViewerInv, LastPage, ContentIsOfFile, LogFiles!ContentIsOfFile
<1>10. CASE i = Len(pageAsks) /\ ~(i > 1)
  <2>1. Len(pageAsks) = 1 /\ pageAsks # <<>> /\ pageAsks[i] = Newest(pageAsks)
    BY <1>2, <1>10 DEF Newest
  <2>2. pageAsks' = <<>>
    BY <1>3, <2>1
  <2>3. ASSUME LogFiles!ViewerShown', ~crossedFiles', ~viewer'.error
        PROVE  viewer'.data = Stands'
    <3>1. ok /\ ~crossedFiles /\ LogFiles!ViewerShown
      BY <1>1, <1>4, <1>7, <2>3
    <3> QED BY <1>4, <1>7, <2>1, <3>1 DEF ViewerInv, LastPage
  <2> QED
    BY <1>6, <2>2, <2>3 DEF ViewerInv, LastPage, ContentIsOfFile, LogFiles!ContentIsOfFile, Stands
<1> QED BY <1>2, <1>8, <1>9, <1>10

LEMMA AnswerFilesKeeps ==
  ASSUME ViewerInv, NEW i \in 1..Len(listAsks), NEW ok \in BOOLEAN, LogFiles!AnswerList(i, ok)
  PROVE  ViewerInv'
<1> DEFINE now   == IF ok THEN [list EXCEPT !.of = listAsks[i], !.loading = FALSE]
                    ELSE [list EXCEPT !.error = TRUE, !.loading = FALSE]
           comes == ~LogFiles!HasBody(list) /\ LogFiles!HasBody(now)
           goes  == ~LogFiles!HasBody(now)
           first == LogFiles!PageAsk(service, selected, 1)
<1>1. /\ listAsks' = Shortened(listAsks, i) /\ list' = now
      /\ crossedFiles' = (crossedFiles /\ ~comes /\ ~goes)
      /\ viewer' = IF comes \/ goes THEN LogFiles!FreshViewer ELSE viewer
      /\ pageAsks' = IF goes THEN <<>>
                     ELSE IF comes /\ selected # NoFile THEN Append(pageAsks, first) ELSE pageAsks
      /\ UNCHANGED <<service, selected>>
  BY DEF LogFiles!AnswerList, LogFiles!RemoveAt, Shortened
<1>2. listAsks \in Seq(LogServices) /\ listAsks[i] \in LogServices
  BY DEF ViewerInv, ViewerTyped
<1>3. listAsks' \in Seq(LogServices)
  BY <1>1, <1>2, ShortenedByOne
<1>4. now \in [loading : BOOLEAN, error : BOOLEAN, of : LogServices \cup {NoFile}]
  BY <1>2 DEF ViewerInv, ViewerTyped
<1> HIDE DEF now
<1>5. LogFiles!FreshViewer = [page |-> 1, data |-> LogFiles!NoPage, loading |-> TRUE, error |-> FALSE]
  BY DEF LogFiles!FreshViewer
<1>6. /\ viewer' \in [page : Pages \cup {1}, data : PageRequest \cup {LogFiles!NoPage},
                      loading : BOOLEAN, error : BOOLEAN]
      /\ comes => viewer'.page = 1
  BY <1>1, <1>5 DEF ViewerInv, ViewerTyped
<1>7. selected # NoFile => first \in PageRequest
  BY DEF ViewerInv, ViewerTyped, LogFiles!PageAsk, PageRequest
<1>8. /\ pageAsks' \in Seq(PageRequest)
      /\ comes /\ selected # NoFile => pageAsks' # <<>> /\ Newest(pageAsks') = first
  <2> HIDE DEF first, comes, goes
  <2>1. goes => ~comes
    BY DEF goes, comes
  <2>2. <<>> \in Seq(PageRequest)
    OBVIOUS
  <2> QED BY <1>1, <1>7, <2>1, <2>2, NewestAppended DEF ViewerInv, ViewerTyped
<1>9. ViewerTyped'
  <2>1. crossedFiles' \in BOOLEAN
    BY <1>1 DEF ViewerInv, ViewerTyped
  <2> QED BY <1>1, <1>3, <1>4, <1>6, <1>8, <2>1 DEF ViewerInv, ViewerTyped
<1>10. LogFiles!ViewerShown' <=> LogFiles!HasBody(now) /\ selected # NoFile
  BY <1>1 DEF LogFiles!ViewerShown, LogFiles!HasBody
<1>11. CASE goes
  BY <1>9, <1>10, <1>11 DEF ViewerInv, LastPage, ContentIsOfFile, LogFiles!ContentIsOfFile
<1>12. CASE comes
  <2>1. first = Stands'
    BY <1>1, <1>6, <1>12 DEF Stands, LogFiles!PageAsk
  <2> QED
    BY <1>8, <1>9, <1>10, <1>12, <2>1
       DEF ViewerInv, LastPage, ContentIsOfFile, LogFiles!ContentIsOfFile
<1>13. CASE ~goes /\ ~comes
  <2>1. UNCHANGED <<viewer, pageAsks, crossedFiles, service, selected>>
    BY <1>1, <1>13 DEF ViewerInv, ViewerTyped
  <2>2. LogFiles!ViewerShown' => LogFiles!ViewerShown
    BY <1>10, <1>13 DEF LogFiles!ViewerShown
  <2> QED
    BY <1>9, <2>1, <2>2 DEF ViewerInv, LastPage, Stands, ContentIsOfFile, LogFiles!ContentIsOfFile
<1> QED BY <1>11, <1>12, <1>13

LEMMA ViewerKeeps == ViewerInv /\ [Next]_vars => ViewerInv'
<1> SUFFICES ASSUME ViewerInv, [Next]_vars PROVE ViewerInv'
  OBVIOUS
<1>1. ASSUME UNCHANGED <<service, list, selected, viewer, listAsks, pageAsks, crossedFiles>>
      PROVE  ViewerInv'
  BY <1>1 DEF ViewerInv, ViewerTyped, LastPage, Stands, ContentIsOfFile, LogFiles!ContentIsOfFile,
     LogFiles!ViewerShown, LogFiles!HasBody
<1>2. ASSUME NEW s \in LogServices, service' = s, selected' = selected, LogFiles!AskList(s)
      PROVE  ViewerInv'
  <2>1. /\ listAsks' = Append(listAsks, s) /\ pageAsks' = <<>> /\ crossedFiles' = FALSE
        /\ list' = [list EXCEPT !.loading = TRUE, !.error = FALSE] /\ viewer' = LogFiles!FreshViewer
    BY <1>2 DEF LogFiles!AskList
  <2>2. /\ list' \in [loading : BOOLEAN, error : BOOLEAN, of : LogServices \cup {NoFile}]
        /\ list'.loading = TRUE
    BY <2>1 DEF ViewerInv, ViewerTyped
  <2>3. listAsks' \in Seq(LogServices) /\ pageAsks' \in Seq(PageRequest)
    BY <2>1, NewestAppended DEF ViewerInv, ViewerTyped
  <2>4. ViewerTyped'
    BY <1>2, <2>1, <2>2, <2>3 DEF ViewerInv, ViewerTyped, LogFiles!FreshViewer
  <2>5. ~LogFiles!ViewerShown'
    BY <2>2 DEF LogFiles!ViewerShown, LogFiles!HasBody
  <2> QED BY <2>4, <2>5 DEF ViewerInv, LastPage, ContentIsOfFile, LogFiles!ContentIsOfFile
<1>3. CASE (\E s \in LogServices : LogFiles!SwitchService(s)) \/ LogFiles!RetryList
  <2>1. service \in LogServices
    BY DEF ViewerInv, ViewerTyped
  <2> QED BY <1>2, <1>3, <2>1 DEF LogFiles!SwitchService, LogFiles!RetryList
<1>4. CASE \E file \in Files : LogFiles!SelectFile(file) \/ LogFiles!OpenMatch(file)
  BY <1>1, <1>4, SelectKeeps DEF LogFiles!SelectFile, LogFiles!OpenMatch
<1>5. ASSUME NEW p \in Pages, LogFiles!TurnPage(p) PROVE ViewerInv'
  BY <1>5, TurnKeeps DEF LogFiles!TurnPage
<1>6. CASE LogFiles!RetryPage
  <2>1. viewer.page \in Pages \cup {1}
    BY DEF ViewerInv, ViewerTyped
  <2>2. [viewer EXCEPT !.loading = TRUE, !.error = FALSE]
          = [viewer EXCEPT !.page = viewer.page, !.loading = TRUE, !.error = FALSE]
    BY DEF ViewerInv, ViewerTyped
  <2> QED BY <1>6, <2>1, <2>2, TurnKeeps DEF LogFiles!RetryPage
<1>7. CASE LogFiles!ToggleSearch \/ LogFiles!RunSearch
            \/ \E o \in {"none", "some", "failed"} : LogFiles!AnswerSearch(o)
  BY <1>1, <1>7 DEF LogFiles!ToggleSearch, LogFiles!RunSearch, LogFiles!AnswerSearch
<1>8. CASE LogFiles!FileBrowserNext
  BY <1>3, <1>4, <1>5, <1>6, <1>7, <1>8, AnswerPageKeeps, AnswerFilesKeeps DEF LogFiles!FileBrowserNext
<1>9. CASE UNCHANGED fileVars
  BY <1>1, <1>9 DEF fileVars
<1> QED
  BY <1>8, <1>9
     DEF Next, LogsStep, FilesStep, StatusStep, ListsStep, StorageStep, BuilderStep, vars

(* Once the pages asked for were answered in turn, the viewer shows the    *)
(* page it stands on, of the selected file of this service                 *)
(* (FileViewer.tsx:53-68, FileBrowser.tsx:46-67).                          *)
THEOREM ContentIsAlwaysOfFile == Spec => []ContentIsOfFile
<1>1. ViewerInv => ContentIsOfFile
  BY DEF ViewerInv
<1> QED BY <1>1, ViewerInitially, ViewerKeeps, PTL DEF Spec

-----------------------------------------------------------------------------
(* SourceTree. *)
TreeTyped ==
  /\ asked \in [Lazy -> Nat] /\ loading \subseteq Lazy
  /\ children \in [Lazy -> {"none", "some", "empty"}]

(* No spinner turns in a node that does not show what it holds: it would   *)
(* stay when the node takes no answer any more.                            *)
SpinnersShown == \A n \in loading : \A m \in Above[n] \cap Lazy : children[m] = "some"

SpinnerInv == TreeTyped /\ SpinnersShown /\ SpinnerMeansAsked

LEMMA AboveAbove ==
  ASSUME NEW n \in Nodes, NEW m \in Above[n], NEW k \in Above[m]
  PROVE  k \in Above[n]
<1> DEFINE Closed == {ns \in SUBSET Nodes : \A x \in ns : Parent[x] \in ns \cup {Root}}
<1>1. Above = [x \in Nodes |->
        {y \in Nodes : Parent[x] # Root /\ \A ns \in Closed : Parent[x] \in ns => y \in ns}]
  BY DEF Above
<1>2. m \in Nodes /\ Parent[n] # Root /\ \A ns \in Closed : Parent[n] \in ns => m \in ns
  BY <1>1
<1>3. k \in Nodes /\ Parent[m] # Root /\ \A ns \in Closed : Parent[m] \in ns => k \in ns
  BY <1>1, <1>2
<1>4. ASSUME NEW ns \in Closed, Parent[n] \in ns PROVE k \in ns
  <2>1. m \in ns
    BY <1>2, <1>4
  <2>2. Parent[m] \in ns
    BY <1>3, <2>1
  <2> QED BY <1>3, <2>2
<1> HIDE DEF Closed
<1> QED BY <1>1, <1>2, <1>3, <1>4

LEMMA TreeInitially == Init => SpinnerInv
<1> SUFFICES ASSUME TreeInit PROVE SpinnerInv
  BY DEF Init, PageInit
<1> QED BY DEF TreeInit, SpinnerInv, TreeTyped, SpinnersShown, SpinnerMeansAsked

LEMMA ToggleKeeps ==
  ASSUME SpinnerInv, NEW n \in Nodes, Toggle(n)
  PROVE  SpinnerInv' /\ ClosedKept
<1>1. children' = children
  BY DEF Toggle
<1>2. CASE UNCHANGED <<loading, children, asked>>
  BY <1>2 DEF SpinnerInv, TreeTyped, SpinnersShown, SpinnerMeansAsked, ClosedKept
<1>3. CASE /\ n \notin Known /\ loading' = loading \cup {n}
           /\ asked' = [asked EXCEPT ![n] = @ + 1]
  <2>1. n \in Lazy
    BY <1>3 DEF Known, Full, Lazy
  <2>2. TreeTyped'
    BY <1>1, <1>3, <2>1 DEF SpinnerInv, TreeTyped
  <2>3. \A m \in Lazy : asked'[m] = IF m = n THEN asked[m] + 1 ELSE asked[m]
    BY <1>3 DEF SpinnerInv, TreeTyped
  <2>4. SpinnerMeansAsked'
    BY <1>3, <2>1, <2>3 DEF SpinnerInv, TreeTyped, SpinnerMeansAsked
  <2>5. \A m \in Above[n] \cap Lazy : children[m] = "some"
    BY DEF Toggle, Shown, Full, Lazy
  <2>6. SpinnersShown'
    BY <1>1, <1>3, <2>5 DEF SpinnerInv, SpinnersShown
  <2>7. ClosedKept
    BY <2>3 DEF SpinnerInv, TreeTyped, ClosedKept
  <2> QED BY <2>2, <2>4, <2>6, <2>7 DEF SpinnerInv
<1> QED BY <1>2, <1>3 DEF Toggle

LEMMA AnswerKeeps ==
  ASSUME SpinnerInv, NEW n \in Lazy, NEW got \in {"some", "empty", "failed"}, Answer(n, got)
  PROVE  SpinnerInv' /\ ClosedKept
<1> DEFINE gone  == \E m \in Above[n] \cap Lazy : children[m] # "some"
           stays == got = "failed" /\ Kind[n] \notin {"service", "env"}
<1>1. asked' = [asked EXCEPT ![n] = @ - 1] /\ asked[n] > 0
  BY DEF Answer
<1>2. \A m \in Lazy : asked'[m] \in Nat /\ asked'[m] = IF m = n THEN asked[m] - 1 ELSE asked[m]
  BY <1>1 DEF SpinnerInv, TreeTyped
<1>3. ClosedKept
  <2>1. expanded' = expanded \/ \E k \in BOOLEAN : expanded' = LeftOpen(n, k)
    BY DEF Answer
  <2>2. \A k \in BOOLEAN : {m \in LeftOpen(n, k) : Kind[m] # "service"} \subseteq expanded
    BY DEF LeftOpen
  <2> QED BY <2>1, <2>2 DEF ClosedKept
<1>4. asked' \in [Lazy -> Nat]
  BY <1>1, <1>2 DEF SpinnerInv, TreeTyped
<1>5. CASE gone
  <2>1. UNCHANGED <<loading, children>>
    BY <1>5 DEF Answer
  <2>2. n \notin loading
    BY <1>5 DEF SpinnerInv, SpinnersShown
  <2>3. SpinnerMeansAsked'
    BY <1>2, <2>1, <2>2 DEF SpinnerInv, TreeTyped, SpinnerMeansAsked
  <2> QED BY <1>3, <1>4, <2>1, <2>3 DEF SpinnerInv, TreeTyped, SpinnersShown
<1>6. CASE ~gone
  <2>1. /\ loading' = (loading \ {n}) \ (IF stays THEN {} ELSE Below({n}))
        /\ children' = IF stays THEN children
                       ELSE [m \in Lazy |-> IF m = n THEN IF got = "some" THEN got ELSE "empty"
                                            ELSE IF m \in Below({n}) THEN "none" ELSE children[m]]
    BY <1>6 DEF Answer, Settled
  <2>2. loading' \subseteq loading \ {n}
    BY <2>1
  <2>3. children' \in [Lazy -> {"none", "some", "empty"}]
    BY <2>1 DEF SpinnerInv, TreeTyped
  <2>4. TreeTyped'
    BY <1>4, <2>2, <2>3 DEF SpinnerInv, TreeTyped
  <2>5. SpinnerMeansAsked'
    BY <1>2, <2>2 DEF SpinnerInv, TreeTyped, SpinnerMeansAsked
  <2>6. ASSUME NEW l \in loading', NEW m \in Above[l] \cap Lazy PROVE children'[m] = "some"
    <3>1. l \in loading /\ l \in Nodes /\ n \in Nodes /\ children[m] = "some"
      BY <2>2, <2>6 DEF SpinnerInv, TreeTyped, SpinnersShown, Lazy
    <3>2. CASE stays
      BY <2>1, <3>1, <3>2
    <3>3. CASE ~stays
      <4>1. n \notin Above[l]
        BY <2>1, <3>1, <3>3 DEF Below
      <4>2. m # n
        BY <4>1
      <4>3. m \notin Below({n})
        BY <3>1, <4>1, AboveAbove DEF Below
      <4> HIDE DEF stays
      <4> QED BY <2>1, <3>1, <3>3, <4>2, <4>3
    <3> QED BY <3>2, <3>3
  <2> QED BY <1>3, <2>4, <2>5, <2>6 DEF SpinnerInv, SpinnersShown
<1> QED BY <1>5, <1>6

LEMMA TreeKeeps == SpinnerInv /\ [Next]_vars => SpinnerInv' /\ [ClosedKept]_treeVars
<1> SUFFICES ASSUME SpinnerInv, [Next]_vars PROVE SpinnerInv' /\ [ClosedKept]_treeVars
  OBVIOUS
<1>1. CASE UNCHANGED treeVars
  BY <1>1 DEF treeVars, SpinnerInv, TreeTyped, SpinnersShown, SpinnerMeansAsked
<1>2. ASSUME NEW l, NEW got, Load(l, got) PROVE SpinnerInv' /\ ClosedKept
  <2>1. UNCHANGED <<loading, children, asked>>
    BY <1>2 DEF Load
  <2> QED BY <2>1 DEF SpinnerInv, TreeTyped, SpinnersShown, SpinnerMeansAsked, ClosedKept
<1>3. CASE TreeNext
  BY <1>2, <1>3, ToggleKeeps, AnswerKeeps DEF TreeNext
<1>4. CASE PageNext
  BY <1>1, <1>3, <1>4 DEF PageNext
<1>5. UNCHANGED pageVars => UNCHANGED treeVars
  BY DEF pageVars, treeVars
<1> QED
  BY <1>1, <1>4, <1>5
     DEF Next, LogsStep, FilesStep, StatusStep, ListsStep, StorageStep, BuilderStep, vars

(* A spinner turns only while a request for its node is under way, in a    *)
(* tree of any shape (LogsPage.tsx:314-567).                               *)
THEOREM SpinnersAlwaysMeanAsked == Spec => []SpinnerMeansAsked
<1>1. SpinnerInv => SpinnerMeansAsked
  BY DEF SpinnerInv
<1> QED BY <1>1, TreeInitially, TreeKeeps, PTL DEF Spec

(* An answer opens no node of the tree but a service's storage            *)
(* (LogsPage.tsx:478).                                                     *)
THEOREM ClosedAlwaysStaysClosed == Spec => ClosedStaysClosed
BY TreeInitially, TreeKeeps, PTL DEF Spec, ClosedStaysClosed
-----------------------------------------------------------------------------
(* ServiceList.  A request is of the list or of one service's check. *)
Request == [kind : {"list"}, env : ServiceEnvs, name : {NoEnv}]
           \cup [kind : {"check"}, env : ServiceEnvs, name : ServiceNames]
IsList(r)     == r.kind = "list"
IsCheck(r, n) == r.kind = "check" /\ r.name = n

Health == [state : {"none", "checking", "up", "down"}, of : ServiceEnvs \cup {NoEnv}]

StatusTyped ==
  /\ env \in ServiceEnvs
  /\ services \in [of : ServiceEnvs \cup {NoEnv}, names : SUBSET ServiceNames]
  /\ health \in [ServiceNames -> Health]
  /\ checks \in Seq(Request)
  /\ lateCheck \in BOOLEAN

(* The list that was asked for last is that of the environment shown. *)
LastList ==
  ~lateCheck => \A j \in 1..Len(checks) :
    IsList(checks[j]) /\ (\A k \in (j + 1)..Len(checks) : ~IsList(checks[k])) => checks[j].env = env

(* The check of a service that was asked for last is of that environment,  *)
(* or there is none under way and the last one has said so.                *)
Owed(n) ==
  \E j \in 1..Len(checks) :
    /\ IsCheck(checks[j], n) /\ checks[j].env = env
    /\ \A k \in (j + 1)..Len(checks) : ~IsCheck(checks[k], n)
Said(n) ==
  /\ health[n].of = env /\ health[n].state \in {"up", "down"}
  /\ \A j \in 1..Len(checks) : ~IsCheck(checks[j], n)
ListAsked   == \E j \in 1..Len(checks) : IsList(checks[j])
StatusKnown == ~lateCheck /\ ~listError /\ ~ListAsked => \A n \in services.names : Owed(n) \/ Said(n)

StatusInv == StatusTyped /\ LastList /\ StatusKnown

LEMMA StatusInitially == Init => StatusInv
<1> SUFFICES ASSUME Status!ServiceListInit PROVE StatusInv
  BY DEF Init
<1> DEFINE first == [kind |-> "list", env |-> env, name |-> NoEnv]
<1>1. /\ env \in ServiceEnvs /\ services = [of |-> NoEnv, names |-> {}]
      /\ health = [n \in ServiceNames |-> [state |-> "none", of |-> NoEnv]]
      /\ checks = <<first>> /\ lateCheck = FALSE
  BY DEF Status!ServiceListInit, Status!NoHealth, Status!LoadOf
<1>2. first \in Request /\ first.env = env
  BY <1>1 DEF Request
<1> HIDE DEF first
<1>3. checks \in Seq(Request) /\ Len(checks) = 1 /\ checks[1] = first
  BY <1>1, <1>2
<1>4. StatusTyped
  <2>1. [state |-> "none", of |-> NoEnv] \in Health
    BY DEF Health
  <2>2. health \in [ServiceNames -> Health]
    BY <1>1, <2>1
  <2>3. services \in [of : ServiceEnvs \cup {NoEnv}, names : SUBSET ServiceNames]
    BY <1>1
  <2> QED BY <1>1, <1>3, <2>2, <2>3 DEF StatusTyped
<1>5. LastList
  BY <1>2, <1>3 DEF LastList
<1>6. StatusKnown
  BY <1>1 DEF StatusKnown
<1> QED BY <1>4, <1>5, <1>6 DEF StatusInv

LEMMA AppendedRequest ==
  ASSUME checks \in Seq(Request), NEW r \in Request, checks' = Append(checks, r)
  PROVE  /\ checks' \in Seq(Request) /\ Len(checks') = Len(checks) + 1
         /\ \A j \in 1..Len(checks) : checks'[j] = checks[j]
         /\ checks'[Len(checks) + 1] = r
OBVIOUS

LEMMA ListAskedKeeps ==
  ASSUME StatusInv, NEW e \in ServiceEnvs, env' = e, Status!Request(Status!LoadOf(e)),
         UNCHANGED <<services, health>>
  PROVE  StatusInv'
<1> DEFINE r == [kind |-> "list", env |-> e, name |-> NoEnv]
<1>1. r \in Request /\ IsList(r) /\ r.env = e
  BY DEF Request, IsList
<1>2. checks' = Append(checks, r) /\ lateCheck' \in BOOLEAN /\ (~lateCheck' => ~lateCheck \/ checks = <<>>)
  BY DEF Status!Request, Status!LoadOf
<1> HIDE DEF r
<1>3. /\ checks' \in Seq(Request) /\ Len(checks') = Len(checks) + 1 /\ Len(checks) \in Nat
      /\ \A j \in 1..Len(checks) : checks'[j] = checks[j]
      /\ checks'[Len(checks) + 1] = r
  BY <1>1, <1>2, AppendedRequest DEF StatusInv, StatusTyped
<1>4. StatusTyped'
  BY <1>2, <1>3 DEF StatusInv, StatusTyped
<1>5. LastList'
  <2> SUFFICES ASSUME NEW j \in 1..(Len(checks) + 1),
                      \A k \in (j + 1)..(Len(checks) + 1) : ~IsList(checks'[k])
               PROVE  checks'[j].env = env'
    BY <1>3 DEF LastList
  <2>1. j = Len(checks) + 1
    BY <1>1, <1>3
  <2> QED BY <1>1, <1>3, <2>1
<1>6. ListAsked'
  BY <1>1, <1>3 DEF ListAsked
<1> QED BY <1>4, <1>5, <1>6 DEF StatusInv, StatusKnown

LEMMA RunCheckKeeps ==
  ASSUME StatusInv, NEW n \in ServiceNames, Status!runCheck(n)
  PROVE  StatusInv'
<1> DEFINE r == [kind |-> "check", env |-> env, name |-> n]
<1>1. r \in Request /\ ~IsList(r) /\ r.env = env /\ (\A m : IsCheck(r, m) <=> m = n)
  BY DEF StatusInv, StatusTyped, Request, IsList, IsCheck
<1>2. /\ checks' = Append(checks, r) /\ lateCheck' = lateCheck
      /\ UNCHANGED <<env, services, listError>>
      /\ health' = [m \in ServiceNames |-> IF m \in {n} THEN [state |-> "checking", of |-> env] ELSE health[m]]
  BY DEF Status!runCheck, Status!Request, Status!CheckOf, Status!AsChecking, StatusInv, StatusTyped
<1> HIDE DEF r
<1>3. /\ checks' \in Seq(Request) /\ Len(checks') = Len(checks) + 1 /\ Len(checks) \in Nat
      /\ \A j \in 1..Len(checks) : checks'[j] = checks[j]
      /\ checks'[Len(checks) + 1] = r
  BY <1>1, <1>2, AppendedRequest DEF StatusInv, StatusTyped
<1>4. StatusTyped'
  <2>1. [state |-> "checking", of |-> env] \in Health
    BY DEF Health, StatusInv, StatusTyped
  <2>2. health' \in [ServiceNames -> Health]
    BY <1>2, <2>1 DEF StatusInv, StatusTyped
  <2> QED BY <1>2, <1>3, <2>2 DEF StatusInv, StatusTyped
<1>5. LastList'
  <2> SUFFICES ASSUME ~lateCheck, NEW j \in 1..(Len(checks) + 1), IsList(checks'[j]),
                      \A k \in (j + 1)..(Len(checks) + 1) : ~IsList(checks'[k])
               PROVE  checks'[j].env = env
    BY <1>2, <1>3 DEF LastList
  <2>1. j \in 1..Len(checks) /\ checks'[j] = checks[j]
    BY <1>1, <1>3
  <2>2. \A k \in (j + 1)..Len(checks) : ~IsList(checks[k])
    BY <1>3
  <2> QED BY <2>1, <2>2 DEF StatusInv, LastList
<1>6. StatusKnown'
  <2> SUFFICES ASSUME ~lateCheck, ~listError, ~ListAsked', NEW m \in services.names
               PROVE  (Owed(m) \/ Said(m))'
    BY <1>2 DEF StatusKnown
  <2>1. ~ListAsked
    BY <1>3 DEF ListAsked
  <2>2. CASE m = n
    <3>1. Len(checks) + 1 \in 1..Len(checks')
          /\ \A k \in (Len(checks) + 1 + 1)..Len(checks') : ~IsCheck(checks'[k], m)
      BY <1>3
    <3>2. Owed(m)'
      BY <1>1, <1>2, <1>3, <2>2, <3>1 DEF Owed
    <3> QED BY <3>2
  <2>3. CASE m # n /\ Owed(m)
    <3>1. PICK j \in 1..Len(checks) :
            /\ IsCheck(checks[j], m) /\ checks[j].env = env
            /\ \A k \in (j + 1)..Len(checks) : ~IsCheck(checks[k], m)
      BY <2>3 DEF Owed
    <3>2. \A k \in (j + 1)..Len(checks') : ~IsCheck(checks'[k], m)
      <4> SUFFICES ASSUME NEW k \in (j + 1)..(Len(checks) + 1) PROVE ~IsCheck(checks'[k], m)
        BY <1>3
      <4>1. CASE k = Len(checks) + 1
        BY <1>1, <1>3, <2>3, <4>1
      <4>2. CASE k # Len(checks) + 1
        BY <1>3, <3>1, <4>2
      <4> QED BY <4>1, <4>2
    <3>3. j \in 1..Len(checks') /\ checks'[j] = checks[j]
      BY <1>3
    <3>4. IsCheck(checks'[j], m) /\ checks'[j].env = env'
      BY <1>2, <3>1, <3>3
    <3>5. Owed(m)'
      BY <3>2, <3>3, <3>4 DEF Owed
    <3> QED BY <3>5
  <2>4. CASE m # n /\ Said(m)
    <3>1. health'[m] = health[m]
      BY <1>2, <2>4 DEF StatusInv, StatusTyped
    <3>2. \A j \in 1..Len(checks') : ~IsCheck(checks'[j], m)
      BY <1>1, <1>3, <2>4 DEF Said
    <3> QED BY <1>2, <2>4, <3>1, <3>2 DEF Said
  <2> QED BY <2>1, <2>2, <2>3, <2>4 DEF StatusInv, StatusKnown
<1> QED BY <1>4, <1>5, <1>6 DEF StatusInv

(* The first request under way leaves the queue. *)
FirstGone(s, t) == Len(s) \in Nat /\ Len(s) >= 1 /\ Len(t) = Len(s) - 1
                   /\ \A j \in 1..(Len(s) - 1) : t[j] = s[j + 1]

LEMMA AnswersLeave ==
  ASSUME StatusTyped, NEW i \in 1..Len(checks)
  PROVE  /\ Status!Gone(i) \in Seq(Request)
         /\ i = 1 => FirstGone(checks, Status!Gone(i))
<1>1. Status!Gone(i) = Shortened(checks, i) /\ checks \in Seq(Request) /\ Len(checks) \in Nat
  BY DEF Status!Gone, Status!RemoveAt, Shortened, StatusTyped
<1>2. /\ Shortened(checks, i) \in Seq(Request) /\ Len(Shortened(checks, i)) = Len(checks) - 1
      /\ \A j \in 1..(Len(checks) - 1) : Shortened(checks, i)[j] = IF j < i THEN checks[j] ELSE checks[j + 1]
  BY <1>1, ShortenedByOne
<1> QED BY <1>1, <1>2 DEF FirstGone

(* LastList, when the first request is answered and checks may be added. *)
LEMMA LastListKeeps ==
  ASSUME StatusInv, UNCHANGED env, NEW rest, FirstGone(checks, rest), lateCheck' = lateCheck,
         Len(checks') \in Nat, Len(checks') >= Len(rest),
         \A j \in 1..Len(rest) : checks'[j] = rest[j],
         \A j \in (Len(rest) + 1)..Len(checks') : ~IsList(checks'[j])
  PROVE  LastList'
<1> SUFFICES ASSUME ~lateCheck, NEW j \in 1..Len(checks'), IsList(checks'[j]),
                    \A k \in (j + 1)..Len(checks') : ~IsList(checks'[k])
             PROVE  checks'[j].env = env
  BY DEF LastList
<1>1. /\ Len(rest) = Len(checks) - 1 /\ Len(checks) \in Nat /\ Len(checks) >= 1
      /\ \A i \in 1..(Len(checks) - 1) : rest[i] = checks[i + 1]
  BY DEF FirstGone
<1>2. j \in 1..(Len(checks) - 1) /\ checks'[j] = checks[j + 1]
  BY <1>1
<1>3. \A k \in (j + 1 + 1)..Len(checks) : ~IsList(checks[k])
  <2> SUFFICES ASSUME NEW k \in (j + 1 + 1)..Len(checks) PROVE ~IsList(checks[k])
    OBVIOUS
  <2>1. k - 1 \in 1..(Len(checks) - 1) /\ k - 1 \in (j + 1)..Len(checks') /\ (k - 1) + 1 = k
    BY <1>1, <1>2
  <2>2. checks'[k - 1] = checks[k]
    BY <1>1, <2>1
  <2> QED BY <2>1, <2>2
<1>4. j + 1 \in 1..Len(checks) /\ IsList(checks[j + 1])
  BY <1>1, <1>2
<1> QED BY <1>2, <1>3, <1>4 DEF StatusInv, LastList

LEMMA ServicesFailKeep ==
  ASSUME StatusInv, NEW i \in 1..Len(checks), Status!AnswerServicesFails(i)
  PROVE  StatusInv'
<1>1. /\ checks' = Status!Gone(i) /\ lateCheck' = (lateCheck \/ i > 1) /\ listError' = TRUE
      /\ UNCHANGED <<env, services, health>>
  BY DEF Status!AnswerServicesFails, Status!InTurn
<1>2. checks' \in Seq(Request) /\ (i = 1 => FirstGone(checks, checks')) /\ Len(checks') \in Nat
  BY <1>1, AnswersLeave DEF StatusInv
<1>3. StatusTyped'
  BY <1>1, <1>2 DEF StatusInv, StatusTyped
<1>4. StatusKnown'
  BY <1>1 DEF StatusKnown
<1>5. LastList'
  <2>1. CASE i > 1
    BY <1>1, <2>1 DEF LastList
  <2>2. CASE i = 1
    <3>1. lateCheck' = lateCheck
      BY <1>1, <2>2 DEF StatusInv, StatusTyped
    <3> QED BY <1>1, <1>2, <2>2, <3>1, LastListKeeps
  <2> QED BY <2>1, <2>2
<1> QED BY <1>3, <1>4, <1>5 DEF StatusInv

LEMMA AnswerCheckKeeps ==
  ASSUME StatusInv, NEW i \in 1..Len(checks), NEW state \in {"up", "down"},
         Status!AnswerCheck(i, state)
  PROVE  StatusInv'
<1> DEFINE r == checks[i]
<1>1. /\ r.kind = "check" /\ checks' = Status!Gone(i) /\ lateCheck' = (lateCheck \/ i > 1)
      /\ health' = [health EXCEPT ![r.name] = [state |-> state, of |-> r.env]]
      /\ UNCHANGED <<env, services, listError>>
  BY DEF Status!AnswerCheck, Status!InTurn
<1>2. r \in Request /\ r.name \in ServiceNames /\ r.env \in ServiceEnvs
  <2>1. r \in Request
    BY DEF StatusInv, StatusTyped
  <2> QED BY <1>1, <2>1 DEF Request
<1>3. checks' \in Seq(Request) /\ (i = 1 => FirstGone(checks, checks')) /\ Len(checks') \in Nat
  BY <1>1, AnswersLeave DEF StatusInv
<1>4. StatusTyped'
  <2>1. [state |-> state, of |-> r.env] \in Health
    BY <1>2 DEF Health
  <2>2. health' \in [ServiceNames -> Health]
    BY <1>1, <1>2, <2>1 DEF StatusInv, StatusTyped
  <2>3. lateCheck' \in BOOLEAN
    BY <1>1
  <2> QED BY <1>1, <1>3, <2>2, <2>3 DEF StatusInv, StatusTyped
<1>5. CASE i > 1
  BY <1>1, <1>4, <1>5 DEF StatusInv, LastList, StatusKnown
<1>6. CASE i = 1
  <2>1. lateCheck' = lateCheck
    BY <1>1, <1>6 DEF StatusInv, StatusTyped
  <2>2. LastList'
    BY <1>1, <1>3, <1>6, <2>1, LastListKeeps
  <2>3. /\ Len(checks') = Len(checks) - 1 /\ Len(checks) \in Nat /\ Len(checks) >= 1
        /\ \A j \in 1..(Len(checks) - 1) : checks'[j] = checks[j + 1]
    BY <1>3, <1>6 DEF FirstGone
  <2>4. \A j \in 2..Len(checks) : j - 1 \in 1..Len(checks') /\ checks'[j - 1] = checks[j]
    <3> SUFFICES ASSUME NEW j \in 2..Len(checks)
                 PROVE  j - 1 \in 1..Len(checks') /\ checks'[j - 1] = checks[j]
      OBVIOUS
    <3>1. j - 1 \in 1..(Len(checks) - 1) /\ (j - 1) + 1 = j
      BY <2>3
    <3> QED BY <2>3, <3>1
  <2>5. StatusKnown'
    <3> SUFFICES ASSUME ~lateCheck, ~listError, ~ListAsked', NEW n \in services.names
                 PROVE  (Owed(n) \/ Said(n))'
      BY <1>1, <2>1 DEF StatusKnown
    <3>1. ~ListAsked
      <4> SUFFICES ASSUME NEW j \in 1..Len(checks), IsList(checks[j]) PROVE FALSE
        BY DEF ListAsked
      <4>1. j # 1
        BY <1>1, <1>6 DEF IsList
      <4>2. j \in 2..Len(checks)
        BY <2>3, <4>1
      <4> QED BY <2>4, <4>2 DEF ListAsked
    <3>2. n \in ServiceNames
      BY DEF StatusInv, StatusTyped
    <3>3. Owed(n) \/ Said(n)
      BY <3>1 DEF StatusInv, StatusKnown
    <3>4. CASE Owed(n)
      <4>1. PICK j \in 1..Len(checks) :
              /\ IsCheck(checks[j], n) /\ checks[j].env = env
              /\ \A k \in (j + 1)..Len(checks) : ~IsCheck(checks[k], n)
        BY <3>4 DEF Owed
      <4>2. \A k \in j..Len(checks') : ~IsCheck(checks'[k], n)
        <5> SUFFICES ASSUME NEW k \in j..Len(checks') PROVE ~IsCheck(checks'[k], n)
          OBVIOUS
        <5>1. k \in 1..(Len(checks) - 1) /\ k + 1 \in (j + 1)..Len(checks)
          BY <2>3
        <5> QED BY <2>3, <4>1, <5>1
      <4>3. CASE j = 1
        <5>1. r.name = n /\ r.env = env
          BY <1>6, <4>1, <4>3 DEF IsCheck
        <5>2. health'[n] = [state |-> state, of |-> env]
          BY <1>1, <3>2, <5>1 DEF StatusInv, StatusTyped
        <5> QED BY <1>1, <4>2, <4>3, <5>2 DEF Said
      <4>4. CASE j # 1
        <5>1. j \in 2..Len(checks)
          BY <2>3, <4>4
        <5>2. j - 1 \in 1..Len(checks') /\ checks'[j - 1] = checks[j] /\ (j - 1) + 1 = j
          BY <2>4, <5>1
        <5>3. Owed(n)'
          BY <1>1, <4>1, <4>2, <5>2 DEF Owed
        <5> QED BY <5>3
      <4> QED BY <4>3, <4>4
    <3>5. CASE Said(n)
      <4>1. r.name # n
        BY <1>1, <1>6, <2>3, <3>5 DEF Said, IsCheck
      <4>2. health'[n] = health[n]
        BY <1>1, <3>2, <4>1 DEF StatusInv, StatusTyped
      <4>3. \A j \in 1..Len(checks') : ~IsCheck(checks'[j], n)
        <5> SUFFICES ASSUME NEW j \in 1..Len(checks') PROVE ~IsCheck(checks'[j], n)
          OBVIOUS
        <5>1. j \in 1..(Len(checks) - 1) /\ j + 1 \in 1..Len(checks)
          BY <2>3
        <5> QED BY <2>3, <3>5, <5>1 DEF Said
      <4> QED BY <1>1, <3>5, <4>2, <4>3 DEF Said
    <3> QED BY <3>3, <3>4, <3>5
  <2> QED BY <1>4, <2>2, <2>5 DEF StatusInv
<1> QED BY <1>5, <1>6

(* The sequence of a finite set holds every element once. *)
LEMMA AllInTurn ==
  ASSUME NEW S, IsFiniteSet(S)
  PROVE  /\ Status!SetToSeq(S) \in Seq(S)
         /\ \A j, k \in 1..Len(Status!SetToSeq(S)) : Status!SetToSeq(S)[j] = Status!SetToSeq(S)[k] => j = k
         /\ \A x \in S : \E j \in 1..Len(Status!SetToSeq(S)) : Status!SetToSeq(S)[j] = x
<1> DEFINE N == Cardinality(S)
           f == Status!SetToSeq(S)
<1>1. N \in Nat /\ ExistsBijection(1..N, S)
  BY FS_CardinalityType
<1>2. \E g \in [1..N -> S] : IsInjective(g)
  BY <1>1 DEF ExistsBijection, Bijection, Injection
<1>3. f \in [1..N -> S] /\ IsInjective(f)
  <2>1. Status!Cardinality(S) = N
    BY DEF Status!Cardinality, Cardinality
  <2> QED BY <1>2, <2>1 DEF Status!SetToSeq, Status!IsInjective, IsInjective
<1> HIDE DEF f
<1>4. f \in Injection(1..N, S)
  BY <1>3 DEF Injection
<1>5. Cardinality(1..N) = N
  BY <1>1, FS_Interval
<1>6. f \in Surjection(1..N, S)
  BY <1>4, <1>5, FS_Injection
<1>7. f \in Seq(S) /\ Len(f) = N
  BY <1>1, <1>3
<1>8. \A x \in S : \E j \in 1..N : f[j] = x
  BY <1>6 DEF Surjection
<1>9. \A j, k \in 1..N : f[j] = f[k] => j = k
  BY <1>3 DEF IsInjective
<1> QED BY <1>7, <1>8, <1>9 DEF f

LEMMA AnswerServicesKeep ==
  ASSUME StatusInv, NEW i \in 1..Len(checks), Status!AnswerServices(i)
  PROVE  StatusInv'
<1> DEFINE e    == checks[i].env
           S    == {[kind |-> "check", env |-> e, name |-> n] : n \in ServiceNames}
           due  == Status!SetToSeq(S)
           rest == Status!Gone(i)
<1>1. /\ IsList(checks[i]) /\ lateCheck' = (lateCheck \/ i > 1)
      /\ services' = [of |-> e, names |-> ServiceNames] /\ listError' = FALSE
      /\ health' = [n \in ServiceNames |-> IF n \in ServiceNames THEN [state |-> "checking", of |-> e]
                                                                 ELSE health[n]]
      /\ checks' = rest \o due /\ UNCHANGED env
  BY DEF Status!AnswerServices, Status!InTurn, Status!AsChecking, Status!ToCheck, Status!CheckOf,
         IsList
<1>2. e \in ServiceEnvs
  <2>1. checks[i] \in Request
    BY DEF StatusInv, StatusTyped
  <2> QED BY <2>1 DEF Request
<1>3. S \subseteq Request /\ IsFiniteSet(S)
  <2>1. S \subseteq Request
    BY <1>2 DEF Request
  <2> DEFINE g == [n \in ServiceNames |-> [kind |-> "check", env |-> e, name |-> n]]
  <2>2. g \in Surjection(ServiceNames, S)
    BY DEF Surjection
  <2>3. IsFiniteSet(S)
    BY <2>2, ServicesAssumption, FS_Surjection
  <2> QED BY <2>1, <2>3
<1>4. \A r \in S : ~IsList(r) /\ r.env = e /\ r.name \in ServiceNames
                   /\ r = [kind |-> "check", env |-> e, name |-> r.name]
  BY DEF IsList
<1>5. \A n \in ServiceNames : [kind |-> "check", env |-> e, name |-> n] \in S
  OBVIOUS
<1> HIDE DEF S
<1>6. /\ due \in Seq(S) /\ Len(due) \in Nat
      /\ \A j, k \in 1..Len(due) : due[j] = due[k] => j = k
      /\ \A r \in S : \E j \in 1..Len(due) : due[j] = r
  BY <1>3, AllInTurn
<1>7. /\ rest \in Seq(Request) /\ (i = 1 => FirstGone(checks, rest)) /\ Len(rest) \in Nat
  BY AnswersLeave DEF StatusInv
<1>12. \A j \in 1..Len(due) : due[j] \in S
  BY <1>6, ElementOfSeq
<1> HIDE DEF due, rest
<1>8. /\ checks' \in Seq(Request) /\ Len(checks') = Len(rest) + Len(due)
      /\ \A j \in 1..Len(rest) : checks'[j] = rest[j]
      /\ \A j \in (Len(rest) + 1)..Len(checks') : j - Len(rest) \in 1..Len(due) /\ checks'[j] = due[j - Len(rest)]
  <2>1. due \in Seq(Request)
    BY <1>3, <1>6
  <2>2. /\ rest \o due \in Seq(Request) /\ Len(rest \o due) = Len(rest) + Len(due)
        /\ \A j \in 1..(Len(rest) + Len(due)) :
             (rest \o due)[j] = IF j <= Len(rest) THEN rest[j] ELSE due[j - Len(rest)]
    BY <1>7, <2>1, ConcatProperties
  <2> QED BY <1>1, <1>6, <1>7, <2>2
<1>9. StatusTyped'
  <2>1. [state |-> "checking", of |-> e] \in Health
    BY <1>2 DEF Health
  <2>2. health' \in [ServiceNames -> Health]
    BY <1>1, <2>1
  <2>3. services' \in [of : ServiceEnvs \cup {NoEnv}, names : SUBSET ServiceNames]
    BY <1>1, <1>2
  <2>4. lateCheck' \in BOOLEAN /\ env' \in ServiceEnvs
    BY <1>1 DEF StatusInv, StatusTyped
  <2> QED BY <1>8, <2>2, <2>3, <2>4 DEF StatusTyped
<1>10. CASE i > 1
  BY <1>1, <1>9, <1>10 DEF StatusInv, LastList, StatusKnown
<1>11. CASE i = 1
  <2>1. lateCheck' = lateCheck
    BY <1>1, <1>11 DEF StatusInv, StatusTyped
  <2>2. \A j \in (Len(rest) + 1)..Len(checks') : ~IsList(checks'[j])
    BY <1>4, <1>8, <1>12
  <2>3. Len(checks') \in Nat /\ Len(checks') >= Len(rest)
    BY <1>6, <1>7, <1>8
  <2>4. FirstGone(checks, rest) /\ UNCHANGED env
    BY <1>1, <1>7, <1>11
  <2>5. LastList'
    BY <1>8, <2>1, <2>2, <2>3, <2>4, LastListKeeps
  <2>6. StatusKnown'
    <3> SUFFICES ASSUME ~lateCheck, ~ListAsked', NEW n \in ServiceNames PROVE Owed(n)'
      BY <1>1, <2>1 DEF StatusKnown
    <3>1. \A k \in 2..Len(checks) : ~IsList(checks[k])
      <4> SUFFICES ASSUME NEW k \in 2..Len(checks) PROVE ~IsList(checks[k])
        OBVIOUS
      <4>1. k - 1 \in 1..Len(rest) /\ rest[k - 1] = checks[k]
        <5>1. k - 1 \in 1..(Len(checks) - 1) /\ (k - 1) + 1 = k
          BY <2>4 DEF FirstGone
        <5> QED BY <2>4, <5>1 DEF FirstGone
      <4>2. k - 1 \in 1..Len(checks') /\ checks'[k - 1] = checks[k]
        BY <1>8, <2>3, <4>1
      <4> QED BY <4>2 DEF ListAsked
    <3>2. e = env
      <4>1. 1 \in 1..Len(checks) /\ IsList(checks[1]) /\ (\A k \in (1 + 1)..Len(checks) : ~IsList(checks[k]))
        BY <1>1, <1>11, <3>1
      <4>2. checks[1].env = env
        BY <4>1 DEF StatusInv, LastList
      <4> QED BY <1>11, <4>2
    <3>3. PICK j \in 1..Len(due) : due[j] = [kind |-> "check", env |-> e, name |-> n]
      BY <1>5, <1>6
    <3> DEFINE p == Len(rest) + j
    <3>4. p \in (Len(rest) + 1)..Len(checks') /\ p \in 1..Len(checks') /\ p - Len(rest) = j
      BY <1>6, <1>7, <1>8
    <3> HIDE DEF p
    <3>5. checks'[p] = due[j]
      BY <1>8, <3>4
    <3>6. IsCheck(checks'[p], n) /\ checks'[p].env = env'
      BY <2>4, <3>2, <3>3, <3>5 DEF IsCheck
    <3>7. \A k \in (p + 1)..Len(checks') : ~IsCheck(checks'[k], n)
      <4> SUFFICES ASSUME NEW k \in (p + 1)..Len(checks'), IsCheck(checks'[k], n) PROVE FALSE
        OBVIOUS
      <4>1. k \in (Len(rest) + 1)..Len(checks')
        BY <1>7, <2>3, <3>4
      <4>2. k - Len(rest) \in 1..Len(due) /\ checks'[k] = due[k - Len(rest)]
        BY <1>8, <4>1
      <4>3. due[k - Len(rest)] \in S /\ due[k - Len(rest)].name = n
        BY <1>12, <4>2 DEF IsCheck
      <4>4. due[k - Len(rest)] = due[j]
        <5>1. due[k - Len(rest)] = [kind |-> "check", env |-> e, name |-> due[k - Len(rest)].name]
          BY <1>4, <4>3
        <5> QED BY <3>3, <4>3, <5>1
      <4>5. k - Len(rest) = j
        BY <1>6, <4>2, <4>4
      <4> QED BY <1>7, <3>4, <4>1, <4>5
    <3> QED BY <3>4, <3>6, <3>7 DEF Owed
  <2> QED BY <1>9, <2>5, <2>6 DEF StatusInv
<1> QED BY <1>10, <1>11

LEMMA StatusKeeps == StatusInv /\ [Next]_vars => StatusInv'
<1> SUFFICES ASSUME StatusInv, [Next]_vars PROVE StatusInv'
  OBVIOUS
<1>1. CASE UNCHANGED statusVars
  BY <1>1 DEF statusVars, StatusInv, StatusTyped, LastList, StatusKnown, ListAsked, Owed, Said
<1>2. CASE Status!ServiceListNext
  <2>1. ASSUME NEW e \in ServiceEnvs, Status!ShowEnv(e) PROVE StatusInv'
    BY <2>1, ListAskedKeeps DEF Status!ShowEnv
  <2>2. CASE Status!loadAll
    BY <2>2, ListAskedKeeps DEF Status!loadAll, StatusInv, StatusTyped
  <2>3. ASSUME NEW n \in ServiceNames, Status!runCheck(n) PROVE StatusInv'
    BY <2>3, RunCheckKeeps
  <2>4. ASSUME NEW i \in 1..Len(checks), Status!AnswerServices(i) \/ Status!AnswerServicesFails(i)
        PROVE  StatusInv'
    BY <2>4, AnswerServicesKeep, ServicesFailKeep
  <2>5. ASSUME NEW i \in 1..Len(checks), NEW s \in {"up", "down"}, Status!AnswerCheck(i, s)
        PROVE  StatusInv'
    BY <2>5, AnswerCheckKeeps
  <2> QED BY <1>2, <2>1, <2>2, <2>3, <2>4, <2>5 DEF Status!ServiceListNext
<1> QED
  BY <1>1, <1>2
     DEF Next, LogsStep, FilesStep, StatusStep, ListsStep, StorageStep, BuilderStep, vars

(* When everything that was asked has been answered in turn, every service *)
(* shows what a check of the environment that is shown said                *)
(* (ServiceList.tsx:44-67), however many environments were shown and lists *)
(* asked for meanwhile.                                                    *)
THEOREM StatusSettles == Spec => []StatusIsOfEnv
<1>1. StatusInv => StatusIsOfEnv
  BY DEF StatusInv, StatusTyped, StatusKnown, ListAsked, Owed, Said, StatusIsOfEnv, Status!StatusIsOfEnv
<1> QED BY <1>1, StatusInitially, StatusKeeps, PTL DEF Spec
-----------------------------------------------------------------------------
(* The panes of the logs page, for any tree of sources and any limits.     *)
(* What a pane can be. *)
Pane == [id : {RowId(row) : row \in Rows} \cup {addedId(row) : row \in Rows}, source : Rows]

SessionsTypeOK == sessions \in Seq(Pane) /\ layout \in Layouts

(* No two of the panes share an id. *)
Distinct(ss) == \A i, j \in 1..Len(ss) : ss[i].id = ss[j].id => i = j

(* Both properties are inductive together with the types.                  *)
SessionsInv == SessionsTypeOK /\ WithinLimit /\ PageIsNotBlank

-----------------------------------------------------------------------------
(* What the effect after each change shows is open: Focus (LogsPage.tsx:   *)
(* 227-232) leaves a page blank only when no pane is left.                 *)
LEMMA FocusIsOpen ==
  ASSUME NEW S, NEW ss \in Seq(S), NEW tab, ss # <<>>
  PROVE  Focus(ss, tab) \in Ids(ss)
<1>1. Len(ss) \in Nat /\ Len(ss) >= 1
  OBVIOUS
<1>2. ss[1].id \in Ids(ss)
  BY <1>1 DEF Ids
<1> QED
  BY <1>2 DEF Focus

(* A change that shows panes within the limit of the next layout, each     *)
(* once, preserves the invariant.                                          *)
LEMMA ShowKeepsPanes ==
  ASSUME NEW ss \in Seq(Pane), NEW tab, Show(ss, tab), layout' \in Layouts,
         Len(ss) <= LIMITS[layout'], Distinct(ss)
  PROVE  SessionsInv'
<1>1. sessions' = ss /\ activeTab' = Focus(ss, tab)
  BY DEF Show
<1>2. SessionsTypeOK'
  BY <1>1 DEF SessionsTypeOK
<1>3. WithinLimit'
  BY <1>1 DEF WithinLimit, Distinct
<1>4. PageIsNotBlank'
  BY <1>1, FocusIsOpen DEF PageIsNotBlank, Ids
<1> QED
  BY <1>2, <1>3, <1>4 DEF SessionsInv

(* A pane less: removeSession takes one pane out and moves the later ones  *)
(* up (LogsPage.tsx:581-583).                                              *)
LEMMA WithoutIsShorter ==
  ASSUME SessionsInv, NEW i \in 1..Len(sessions)
  PROVE  /\ Without(i) \in Seq(Pane)
         /\ Len(Without(i)) = Len(sessions) - 1
         /\ Distinct(Without(i))
<1> DEFINE n == Len(sessions)
           before == SubSeq(sessions, 1, i - 1)
           after == SubSeq(sessions, i + 1, n)
<1>1. sessions \in Seq(Pane) /\ n \in Nat /\ i \in 1..n /\ i \in Nat
  BY DEF SessionsInv, SessionsTypeOK
<1>2. before \in Seq(Pane) /\ Len(before) = i - 1
      /\ \A k \in 1..(i - 1) : before[k] = sessions[k]
  BY <1>1
<1>3. after \in Seq(Pane) /\ Len(after) = n - i
      /\ \A k \in 1..(n - i) : after[k] = sessions[k + i]
  BY <1>1
<1> HIDE DEF before, after
<1>4. Without(i) = before \o after
  BY DEF Without, before, after
<1>5. Without(i) \in Seq(Pane) /\ Len(Without(i)) = n - 1
  BY <1>1, <1>2, <1>3, <1>4
<1>6. ASSUME NEW k \in 1..(n - 1)
      PROVE  Without(i)[k] = sessions[IF k < i THEN k ELSE k + 1]
  <2>1. CASE k < i
    BY <1>1, <1>2, <1>3, <1>4, <2>1
  <2>2. CASE ~(k < i)
    <3>1. k - (i - 1) \in 1..(n - i) /\ k > i - 1
      BY <1>1, <2>2
    <3>2. Without(i)[k] = after[k - (i - 1)]
      BY <1>1, <1>2, <1>3, <1>4, <3>1
    <3>3. after[k - (i - 1)] = sessions[k - (i - 1) + i]
      BY <1>3, <3>1
    <3>4. k - (i - 1) + i = k + 1
      BY <1>1
    <3> QED
      BY <2>2, <3>2, <3>3, <3>4
  <2> QED
    BY <2>1, <2>2
<1>7. Distinct(Without(i))
  <2> SUFFICES ASSUME NEW j \in 1..(n - 1), NEW k \in 1..(n - 1),
                      Without(i)[j].id = Without(i)[k].id
               PROVE  j = k
    BY <1>5 DEF Distinct
  <2> DEFINE Old(x) == IF x < i THEN x ELSE x + 1
  <2>1. Old(j) \in 1..n /\ Old(k) \in 1..n
    BY <1>1
  <2>2. sessions[Old(j)].id = sessions[Old(k)].id
    BY <1>6
  <2>3. Old(j) = Old(k)
    BY <2>1, <2>2 DEF SessionsInv, WithinLimit
  <2> QED
    BY <1>1, <2>3
<1> QED
  BY <1>5, <1>7

(* A pane more, with an id that is not open yet. *)
LEMMA AppendKeepsDistinct ==
  ASSUME NEW ss \in Seq(Pane), Distinct(ss), NEW p \in Pane, p.id \notin Ids(ss)
  PROVE  /\ Append(ss, p) \in Seq(Pane)
         /\ Len(Append(ss, p)) = Len(ss) + 1
         /\ Distinct(Append(ss, p))
<1>1. /\ Append(ss, p) \in Seq(Pane)
      /\ Len(Append(ss, p)) = Len(ss) + 1
      /\ Len(ss) \in Nat
      /\ \A k \in 1..Len(ss) : Append(ss, p)[k] = ss[k]
      /\ Append(ss, p)[Len(ss) + 1] = p
  OBVIOUS
<1>2. \A k \in 1..Len(ss) : ss[k].id # p.id
  BY DEF Ids
<1>3. ASSUME NEW j \in 1..(Len(ss) + 1), NEW k \in 1..(Len(ss) + 1),
             Append(ss, p)[j].id = Append(ss, p)[k].id
      PROVE  j = k
  <2>1. (j \in 1..Len(ss) \/ j = Len(ss) + 1) /\ (k \in 1..Len(ss) \/ k = Len(ss) + 1)
    BY <1>1
  <2> QED
    BY <1>1, <1>2, <1>3, <2>1 DEF Distinct
<1> QED
  BY <1>1, <1>3 DEF Distinct

LEMMA SessionsInitially == Init => SessionsInv
  BY LimitsAreNat DEF Init, PageInit, SessionsInit, SessionsInv, SessionsTypeOK, WithinLimit, PageIsNotBlank, Layouts, Ids

LEMMA RemovalKeepsPanes ==
  ASSUME SessionsInv, NEW id, removeSession(id), UNCHANGED layout
  PROVE  SessionsInv'
<1>1. PICK i \in 1..Len(sessions) : Show(Without(i), activeTab)
  BY DEF removeSession
<1>2. /\ Len(sessions) \in Nat /\ Len(sessions) <= LIMITS[layout]
      /\ layout' \in Layouts /\ LIMITS[layout'] \in Nat /\ layout' = layout
  BY LimitsAreNat DEF SessionsInv, SessionsTypeOK, WithinLimit, Layouts
<1>3. Len(Without(i)) <= LIMITS[layout']
  BY <1>2, WithoutIsShorter
<1> QED
  BY <1>1, <1>2, <1>3, WithoutIsShorter, ShowKeepsPanes

LEMMA AdditionKeepsPanes ==
  ASSUME SessionsInv, NEW row \in Rows, addSession(row), UNCHANGED layout
  PROVE  SessionsInv'
<1> DEFINE id == addedId(row)
           p == [id |-> id, source |-> row]
<1>1. /\ sessions \in Seq(Pane) /\ Len(sessions) \in Nat /\ Distinct(sessions)
      /\ Len(sessions) <= LIMITS[layout]
      /\ layout' \in Layouts /\ LIMITS[layout'] \in Nat /\ layout' = layout
  BY LimitsAreNat DEF SessionsInv, SessionsTypeOK, WithinLimit, Layouts, Distinct
<1>2. CASE id \in Ids(sessions) \/ Len(sessions) >= LIMITS[layout]
  <2>1. Show(sessions, id)
    BY <1>2 DEF addSession
  <2> QED
    BY <1>1, <2>1, ShowKeepsPanes
<1>3. CASE ~(id \in Ids(sessions) \/ Len(sessions) >= LIMITS[layout])
  <2>1. Show(Append(sessions, p), id)
    BY <1>3 DEF addSession
  <2>2. p \in Pane /\ p.id \notin Ids(sessions)
    BY <1>3 DEF Pane
  <2>3. /\ Append(sessions, p) \in Seq(Pane)
        /\ Len(Append(sessions, p)) = Len(sessions) + 1
        /\ Distinct(Append(sessions, p))
    BY <1>1, <2>2, AppendKeepsDistinct
  <2>4. Len(Append(sessions, p)) <= LIMITS[layout']
    BY <1>1, <1>3, <2>3
  <2> QED
    BY <1>1, <2>1, <2>3, <2>4, ShowKeepsPanes
<1> QED
  BY <1>2, <1>3

LEMMA LayoutKeepsPanes ==
  ASSUME SessionsInv, NEW next \in Layouts, changeLayout(next)
  PROVE  SessionsInv'
<1> DEFINE n == IF Len(sessions) > LIMITS[next] THEN LIMITS[next] ELSE Len(sessions)
<1>1. /\ sessions \in Seq(Pane) /\ Len(sessions) \in Nat /\ Distinct(sessions)
      /\ LIMITS[next] \in Nat /\ layout' = next
  BY LimitsAreNat DEF SessionsInv, SessionsTypeOK, WithinLimit, Layouts, Distinct, changeLayout
<1>2. n \in 0..Len(sessions) /\ n <= LIMITS[next]
  BY <1>1
<1>3. Kept(next) = SubSeq(sessions, 1, n)
  BY DEF Kept
<1> HIDE DEF n
<1>4. /\ Kept(next) \in Seq(Pane) /\ Len(Kept(next)) = n
      /\ \A k \in 1..n : Kept(next)[k] = sessions[k]
  BY <1>1, <1>2, <1>3
<1>5. Distinct(Kept(next))
  BY <1>1, <1>2, <1>4 DEF Distinct
<1>6. Show(Kept(next), activeTab)
  BY DEF changeLayout
<1> QED
  BY <1>1, <1>2, <1>4, <1>5, <1>6, ShowKeepsPanes

LEMMA FocusKeepsPanes ==
  ASSUME SessionsInv, NEW i \in 1..Len(sessions), FocusTab(i)
  PROVE  SessionsInv'
<1>1. Show(sessions, sessions[i].id) /\ layout' = layout
  BY DEF FocusTab
<1>2. sessions \in Seq(Pane) /\ layout \in Layouts
      /\ Len(sessions) <= LIMITS[layout] /\ Distinct(sessions)
  BY DEF SessionsInv, SessionsTypeOK, WithinLimit, Distinct
<1> QED
  BY <1>1, <1>2, ShowKeepsPanes

LEMMA SessionsKeep == SessionsInv /\ [Next]_vars => SessionsInv'
<1> SUFFICES ASSUME SessionsInv, [Next]_vars
             PROVE  SessionsInv'
  OBVIOUS
<1>1. ASSUME NEW row \in Rows, ClickRow(row)
      PROVE  SessionsInv'
  <2>1. CASE RowId(row) \in Ids(sessions)
    BY <1>1, <2>1, RemovalKeepsPanes DEF ClickRow
  <2>2. CASE RowId(row) \notin Ids(sessions)
    BY <1>1, <2>2, AdditionKeepsPanes DEF ClickRow
  <2> QED
    BY <2>1, <2>2
<1>2. ASSUME NEW i \in 1..Len(sessions), ClosePane(i)
      PROVE  SessionsInv'
  BY <1>2, RemovalKeepsPanes DEF ClosePane
<1>3. ASSUME NEW i \in 1..Len(sessions), FocusTab(i)
      PROVE  SessionsInv'
  BY <1>3, FocusKeepsPanes
<1>4. ASSUME NEW next \in Layouts, changeLayout(next)
      PROVE  SessionsInv'
  BY <1>4, LayoutKeepsPanes
<1>5. CASE UNCHANGED sessionVars
  BY <1>5 DEF sessionVars, SessionsInv, SessionsTypeOK, WithinLimit, PageIsNotBlank, Ids
<1>6. CASE LogsStep
  <2>1. PageNext
    BY <1>6 DEF LogsStep
  <2> QED
    BY <1>1, <1>2, <1>3, <1>4, <1>5, <2>1 DEF PageNext, UseRow
<1>7. CASE ~LogsStep
  <2>1. UNCHANGED pageVars
    BY <1>7 DEF Next, vars, FilesStep, StatusStep, ListsStep, StorageStep, BuilderStep
  <2> QED
    BY <1>5, <2>1 DEF pageVars, sessionVars
<1> QED
  BY <1>6, <1>7

(* However sources are clicked and the layout changed, the open panes stay *)
(* within what the layout takes, each once (LogsPage.tsx:571-590).         *)
THEOREM PanesStayWithinLimit == Spec => []WithinLimit
<1>1. SessionsInv => WithinLimit
  BY DEF SessionsInv
<1> QED
  BY <1>1, SessionsInitially, SessionsKeep, PTL DEF Spec

(* While a pane is open, the tab that is shown is that of an open pane     *)
(* (LogsPage.tsx:227-232): the page is never blank.                        *)
THEOREM PageIsNeverBlank == Spec => []PageIsNotBlank
<1>1. SessionsInv => PageIsNotBlank
  BY DEF SessionsInv
<1> QED
  BY <1>1, SessionsInitially, SessionsKeep, PTL DEF Spec

-----------------------------------------------------------------------------
(* While the builder's page is shown it takes the builder's steps, and no  *)
(* other page touches a form (App.tsx: one view is mounted at a time): the *)
(* pages implement the configuration builder, so that what is proved of    *)
(* BuilderSpec in ConfigBuilder_proofs holds of them.                      *)
THEOREM PagesRunTheBuilder == Spec => BuilderSpec
<1>1. Init => BuilderInit
  BY DEF Init
<1>2. [Next]_vars => [BuilderNext]_builderVars
  <2> SUFFICES ASSUME [Next]_vars PROVE [BuilderNext]_builderVars
    OBVIOUS
  <2>1. CASE UNCHANGED builderVars
    BY <2>1
  <2>2. CASE BuilderStep
    BY <2>2 DEF BuilderStep
  <2> QED BY <2>1, <2>2 DEF Next, vars, LogsStep, FilesStep, StatusStep, ListsStep, StorageStep
<1> QED BY <1>1, <1>2, PTL DEF Spec, BuilderSpec

(* Among the pages, too, what is ticked or overridden follows its service  *)
(* through every change (ConfigBuilder.tsx:936-999), and what was saved is *)
(* shown when it is opened again (App.tsx:370-498).                        *)
THEOREM PagesKeepForms == Spec => [](LinksFollowRenames /\ SavedIsReopened)
<1>1. BuilderSpec => []LinksFollowRenames
  BY LinksAlwaysFollowRenames, WorkloadsAssumption DEF WorkloadsAreFinite
<1>2. BuilderSpec => []SavedIsReopened
  BY WhatIsSavedIsReopened, WorkloadsAssumption DEF WorkloadsAreFinite
<1> QED BY <1>1, <1>2, PagesRunTheBuilder, PTL
=============================================================================
