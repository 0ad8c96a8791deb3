------------------------ MODULE LogsAndCopies_proofs ------------------------
(***************************************************************************)
(* Proofs about the two stores of lines a server keeps: the log buffer     *)
(* (LogBuffer), for every size of the ring, every number of writers and    *)
(* streams and every capacity of their channels, and the temporary copies  *)
(* of compressed files (TempFiles), for any number of files and requests,  *)
(* any time to live and any period of the sweep.  The two share no name.   *)
(***************************************************************************)
EXTENDS LogBuffer, TempFiles, SequenceTheorems, TLAPS


(* One turn round the ring at most: what the remainder by the ring's size is
   for a number below twice that size. *)
LEMMA ModOnce ==
  ASSUME NEW a \in 0..(2 * Size - 1)
  PROVE a % Size = IF a < Size THEN a ELSE a - Size
BY SizeAssumption

(* The slot of the k-th newest entry. *)
Slot(k) == IF k <= pos THEN pos - k ELSE pos - k + Size

(* The ring holds the newest entries: the k-th newest sits k slots behind the
   cursor, and before the ring is full the cursor counts the entries. *)
RingInv ==
  /\ stored \in Nat /\ pos \in Slots /\ full \in BOOLEAN
  /\ entries \in [Slots -> Nat]
  /\ IF full THEN stored >= Size ELSE pos = stored
  /\ \A k \in 1..Held : entries[Slot(k)] = stored - k + 1

(* Only Store touches the ring or the number of entries stored. *)
LEMMA RingKept ==
  ASSUME [Next]_vars
  PROVE (\E w \in Writers : Store(w)) \/ UNCHANGED <<ring, stored>>
BY DEF Next, vars, Finishing, Offer, Send, Drop, Offered, OfferClosed, File, Open,
       Forward, Deliver, End, Return, Subscribe, Receive, Cancel

(* Storing an entry keeps the ring in order, whether or not the cursor wraps. *)
LEMMA StoreRing ==
  ASSUME RingInv, NEW w \in Writers, Store(w)
  PROVE RingInv'
<1> USE SizeAssumption DEF RingInv, Store, Slots
<1>1. Advance(pos) = IF pos + 1 = Size THEN 0 ELSE pos + 1
  <2>1. pos + 1 \in 0..(2 * Size - 1) OBVIOUS
  <2> QED BY <2>1, ModOnce DEF Advance
<1>2. /\ stored' = stored + 1 /\ stored' \in Nat
      /\ pos' = (IF pos + 1 = Size THEN 0 ELSE pos + 1) /\ pos' \in Slots
  BY <1>1
<1>3. full' = (full \/ pos + 1 = Size) /\ full' \in BOOLEAN
  <2>1. (Advance(pos) = 0) <=> (pos + 1 = Size) BY <1>1
  <2>2. full' = (full \/ Advance(pos) = 0) BY DEF Wrapped
  <2> QED BY <2>1, <2>2, Zenon
<1>4. entries' \in [Slots -> Nat] /\ entries'[pos] = stored + 1
      /\ \A s \in Slots \ {pos} : entries'[s] = entries[s]
  <2>1. entries' = [entries EXCEPT ![pos] = stored + 1] OBVIOUS
  <2>2. entries \in [Slots -> Nat] /\ pos \in Slots /\ stored + 1 \in Nat OBVIOUS
  <2> HIDE DEF Slots, RingInv, Store
  <2> QED BY <2>1, <2>2
<1>5. IF full' THEN stored' >= Size ELSE pos' = stored'
  <2>0. stored \in Nat /\ pos \in 0..(Size - 1) OBVIOUS
  <2>1. CASE full
    <3>1. full' /\ stored >= Size BY <2>1, <1>3
    <3> HIDE DEF Store, RingInv
    <3> QED BY <3>1, <2>0, <1>2
  <2>2. CASE ~full
    <3>1. (full' <=> pos + 1 = Size) /\ pos = stored BY <2>2, <1>3
    <3> HIDE DEF Store, RingInv
    <3> QED BY <3>1, <2>0, <1>2
  <2> QED BY <2>1, <2>2
<1>6. ASSUME NEW k \in 1..Held' PROVE entries'[Slot(k)'] = stored' - k + 1
  <2>1. CASE k = 1
    <3>1. Slot(k)' = pos BY <2>1, <1>2 DEF Slot
    <3> QED BY <3>1, <1>2, <1>4, <2>1
  <2>2. CASE k # 1
    <3>1. k - 1 \in 1..Held BY <2>2, <1>2, <1>3 DEF Held
    <3>2. Slot(k)' = Slot(k - 1) BY <2>2, <1>2, <3>1 DEF Slot, Held
    <3>3. Slot(k - 1) \in Slots \ {pos}
      <4>1. k - 1 < Size BY <1>2, <1>3 DEF Held
      <4> QED BY <3>1, <4>1 DEF Slot, Held
    <3>4. entries[Slot(k - 1)] = stored - (k - 1) + 1 BY <3>1
    <3> QED BY <3>1, <3>2, <3>3, <3>4, <1>2, <1>4
  <2> QED BY <2>1, <2>2
<1> QED BY <1>2, <1>3, <1>4, <1>5, <1>6

(* RingInv holds throughout. *)
LEMMA RingAlways == Spec => []RingInv
<1>1. Init => RingInv
  <2> SUFFICES ASSUME Init PROVE RingInv OBVIOUS
  <2>1. Held = 0 /\ full = FALSE BY DEF Init, Held
  <2>2. 0 \in Slots BY SizeAssumption DEF Slots
  <2>3. entries \in [Slots -> Nat] BY DEF Init
  <2>4. stored = 0 /\ pos = 0 BY DEF Init
  <2>5. \A k \in 1..Held : entries[Slot(k)] = stored - k + 1 BY <2>1
  <2> QED BY <2>1, <2>2, <2>3, <2>4, <2>5 DEF RingInv
<1>2. RingInv /\ [Next]_vars => RingInv'
  <2> SUFFICES ASSUME RingInv, [Next]_vars PROVE RingInv' OBVIOUS
  <2>1. CASE \E w \in Writers : Store(w) BY <2>1, StoreRing
  <2>2. CASE UNCHANGED <<ring, stored>>
    <3>1. entries' = entries /\ pos' = pos /\ full' = full /\ stored' = stored
      BY <2>2 DEF ring
    <3>2. Held' = Held /\ \A k : Slot(k)' = Slot(k) BY <3>1 DEF Held, Slot
    <3> QED BY <3>1, <3>2 DEF RingInv
  <2> QED BY <2>1, <2>2, RingKept
<1> QED BY <1>1, <1>2, PTL DEF Spec

(* A snapshot of m held entries lists the newest m, oldest first. *)
LEMMA SnapshotOf ==
  ASSUME RingInv, NEW m \in 1..Held, NEW i \in 1..m
  PROVE entries[(Start(m) + i - 1) % Size] = stored - m + i
<1> USE SizeAssumption DEF RingInv, Slots, Held
<1>1. /\ m \in 1..Size /\ i \in 1..m /\ pos \in 0..(Size - 1)
      /\ full \/ m <= pos
  <2>1. CASE full BY <2>1
  <2>2. CASE ~full BY <2>2
  <2> QED BY <2>1, <2>2
<1>2. Start(m) = IF m <= pos THEN pos - m ELSE pos - m + Size
  <2>1. CASE full
    <3> HIDE DEF RingInv, Held
    <3>1. pos - m + Size \in 0..(2 * Size - 1) BY <1>1
    <3>2. (pos - m + Size) % Size = IF m <= pos THEN pos - m ELSE pos - m + Size
      <4> DEFINE a == pos - m + Size
      <4>1. a % Size = IF a < Size THEN a ELSE a - Size BY <3>1, ModOnce
      <4>2. (a < Size <=> m > pos) /\ a - Size = pos - m BY <1>1
      <4>3. CASE m <= pos BY <4>1, <4>2, <4>3, <1>1
      <4>4. CASE m > pos BY <4>1, <4>2, <4>4, <1>1
      <4> QED BY <4>3, <4>4, <1>1
    <3> QED BY <2>1, <3>2 DEF Start
  <2>2. CASE ~full BY <2>2, <1>1 DEF Start
  <2> QED BY <2>1, <2>2
<1>3. PICK a \in 0..(2 * Size - 1) : a = Start(m) + i - 1 BY <1>1, <1>2
<1>4. a % Size = Slot(m - i + 1)
  <2> HIDE DEF RingInv, Held
  <2>1. a % Size = IF a < Size THEN a ELSE a - Size BY ModOnce
  <2>2. CASE m <= pos
    BY <2>1, <2>2, <1>1, <1>2, <1>3 DEF Slot
  <2>3. CASE m > pos
    BY <2>1, <2>3, <1>1, <1>2, <1>3 DEF Slot
  <2> QED BY <1>1, <2>2, <2>3
<1>5. m - i + 1 \in 1..Held OBVIOUS
<1>6. entries[Slot(m - i + 1)] = stored - (m - i + 1) + 1 BY <1>5
<1>7. (Start(m) + i - 1) % Size = a % Size BY <1>3, Zenon
<1> QED BY <1>4, <1>6, <1>7

(* The ring buffer keeps its promise: in every reachable state a snapshot of n
   entries is the newest n of them, in order (SnapshotIsTail). *)
THEOREM SnapshotsAreTails == Spec => []SnapshotIsTail
<1>1. RingInv => SnapshotIsTail
  <2> SUFFICES ASSUME RingInv, NEW n \in 0..(Size + 1)
               PROVE LET k == IF n = 0 \/ n > Size THEN Size ELSE n
                         m == IF k > stored THEN stored ELSE k
                     IN Snapshot(n) = [i \in 1..m |-> stored - m + i]
    BY DEF SnapshotIsTail
  <2> DEFINE k == IF n = 0 \/ n > Size THEN Size ELSE n
             m == IF k > stored THEN stored ELSE k
  <2>1. Asked(n) = m /\ m \in 0..Held
    BY SizeAssumption DEF Asked, Held, RingInv, Slots
  <2> HIDE DEF k, m
  <2>2. \A i \in 1..m : entries[(Start(m) + i - 1) % Size] = stored - m + i
    BY <2>1, SnapshotOf
  <2>3. Snapshot(n) = [i \in 1..m |-> stored - m + i]
    BY <2>1, <2>2 DEF Snapshot
  <2> QED BY <2>3 DEF k, m
<1> QED BY <1>1, RingAlways, PTL

-----------------------------------------------------------------------------
(* A channel is closed only once its stream is over, and only a stream that is
   following is subscribed. *)
SubsInv ==
  /\ fpc \in [Followers -> {"idle", "replay", "follow", "done"}]
  /\ subs \subseteq Followers /\ closed \subseteq Followers
  /\ \A f \in subs : fpc[f] = "follow"
  /\ \A f \in closed : fpc[f] = "done"

(* What a step of the system can do to the subscriptions. *)
LEMMA SubsSteps ==
  ASSUME [Next]_vars
  PROVE \/ UNCHANGED <<fpc, subs, closed>>
        \/ \E f \in Followers : /\ fpc[f] = "idle"
                               /\ fpc' = [fpc EXCEPT ![f] = "replay"]
                               /\ UNCHANGED <<subs, closed>>
        \/ \E f \in Followers : Subscribe(f) \/ End(f) \/ Cancel(f)
BY DEF Next, vars, followers, Store, Finishing, Offer, Send, Drop, Offered, OfferClosed,
       File, Open, Forward, Deliver, Receive

(* SubsInv holds throughout. *)
LEMMA SubsAlways == Spec => []SubsInv
<1>1. Init => SubsInv BY DEF Init, SubsInv
<1>2. SubsInv /\ [Next]_vars => SubsInv'
  <2> SUFFICES ASSUME SubsInv, [Next]_vars PROVE SubsInv' OBVIOUS
  <2>1. CASE UNCHANGED <<fpc, subs, closed>> BY <2>1 DEF SubsInv
  <2>2. ASSUME NEW f \in Followers, fpc[f] = "idle",
               fpc' = [fpc EXCEPT ![f] = "replay"], UNCHANGED <<subs, closed>>
        PROVE SubsInv'
    BY <2>2 DEF SubsInv
  <2>3. ASSUME NEW f \in Followers, Subscribe(f) PROVE SubsInv'
    BY <2>3 DEF SubsInv, Subscribe
  <2>4. ASSUME NEW f \in Followers, End(f) PROVE SubsInv'
    BY <2>4 DEF SubsInv, End, Return
  <2>5. ASSUME NEW f \in Followers, Cancel(f) PROVE SubsInv'
    BY <2>5 DEF SubsInv, Cancel, Return, Unsubscribed
  <2> QED BY <2>1, <2>2, <2>3, <2>4, <2>5, SubsSteps
<1> QED BY <1>1, <1>2, PTL DEF Spec

(* Every step the writers and the streams can take, as the proof below splits it. *)
LEMMA NextCases ==
  ASSUME [Next]_vars
  PROVE \/ \E w \in Writers : Store(w) \/ File(w)
        \/ \E w \in Writers, f \in Followers : Send(w, f) \/ Drop(w, f) \/ OfferClosed(w, f)
        \/ \E f \in Followers, n \in Tails, following \in BOOLEAN : Open(f, n, following)
        \/ \E f \in Followers : Deliver(f) \/ End(f) \/ Subscribe(f) \/ Receive(f) \/ Cancel(f)
        \/ UNCHANGED vars
BY Zenon DEF Next, Finishing, Offer, Forward

(* What a snapshot returns is a sequence of entries. *)
LEMMA SnapshotType ==
  ASSUME RingInv, stored \in 0..MaxEntries, NEW n \in Nat
  PROVE Snapshot(n) \in Seq(Entries)
<1>1. Asked(n) \in 0..Held /\ Held \in Nat
  BY SizeAssumption DEF Asked, Held, RingInv, Slots
<1>2. Held <= stored BY DEF Held, RingInv
<1>3. ASSUME NEW i \in 1..Asked(n)
      PROVE entries[(Start(Asked(n)) + i - 1) % Size] \in Entries
  <2>1. Asked(n) \in 1..Held BY <1>1
  <2>2. entries[(Start(Asked(n)) + i - 1) % Size] = stored - Asked(n) + i
    BY <2>1, SnapshotOf
  <2>3. stored - Asked(n) + i \in Entries BY <1>1, <1>2, BoundAssumption DEF Entries
  <2> QED BY <2>2, <2>3
<1> QED BY <1>1, <1>3 DEF Snapshot

(* A writer that is past its store holds an entry. *)
MineInv == \A w \in Writers : wpc[w] # "idle" => mine[w] # 0

(* Every step keeps the types. *)
LEMMA TypeStep ==
  ASSUME RingInv, RingInv', TypeOK, MineInv, [Next]_vars
  PROVE TypeOK' /\ MineInv'
<1> USE BoundAssumption DEF TypeOK, MineInv, Entries
<1>1. ASSUME NEW w \in Writers, Store(w) PROVE TypeOK' /\ MineInv'
  <2> USE <1>1 DEF Store, followers
  <2>1. stored + 1 \in 0..MaxEntries /\ stored + 1 \in Entries OBVIOUS
  <2>2. entries' \in [Slots -> 0..MaxEntries] /\ stored' \in 0..MaxEntries BY <2>1
  <2>3. pos' \in Slots /\ full' \in BOOLEAN BY DEF RingInv
  <2>4. mine' \in [Writers -> 0..MaxEntries] BY <2>1
  <2>5. wpc' \in [Writers -> {"idle", "offer", "panicked"}] OBVIOUS
  <2>6. targets' \in [Writers -> SUBSET Followers] OBVIOUS
  <2>7. crossed' \subseteq Entries \X Entries
    <3>1. \A v \in Writers : wpc[v] # "idle" => mine[v] \in Entries OBVIOUS
    <3> QED BY <2>1, <3>1
  <2>8. MineInv' BY <2>1
  <2> QED BY <2>2, <2>3, <2>4, <2>5, <2>6, <2>7, <2>8
<1>2. ASSUME NEW w \in Writers, File(w) PROVE TypeOK' /\ MineInv'
  <2> USE <1>2 DEF File, ring, followers, history
  <2>1. filed' \subseteq Entries
    <3>1. mine[w] \in Entries OBVIOUS
    <3> QED BY <3>1
  <2>2. mine' \in [Writers -> 0..MaxEntries] OBVIOUS
  <2>3. wpc' \in [Writers -> {"idle", "offer", "panicked"}] OBVIOUS
  <2>4. MineInv' OBVIOUS
  <2> QED BY <2>1, <2>2, <2>3, <2>4
<1>3. ASSUME NEW w \in Writers, NEW f \in Followers, Send(w, f) PROVE TypeOK' /\ MineInv'
  <2> USE <1>3 DEF Send, Offered, ring, followers, history
  <2>1. mine[w] \in Entries OBVIOUS
  <2>2. chan' \in [Followers -> Seq(Entries)] BY <2>1
  <2>3. \A g \in Followers : Len(chan'[g]) <= Capacity
    <3>1. Len(chan[f]) + 1 <= Capacity BY DEF HasRoom
    <3>2. chan'[f] = Append(chan[f], mine[w]) /\ Len(chan'[f]) = Len(chan[f]) + 1
      BY <2>1
    <3> QED BY <3>1, <3>2
  <2>4. targets' \in [Writers -> SUBSET Followers] OBVIOUS
  <2> QED BY <2>2, <2>3, <2>4
<1>4. ASSUME NEW w \in Writers, NEW f \in Followers, Drop(w, f) PROVE TypeOK' /\ MineInv'
  <2> USE <1>4 DEF Drop, Offered, ring, followers, history
  <2>1. mine[w] \in Entries OBVIOUS
  <2>2. dropped' \in [Followers -> SUBSET Entries] BY <2>1
  <2>3. targets' \in [Writers -> SUBSET Followers] OBVIOUS
  <2> QED BY <2>2, <2>3
<1>5. ASSUME NEW w \in Writers, NEW f \in Followers, OfferClosed(w, f)
      PROVE TypeOK' /\ MineInv'
  <2>1. mine[w] \in Entries BY <1>5 DEF OfferClosed
  <2> QED BY <1>5, <2>1 DEF OfferClosed, ring, followers, history
<1>6. ASSUME NEW f \in Followers, NEW n \in Tails, NEW following \in BOOLEAN,
             Open(f, n, following)
      PROVE TypeOK' /\ MineInv'
  <2> DEFINE replay == IF n > 0 THEN Snapshot(n) ELSE <<>>
  <2>1. replay \in Seq(Entries)
    <3>1. n \in Nat /\ Snapshot(n) \in Seq(Entries) BY SnapshotType
    <3>2. <<>> \in Seq(Entries) OBVIOUS
    <3> QED BY <3>1, <3>2, Zenon
  <2> HIDE DEF replay
  <2>2. Elems(replay) \subseteq Entries BY <2>1 DEF Elems
  <2>3. /\ fpc' = [fpc EXCEPT ![f] = "replay"]
        /\ follow' = [follow EXCEPT ![f] = following]
        /\ pending' = [pending EXCEPT ![f] = replay]
        /\ base' = [base EXCEPT ![f] = Elems(replay)]
        /\ UNCHANGED <<ring, subs, chan, closed, writers, filed, got, stored,
                       joined, dropped, crossed>>
    BY <1>6, Zenon DEF Open, replay
  <2>4. fpc' \in [Followers -> {"idle", "replay", "follow", "done"}] BY <2>3
  <2>5. follow' \in [Followers -> BOOLEAN] BY <2>3, Zenon
  <2>6. pending' \in [Followers -> Seq(Entries)] BY <2>1, <2>3
  <2>7. base' \in [Followers -> SUBSET Entries] BY <2>2, <2>3
  <2> QED BY <2>3, <2>4, <2>5, <2>6, <2>7 DEF ring, writers
<1>7. ASSUME NEW f \in Followers, Deliver(f) PROVE TypeOK' /\ MineInv'
  <2> USE <1>7 DEF Deliver, ring, writers, history
  <2>1. Head(pending[f]) \in Entries /\ Tail(pending[f]) \in Seq(Entries) OBVIOUS
  <2>2. got' \in [Followers -> Seq(Entries)]
    <3>1. Append(got[f], Head(pending[f])) \in Seq(Entries) BY <2>1
    <3> QED BY <3>1
  <2>3. pending' \in [Followers -> Seq(Entries)] BY <2>1
  <2> QED BY <2>2, <2>3
<1>8. ASSUME NEW f \in Followers, Return(f),
             UNCHANGED <<ring, writers, filed, follow, stored, crossed>>,
             subs' \subseteq Followers, closed' \subseteq Followers
      PROVE TypeOK' /\ MineInv'
  <2>1. \A g \in Followers : Len(chan'[g]) <= Capacity BY <1>8 DEF Return
  <2>2. joined' \in [Followers -> 0..MaxEntries] BY <1>8 DEF Return
  <2>3. <<>> \in Seq(Entries) OBVIOUS
  <2> QED BY <1>8, <2>1, <2>2, <2>3 DEF Return, ring, writers
<1>9. ASSUME NEW f \in Followers, Subscribe(f) PROVE TypeOK' /\ MineInv'
  BY <1>9 DEF Subscribe, ring, writers
<1>10. ASSUME NEW f \in Followers, Receive(f) PROVE TypeOK' /\ MineInv'
  <2> USE <1>10 DEF Receive, ring, writers, history
  <2>1. Head(chan[f]) \in Entries /\ Tail(chan[f]) \in Seq(Entries) BY SMTT(20)
  <2>2. Len(Tail(chan[f])) <= Capacity
    <3>1. Len(Tail(chan[f])) = Len(chan[f]) - 1 OBVIOUS
    <3> QED BY <3>1
  <2>3. pending' \in [Followers -> Seq(Entries)] BY <2>1
  <2>4. /\ chan' \in [Followers -> Seq(Entries)]
        /\ \A g \in Followers : Len(chan'[g]) <= Capacity
    BY <2>1, <2>2
  <2> QED BY <2>3, <2>4
<1>11. CASE UNCHANGED vars
  BY <1>11 DEF vars, ring, writers, followers, history
<1>12. ASSUME NEW f \in Followers, End(f) \/ Cancel(f) PROVE TypeOK' /\ MineInv'
  BY <1>12, <1>8 DEF End, Cancel, Unsubscribed
<1> HIDE DEF TypeOK, MineInv
<1> QED
  BY <1>1, <1>2, <1>3, <1>4, <1>5, <1>6, <1>7, <1>9, <1>10, <1>11, <1>12, NextCases, Zenon

(* Every variable keeps its type (TypeOK); the entries of a snapshot are
   entries because the ring never shows an unused slot. *)
THEOREM TypeCorrect == Spec => []TypeOK
<1>1. Init => TypeOK /\ MineInv
  <2> SUFFICES ASSUME Init PROVE TypeOK /\ MineInv OBVIOUS
  <2>1. 0 \in Slots BY SizeAssumption DEF Slots
  <2>2. <<>> \in Seq(Entries) /\ Len(<<>>) = 0 OBVIOUS
  <2>3. 0 \in 0..MaxEntries BY BoundAssumption
  <2>4. entries \in [Slots -> 0..MaxEntries] /\ stored \in 0..MaxEntries
    BY <2>3 DEF Init
  <2>5. pos \in Slots /\ full \in BOOLEAN BY <2>1, Zenon DEF Init
  <2>6. follow \in [Followers -> BOOLEAN] BY Zenon DEF Init
  <2>7. \A f \in Followers : Len(chan[f]) <= Capacity BY <2>2, BoundAssumption DEF Init
  <2>8. MineInv BY DEF Init, MineInv
  <2>9. chan \in [Followers -> Seq(Entries)] /\ pending \in [Followers -> Seq(Entries)]
        /\ got \in [Followers -> Seq(Entries)]
    BY <2>2 DEF Init
  <2>10. /\ mine \in [Writers -> 0..MaxEntries] /\ joined \in [Followers -> 0..MaxEntries]
         /\ wpc \in [Writers -> {"idle", "offer", "panicked"}]
         /\ fpc \in [Followers -> {"idle", "replay", "follow", "done"}]
         /\ targets \in [Writers -> SUBSET Followers]
         /\ base \in [Followers -> SUBSET Entries]
         /\ dropped \in [Followers -> SUBSET Entries]
    BY <2>3 DEF Init
  <2>11. subs = {} /\ closed = {} /\ filed = {} /\ crossed = {} BY DEF Init
  <2> QED BY <2>4, <2>5, <2>6, <2>7, <2>8, <2>9, <2>10, <2>11, Zenon DEF TypeOK
<1>2. RingInv /\ RingInv' /\ (TypeOK /\ MineInv) /\ [Next]_vars => (TypeOK /\ MineInv)'
  BY TypeStep
<1> QED BY <1>1, <1>2, RingAlways, PTL DEF Spec

(* A write that starts after a stream has closed its channel never sends on it:
   only a writer that had copied the channel before can panic
   (PanicOnlyOnCopiedChannel). *)
THEOREM LaterWritesDoNotPanic == Spec => PanicOnlyOnCopiedChannel
<1>1. TypeOK /\ SubsInv /\ [Next]_vars
        => [\A w \in Writers : wpc[w] = "idle" /\ wpc'[w] = "offer"
                               => targets'[w] \cap closed = {}]_vars
  <2> SUFFICES ASSUME TypeOK, SubsInv, [Next]_vars, ~ UNCHANGED vars,
                      NEW w \in Writers, wpc[w] = "idle", wpc'[w] = "offer"
               PROVE targets'[w] \cap closed = {}
    OBVIOUS
  <2>1. /\ wpc \in [Writers -> {"idle", "offer", "panicked"}]
        /\ targets \in [Writers -> SUBSET Followers]
    BY DEF TypeOK
  <2>2. targets'[w] = subs
    BY <2>1, NextCases DEF Store, File, Send, Drop, Offered, OfferClosed, Open, Deliver,
       End, Subscribe, Receive, Cancel, Return, writers, vars
  <2>3. subs \cap closed = {} BY DEF SubsInv
  <2> QED BY <2>2, <2>3
<1> QED BY <1>1, TypeCorrect, SubsAlways, PTL DEF Spec, PanicOnlyOnCopiedChannel
-----------------------------------------------------------------------------
(* Who is still being offered an entry: a stream that is subscribed, or that *)
(* has closed its channel since.                                             *)
TargetInv ==
  \A w \in Writers : \A f \in targets[w] :
    wpc[w] # "idle" /\ (fpc[f] = "follow" \/ f \in closed)

(* Entries that are being offered differ, and every later one crossed them. *)
Busy(w) == wpc[w] # "idle"
OfferInv ==
  \A w \in Writers : Busy(w) =>
    /\ mine[w] \in 1..stored
    /\ \A v \in Writers : Busy(v) /\ v # w => mine[v] # mine[w]
    /\ \A e \in (mine[w] + 1)..stored : <<mine[w], e>> \in crossed

(* What a stream holds at each point of its life. *)
PhaseInv(f) ==
  /\ fpc[f] = "follow" => f \in subs /\ joined[f] <= stored
  /\ fpc[f] \in {"idle", "done"} => got[f] = <<>> /\ pending[f] = <<>>
  /\ fpc[f] # "follow" => chan[f] = <<>>
  /\ fpc[f] \in {"idle", "replay"} => dropped[f] = {}
  /\ fpc[f] = "replay" => Elems(Stream(f)) = base[f]
  /\ Elems(Stream(f)) \subseteq 1..stored

(* The parts of FollowedFaithfully, of one stream. *)
Once(f) ==
  /\ \A i, j \in 1..Len(Stream(f)) : i # j => Stream(f)[i] # Stream(f)[j]
  /\ Elems(Stream(f)) \cap Underway(f) = {}
Missed(f) ==
  fpc[f] = "follow" =>
    Elems(Stream(f)) \cup dropped[f] \cup Underway(f) = base[f] \cup (joined[f] + 1)..stored
InOrder(f) ==
  \A i, j \in 1..Len(Stream(f)) :
    (i < j /\ Stream(f)[i] > Stream(f)[j]) => <<Stream(f)[j], Stream(f)[i]>> \in crossed

Followed(f) == PhaseInv(f) /\ Once(f) /\ Missed(f) /\ InOrder(f)
StreamInv   == TargetInv /\ OfferInv /\ \A f \in Followers : Followed(f)

LEMMA StreamTyped ==
  ASSUME TypeOK, NEW f \in Followers
  PROVE  /\ got[f] \in Seq(Entries) /\ pending[f] \in Seq(Entries) /\ chan[f] \in Seq(Entries)
         /\ Stream(f) \in Seq(Entries) /\ Len(Stream(f)) \in Nat
         /\ Stream(f) = got[f] \o (pending[f] \o chan[f])
<1>1. got[f] \in Seq(Entries) /\ pending[f] \in Seq(Entries) /\ chan[f] \in Seq(Entries)
  BY DEF TypeOK
<1>2. (got[f] \o pending[f]) \o chan[f] = got[f] \o (pending[f] \o chan[f])
  <2>1. \A s, t, u \in Seq(Entries) : (s \o t) \o u = s \o (t \o u)
    BY ConcatAssociative
  <2> QED BY <1>1, <2>1, Zenon
<1>3. (got[f] \o pending[f]) \o chan[f] \in Seq(Entries)
  <2>1. got[f] \o pending[f] \in Seq(Entries)
    BY <1>1, ConcatProperties
  <2> QED BY <1>1, <2>1, ConcatProperties
<1>4. Stream(f) = (got[f] \o pending[f]) \o chan[f]
  BY DEF Stream
<1>5. Len(Stream(f)) \in Nat
  BY <1>3, <1>4, LenProperties
<1> QED BY <1>1, <1>2, <1>3, <1>4, <1>5

(* An entry that moves on within a stream stays where it is in the stream. *)
LEMMA MovesOn ==
  ASSUME NEW S, NEW s \in Seq(S), NEW t \in Seq(S), t # <<>>
  PROVE  Append(s, Head(t)) \o Tail(t) = s \o t
<1>1. Head(t) \in S /\ Tail(t) \in Seq(S) /\ Len(Tail(t)) = Len(t) - 1
      /\ (\A i \in 1..Len(Tail(t)) : Tail(t)[i] = t[i + 1]) /\ Len(t) \in Nat \ {0}
  BY HeadTailProperties, EmptySeq
<1> DEFINE a == Append(s, Head(t))
<1>2. a \in Seq(S) /\ Len(a) = Len(s) + 1 /\ (\A i \in 1..Len(s) : a[i] = s[i])
      /\ a[Len(s) + 1] = t[1] /\ Len(s) \in Nat
  BY <1>1, AppendProperties
<1> HIDE DEF a
<1>3. /\ a \o Tail(t) \in Seq(S) /\ Len(a \o Tail(t)) = Len(s) + Len(t)
      /\ \A i \in 1..(Len(s) + Len(t)) :
           (a \o Tail(t))[i] = IF i <= Len(s) + 1 THEN a[i] ELSE Tail(t)[i - (Len(s) + 1)]
  <2>1. Len(a) + Len(Tail(t)) = Len(s) + Len(t)
    BY <1>1, <1>2
  <2>2. /\ a \o Tail(t) \in Seq(S) /\ Len(a \o Tail(t)) = Len(a) + Len(Tail(t))
        /\ \A i \in 1..(Len(a) + Len(Tail(t))) :
             (a \o Tail(t))[i] = IF i <= Len(a) THEN a[i] ELSE Tail(t)[i - Len(a)]
    BY <1>1, <1>2, ConcatProperties
  <2> QED BY <1>2, <2>1, <2>2
<1>4. /\ s \o t \in Seq(S) /\ Len(s \o t) = Len(s) + Len(t)
      /\ \A i \in 1..(Len(s) + Len(t)) : (s \o t)[i] = IF i <= Len(s) THEN s[i] ELSE t[i - Len(s)]
  BY ConcatProperties
<1>5. ASSUME NEW i \in 1..(Len(s) + Len(t)) PROVE (a \o Tail(t))[i] = (s \o t)[i]
  <2>1. CASE i <= Len(s)
    BY <1>2, <1>3, <1>4, <2>1
  <2>2. CASE i = Len(s) + 1
    <3>1. i - Len(s) = 1
      BY <1>2, <2>2
    <3> QED BY <1>2, <1>3, <1>4, <2>2, <3>1
  <2>3. CASE i > Len(s) + 1
    <3>1. i - (Len(s) + 1) \in 1..Len(Tail(t)) /\ (i - (Len(s) + 1)) + 1 = i - Len(s)
      BY <1>1, <1>2, <2>3
    <3>2. Tail(t)[i - (Len(s) + 1)] = t[i - Len(s)]
      BY <1>1, <3>1
    <3> QED BY <1>2, <1>3, <1>4, <2>3, <3>2
  <2> QED BY <1>2, <2>1, <2>2, <2>3
<1> QED BY <1>3, <1>4, <1>5, SeqEqual DEF a
(* A step that does not touch a stream. *)
LEMMA Untouched ==
  ASSUME NEW f \in Followers, Followed(f), Underway(f)' = Underway(f),
         fpc'[f] = fpc[f], got'[f] = got[f], pending'[f] = pending[f], chan'[f] = chan[f],
         dropped'[f] = dropped[f], base'[f] = base[f], joined'[f] = joined[f],
         stored' = stored, crossed' = crossed, f \in subs => f \in subs'
  PROVE  Followed(f)'
<1>1. Stream(f)' = Stream(f)
  BY DEF Stream
<1>2. PhaseInv(f)'
  BY <1>1 DEF Followed, PhaseInv
<1>3. Once(f)' /\ Missed(f)' /\ InOrder(f)'
  BY <1>1 DEF Followed, Once, Missed, InOrder
<1> QED BY <1>2, <1>3 DEF Followed

(* Nobody offers an entry to a stream that has not subscribed yet. *)
LEMMA NotOffered ==
  ASSUME SubsInv, TargetInv, NEW f \in Followers, fpc[f] \in {"idle", "replay"}
  PROVE  Underway(f) = {} /\ \A w \in Writers : f \notin targets[w]
BY DEF SubsInv, TargetInv, Underway

LEMMA StoreFollowed ==
  ASSUME TypeOK, SubsInv, StreamInv, NEW w \in Writers, Store(w)
  PROVE  StreamInv'
<1>1. /\ stored \in Nat /\ stored' = stored + 1 /\ wpc[w] = "idle"
      /\ mine'[w] = stored + 1 /\ wpc'[w] = "offer" /\ targets'[w] = subs
      /\ \A v \in Writers : v # w => mine'[v] = mine[v] /\ wpc'[v] = wpc[v] /\ targets'[v] = targets[v]
      /\ \A v \in Writers : mine[v] \in Nat
      /\ crossed' = crossed \cup {<<mine[v], stored + 1>> : v \in {v \in Writers : Busy(v)}}
      /\ UNCHANGED <<subs, chan, closed, fpc, pending, got, base, joined, dropped>>
  BY BoundAssumption DEF Store, TypeOK, followers, Busy
<1>2. TargetInv'
  <2> SUFFICES ASSUME NEW v \in Writers, NEW f \in targets'[v]
               PROVE  wpc'[v] # "idle" /\ (fpc[f] = "follow" \/ f \in closed)
    BY <1>1 DEF TargetInv
  <2>1. CASE v = w
    BY <1>1, <2>1 DEF SubsInv
  <2>2. CASE v # w
    BY <1>1, <2>2 DEF StreamInv, TargetInv
  <2> QED BY <2>1, <2>2
<1>3. OfferInv'
  <2> SUFFICES ASSUME NEW v \in Writers, wpc'[v] # "idle"
               PROVE  /\ mine'[v] \in 1..(stored + 1)
                      /\ \A u \in Writers : wpc'[u] # "idle" /\ u # v => mine'[u] # mine'[v]
                      /\ \A e \in (mine'[v] + 1)..(stored + 1) : <<mine'[v], e>> \in crossed'
    BY <1>1 DEF OfferInv, Busy
  <2>1. \A u \in Writers : Busy(u) => mine[u] \in 1..stored
    BY DEF StreamInv, OfferInv
  <2>2. CASE v = w
    <3>1. \A u \in Writers : wpc'[u] # "idle" /\ u # v => mine'[u] \in 1..stored
      BY <1>1, <2>1, <2>2 DEF Busy
    <3> QED BY <1>1, <2>2, <3>1
  <2>3. CASE v # w
    <3>1. Busy(v) /\ mine'[v] = mine[v]
      BY <1>1, <2>3 DEF Busy
    <3>2. mine[v] \in 1..stored /\ \A e \in (mine[v] + 1)..stored : <<mine[v], e>> \in crossed
      BY <3>1 DEF StreamInv, OfferInv
    <3>3. <<mine[v], stored + 1>> \in crossed'
      BY <1>1, <3>1
    <3>4. \A e \in (mine[v] + 1)..(stored + 1) : <<mine[v], e>> \in crossed'
      BY <1>1, <3>2, <3>3
    <3>5. \A u \in Writers : wpc'[u] # "idle" /\ u # v => mine'[u] # mine[v]
      BY <1>1, <3>1, <3>2 DEF StreamInv, OfferInv, Busy
    <3> QED BY <1>1, <3>1, <3>2, <3>4, <3>5
  <2> QED BY <2>2, <2>3
<1>4. ASSUME NEW f \in Followers PROVE Followed(f)'
  <2>1. Followed(f) /\ Stream(f)' = Stream(f)
    BY <1>1 DEF StreamInv, Stream
  <2>2. Underway(f)' = Underway(f) \cup (IF f \in subs THEN {stored + 1} ELSE {})
    <3>1. f \notin targets[w]
      BY <1>1 DEF StreamInv, TargetInv
    <3>2. Underway(f)' \subseteq Underway(f) \cup (IF f \in subs THEN {stored + 1} ELSE {})
      <4> SUFFICES ASSUME NEW v \in Writers, f \in targets'[v]
                   PROVE  mine'[v] \in Underway(f) \cup (IF f \in subs THEN {stored + 1} ELSE {})
        BY DEF Underway
      <4>1. CASE v = w
        BY <1>1, <4>1
      <4>2. CASE v # w
        BY <1>1, <4>2 DEF Underway
      <4> QED BY <4>1, <4>2
    <3>3. Underway(f) \subseteq Underway(f)'
      <4> SUFFICES ASSUME NEW v \in Writers, f \in targets[v] PROVE mine[v] \in Underway(f)'
        BY DEF Underway
      <4> QED BY <1>1, <3>1 DEF Underway
    <3>4. f \in subs => stored + 1 \in Underway(f)'
      BY <1>1 DEF Underway
    <3> QED BY <3>2, <3>3, <3>4
  <2>3. PhaseInv(f)'
    <3>1. Elems(Stream(f)) \subseteq 1..(stored + 1)
      BY <1>1, <2>1 DEF Followed, PhaseInv
    <3>2. fpc[f] = "follow" => joined[f] <= stored + 1
      BY <1>1, <2>1 DEF Followed, PhaseInv, TypeOK
    <3> QED BY <1>1, <2>1, <3>1, <3>2 DEF Followed, PhaseInv
  <2>4. Once(f)'
    <3>1. stored + 1 \notin Elems(Stream(f))
      BY <1>1, <2>1 DEF Followed, PhaseInv
    <3> QED BY <2>1, <2>2, <3>1 DEF Followed, Once
  <2>5. Missed(f)'
    <3> SUFFICES ASSUME fpc[f] = "follow"
                 PROVE  Elems(Stream(f)) \cup dropped[f] \cup Underway(f)'
                          = base[f] \cup (joined[f] + 1)..(stored + 1)
      BY <1>1, <2>1 DEF Missed
    <3>1. f \in subs /\ joined[f] <= stored /\ joined[f] \in Nat
      BY <2>1 DEF Followed, PhaseInv, TypeOK
    <3>2. (joined[f] + 1)..(stored + 1) = (joined[f] + 1)..stored \cup {stored + 1}
      BY <1>1, <3>1
    <3> QED BY <2>1, <2>2, <3>1, <3>2 DEF Followed, Missed
  <2>6. InOrder(f)'
    BY <1>1, <2>1 DEF Followed, InOrder
  <2> QED BY <2>3, <2>4, <2>5, <2>6 DEF Followed
<1> QED BY <1>2, <1>3, <1>4 DEF StreamInv

LEMMA FileFollowed ==
  ASSUME TypeOK, StreamInv, NEW w \in Writers, File(w)
  PROVE  StreamInv'
<1>1. /\ targets[w] = {} /\ wpc'[w] = "idle"
      /\ \A v \in Writers : v # w => mine'[v] = mine[v] /\ wpc'[v] = wpc[v]
      /\ UNCHANGED <<subs, chan, closed, targets, fpc, pending, got, base, joined, dropped, stored, crossed>>
  BY DEF File, TypeOK, followers, history
<1>2. TargetInv'
  BY <1>1 DEF StreamInv, TargetInv
<1>3. OfferInv'
  BY <1>1 DEF StreamInv, OfferInv, Busy
<1>4. ASSUME NEW f \in Followers PROVE Followed(f)'
  <2>1. \A v \in Writers : f \in targets[v] => mine'[v] = mine[v]
    BY <1>1
  <2>2. Underway(f)' = Underway(f)
    BY <1>1, <2>1 DEF Underway
  <2> QED BY <1>1, <2>2, Untouched DEF StreamInv
<1> QED BY <1>2, <1>3, <1>4 DEF StreamInv

LEMMA PanicFollowed ==
  ASSUME TypeOK, StreamInv, NEW w \in Writers, NEW g \in Followers, OfferClosed(w, g)
  PROVE  StreamInv'
<1>1. /\ \A v \in Writers : wpc'[v] = "idle" <=> wpc[v] = "idle"
      /\ UNCHANGED <<subs, chan, closed, mine, targets, fpc, pending, got, base, joined, dropped, stored, crossed>>
  BY DEF OfferClosed, TypeOK, followers, history
<1>2. TargetInv' /\ OfferInv'
  BY <1>1 DEF StreamInv, TargetInv, OfferInv, Busy
<1>3. ASSUME NEW f \in Followers PROVE Followed(f)'
  <2>1. Underway(f)' = Underway(f)
    BY <1>1 DEF Underway
  <2> QED BY <1>1, <2>1, Untouched DEF StreamInv
<1> QED BY <1>2, <1>3 DEF StreamInv
(* What an offer leaves under way. *)
LEMMA OfferedOnce ==
  ASSUME TypeOK, SubsInv, StreamInv, NEW w \in Writers, NEW f \in Followers, Offered(w, f)
  PROVE  /\ TargetInv' /\ OfferInv'
         /\ fpc[f] = "follow" /\ mine[w] \in Underway(f) /\ mine[w] \in 1..stored /\ Busy(w)
         /\ Underway(f) = Underway(f)' \cup {mine[w]} /\ mine[w] \notin Underway(f)'
         /\ \A g \in Followers : g # f => Underway(g)' = Underway(g)
<1>1. /\ wpc[w] = "offer" /\ f \in targets[w] /\ f \notin closed
      /\ targets'[w] = targets[w] \ {f}
      /\ \A v \in Writers : v # w => targets'[v] = targets[v]
      /\ UNCHANGED <<subs, closed, wpc, mine, fpc, stored, crossed>>
  BY DEF Offered, Copied, TypeOK, followers, history
<1>2. TargetInv' /\ OfferInv'
  BY <1>1 DEF StreamInv, TargetInv, OfferInv, Busy
<1>3. fpc[f] = "follow" /\ mine[w] \in Underway(f) /\ mine[w] \in 1..stored /\ Busy(w)
  BY <1>1 DEF StreamInv, TargetInv, OfferInv, Busy, Underway
<1>4. \A v \in Writers : f \in targets[v] /\ v # w => mine[v] # mine[w]
  BY <1>1, <1>3 DEF StreamInv, TargetInv, OfferInv, Busy
<1>5. Underway(f) = Underway(f)' \cup {mine[w]} /\ mine[w] \notin Underway(f)'
  BY <1>1, <1>4 DEF Underway
<1>6. \A g \in Followers : g # f => Underway(g)' = Underway(g)
  BY <1>1 DEF Underway
<1> QED BY <1>2, <1>3, <1>5, <1>6

LEMMA DropFollowed ==
  ASSUME TypeOK, SubsInv, StreamInv, NEW w \in Writers, NEW f \in Followers, Drop(w, f)
  PROVE  StreamInv'
<1>1. /\ Offered(w, f) /\ dropped'[f] = dropped[f] \cup {mine[w]}
      /\ \A g \in Followers : g # f => dropped'[g] = dropped[g]
      /\ UNCHANGED <<subs, chan, fpc, pending, got, base, joined, stored, crossed>>
  BY DEF Drop, Offered, TypeOK, followers, history
<1>2. TargetInv' /\ OfferInv'
  BY <1>1, OfferedOnce
<1>3. ASSUME NEW g \in Followers, g # f PROVE Followed(g)'
  <2>1. Underway(g)' = Underway(g)
    BY <1>1, <1>3, OfferedOnce
  <2> QED BY <1>1, <1>3, <2>1, Untouched DEF StreamInv
<1>4. Followed(f)'
  <2>1. /\ Followed(f) /\ Stream(f)' = Stream(f) /\ fpc[f] = "follow"
        /\ Underway(f) = Underway(f)' \cup {mine[w]}
    BY <1>1, OfferedOnce DEF StreamInv, Stream
  <2>2. PhaseInv(f)'
    BY <1>1, <2>1 DEF Followed, PhaseInv
  <2>3. Once(f)' /\ InOrder(f)'
    BY <1>1, <2>1 DEF Followed, Once, InOrder
  <2>4. Missed(f)'
    BY <1>1, <2>1 DEF Followed, Missed
  <2> QED BY <2>2, <2>3, <2>4 DEF Followed
<1> QED BY <1>2, <1>3, <1>4 DEF StreamInv

LEMMA SendFollowed ==
  ASSUME TypeOK, SubsInv, StreamInv, NEW w \in Writers, NEW f \in Followers, Send(w, f)
  PROVE  StreamInv'
<1> DEFINE x == mine[w]
<1>1. /\ Offered(w, f) /\ chan'[f] = Append(chan[f], x)
      /\ \A g \in Followers : g # f => chan'[g] = chan[g]
      /\ UNCHANGED <<subs, dropped, fpc, pending, got, base, joined, stored, crossed>>
  BY DEF Send, Offered, TypeOK, followers, history
<1>2. TargetInv' /\ OfferInv'
  BY <1>1, OfferedOnce
<1>3. ASSUME NEW g \in Followers, g # f PROVE Followed(g)'
  <2>1. Underway(g)' = Underway(g)
    BY <1>1, <1>3, OfferedOnce
  <2> QED BY <1>1, <1>3, <2>1, Untouched DEF StreamInv
<1>4. Followed(f)'
  <2>1. /\ Followed(f) /\ fpc[f] = "follow" /\ x \in Underway(f) /\ x \in 1..stored /\ Busy(w)
        /\ Underway(f) = Underway(f)' \cup {x} /\ x \notin Underway(f)'
    BY <1>1, OfferedOnce DEF StreamInv
  <2> DEFINE s == Stream(f)
             n == Len(Stream(f))
  <2>2. x \in Entries /\ s \in Seq(Entries) /\ n \in Nat
    <3>1. s \in Seq(Entries) /\ n \in Nat
      BY StreamTyped
    <3>2. x \in Entries
      BY <2>1 DEF TypeOK, Entries
    <3> QED BY <3>1, <3>2
  <2>3. Stream(f)' = Append(s, x)
    <3>1. /\ got[f] \in Seq(Entries) /\ pending[f] \in Seq(Entries) /\ chan[f] \in Seq(Entries)
          /\ s = got[f] \o (pending[f] \o chan[f])
      BY StreamTyped
    <3>2. Stream(f)' = (got[f] \o pending[f]) \o (chan[f] \o <<x>>)
      BY <1>1, <2>2, <3>1, AppendIsConcat DEF Stream
    <3>3. \A a, b, c \in Seq(Entries) : (a \o b) \o c = a \o (b \o c)
      BY ConcatAssociative
    <3>4. <<x>> \in Seq(Entries) /\ got[f] \o pending[f] \in Seq(Entries)
      BY <2>2, <3>1, ConcatProperties
    <3>5. (got[f] \o pending[f]) \o (chan[f] \o <<x>>) = ((got[f] \o pending[f]) \o chan[f]) \o <<x>>
      BY <3>1, <3>3, <3>4, Zenon
    <3>6. (got[f] \o pending[f]) \o chan[f] = s
      BY DEF Stream
    <3> QED BY <2>2, <3>2, <3>5, <3>6, AppendIsConcat
  <2>4. /\ Len(Stream(f)') = n + 1 /\ Stream(f)'[n + 1] = x
        /\ \A i \in 1..n : Stream(f)'[i] = s[i]
    BY <2>2, <2>3, AppendProperties
  <2> HIDE DEF s, n, x
  <2>5. Elems(s) = {s[i] : i \in 1..n} /\ Elems(Stream(f)') = Elems(s) \cup {x}
    <3>1. Elems(s) = {s[i] : i \in 1..n}
      BY DEF s, n, Elems
    <3>2. Elems(Stream(f)') = {Stream(f)'[i] : i \in 1..(n + 1)}
      BY <2>4 DEF Elems
    <3>3. \A i \in 1..(n + 1) : i \in 1..n \/ i = n + 1
      BY <2>2
    <3>4. n + 1 \in 1..(n + 1) /\ 1..n \subseteq 1..(n + 1)
      BY <2>2
    <3> QED BY <2>4, <3>1, <3>2, <3>3, <3>4
  <2>6. x \notin Elems(s) /\ Elems(s) \subseteq 1..stored /\ stored \in Nat
    BY <2>1, BoundAssumption DEF Followed, PhaseInv, Once, TypeOK, s
  <2>7. PhaseInv(f)'
    <3>1. Elems(Stream(f)') \subseteq 1..stored
      BY <2>1, <2>5, <2>6
    <3>2. Elems(Stream(f))' = Elems(Stream(f)')
      BY DEF Elems
    <3> QED BY <1>1, <2>1, <3>1, <3>2 DEF Followed, PhaseInv
  <2>8. Once(f)'
    <3>1. ASSUME NEW i \in 1..(n + 1), NEW j \in 1..(n + 1), i # j
          PROVE  Stream(f)'[i] # Stream(f)'[j]
      <4>1. \A k, l \in 1..n : k # l => s[k] # s[l]
        BY <2>1 DEF Followed, Once, s, n
      <4>2. \A k \in 1..n : s[k] # x
        BY <2>5, <2>6
      <4>3. (i \in 1..n \/ i = n + 1) /\ (j \in 1..n \/ j = n + 1)
        BY <2>2
      <4> QED BY <2>4, <3>1, <4>1, <4>2, <4>3
    <3>2. Elems(Stream(f)') \cap Underway(f)' = {}
      <4>1. Elems(s) \cap Underway(f) = {}
        BY <2>1 DEF Followed, Once, s
      <4> QED BY <2>1, <2>5, <4>1
    <3> QED BY <2>4, <3>1, <3>2 DEF Once, Elems
  <2>9. Missed(f)'
    <3>1. Elems(s) \cup dropped[f] \cup Underway(f) = base[f] \cup (joined[f] + 1)..stored
      BY <2>1 DEF Followed, Missed, s
    <3>2. Elems(Stream(f)') \cup dropped[f] \cup Underway(f)' = base[f] \cup (joined[f] + 1)..stored
      BY <2>1, <2>5, <3>1
    <3> QED BY <1>1, <3>2 DEF Missed, Elems
  <2>10. InOrder(f)'
    <3> SUFFICES ASSUME NEW i \in 1..(n + 1), NEW j \in 1..(n + 1), i < j,
                        Stream(f)'[i] > Stream(f)'[j]
                 PROVE  <<Stream(f)'[j], Stream(f)'[i]>> \in crossed
      BY <1>1, <2>4 DEF InOrder
    <3>1. i \in 1..n /\ (j \in 1..n \/ j = n + 1)
      BY <2>2
    <3>2. CASE j \in 1..n
      BY <2>1, <2>4, <3>1, <3>2 DEF Followed, InOrder, s, n
    <3>3. CASE j = n + 1
      <4>1. Stream(f)'[i] = s[i] /\ Stream(f)'[j] = x /\ s[i] \in 1..stored
        BY <2>4, <2>5, <2>6, <3>1, <3>3
      <4>2. s[i] \in (x + 1)..stored
        BY <2>1, <2>6, <4>1
      <4>3. \A e \in (x + 1)..stored : <<x, e>> \in crossed
        BY <2>1 DEF StreamInv, OfferInv, x
      <4> QED BY <4>1, <4>2, <4>3
    <3> QED BY <3>1, <3>2, <3>3
  <2> QED BY <2>7, <2>8, <2>9, <2>10 DEF Followed
<1> QED BY <1>2, <1>3, <1>4 DEF StreamInv
(* A step of one stream, which leaves the others and the writers alone. *)
LEMMA OneStream ==
  ASSUME StreamInv, NEW f \in Followers, Followed(f)',
         UNCHANGED <<wpc, mine, targets, stored, crossed>>,
         fpc'[f] # "follow" => f \in closed' \/ \A w \in Writers : f \notin targets[w],
         closed \subseteq closed',
         \A g \in Followers : g # f =>
           /\ fpc'[g] = fpc[g] /\ got'[g] = got[g] /\ pending'[g] = pending[g] /\ chan'[g] = chan[g]
           /\ dropped'[g] = dropped[g] /\ base'[g] = base[g] /\ joined'[g] = joined[g]
           /\ g \in subs => g \in subs',
         \A w \in Writers : targets[w] \subseteq Followers
  PROVE  StreamInv'
<1>1. TargetInv' /\ OfferInv'
  BY DEF StreamInv, TargetInv, OfferInv, Busy
<1>2. ASSUME NEW g \in Followers, g # f PROVE Followed(g)'
  <2>1. Underway(g)' = Underway(g)
    BY DEF Underway
  <2> QED BY <1>2, <2>1, Untouched DEF StreamInv
<1> QED BY <1>1, <1>2 DEF StreamInv

(* A stream whose entries move on within it. *)
LEMMA MovingKeeps ==
  ASSUME TypeOK, NEW f \in Followers, Followed(f), Stream(f)' = Stream(f),
         fpc[f] \in {"replay", "follow"}, fpc[f] = "follow" \/ chan'[f] = chan[f],
         fpc'[f] = fpc[f], dropped'[f] = dropped[f], base'[f] = base[f], joined'[f] = joined[f],
         UNCHANGED <<subs, mine, targets, stored, crossed>>
  PROVE  Followed(f)'
<1>1. Underway(f)' = Underway(f)
  BY DEF Underway
<1>2. PhaseInv(f)'
  BY DEF Followed, PhaseInv
<1>3. Once(f)' /\ Missed(f)' /\ InOrder(f)'
  BY <1>1 DEF Followed, Once, Missed, InOrder
<1> QED BY <1>2, <1>3 DEF Followed

LEMMA DeliverFollowed ==
  ASSUME TypeOK, StreamInv, NEW f \in Followers, Deliver(f)
  PROVE  StreamInv'
<1>1. /\ fpc[f] \in {"replay", "follow"} /\ pending[f] # <<>>
      /\ got'[f] = Append(got[f], Head(pending[f])) /\ pending'[f] = Tail(pending[f])
      /\ \A g \in Followers : g # f => got'[g] = got[g] /\ pending'[g] = pending[g]
      /\ UNCHANGED <<subs, chan, closed, wpc, mine, targets, fpc, dropped, base, joined, stored, crossed>>
  BY DEF Deliver, TypeOK, writers, history
<1>2. Stream(f)' = Stream(f)
  <2>1. got[f] \in Seq(Entries) /\ pending[f] \in Seq(Entries)
    BY StreamTyped
  <2>2. Append(got[f], Head(pending[f])) \o Tail(pending[f]) = got[f] \o pending[f]
    BY <1>1, <2>1, MovesOn
  <2>3. Stream(f)' = (Append(got[f], Head(pending[f])) \o Tail(pending[f])) \o chan[f]
    BY <1>1 DEF Stream
  <2> QED BY <2>2, <2>3 DEF Stream
<1>3. Followed(f)'
  BY <1>1, <1>2, MovingKeeps DEF StreamInv
<1> QED BY <1>1, <1>3, OneStream DEF StreamInv, TargetInv, TypeOK

LEMMA ReceiveFollowed ==
  ASSUME TypeOK, StreamInv, NEW f \in Followers, Receive(f)
  PROVE  StreamInv'
<1>1. /\ fpc[f] = "follow" /\ pending[f] = <<>> /\ chan[f] # <<>>
      /\ pending'[f] = <<Head(chan[f])>> /\ chan'[f] = Tail(chan[f])
      /\ \A g \in Followers : g # f => pending'[g] = pending[g] /\ chan'[g] = chan[g]
      /\ UNCHANGED <<subs, got, closed, wpc, mine, targets, fpc, dropped, base, joined, stored, crossed>>
  BY DEF Receive, TypeOK, writers, history
<1>2. Stream(f)' = Stream(f)
  <2>1. /\ got[f] \in Seq(Entries) /\ chan[f] \in Seq(Entries)
        /\ Head(chan[f]) \in Entries /\ Tail(chan[f]) \in Seq(Entries)
    BY <1>1, StreamTyped, HeadTailProperties
  <2>2. Append(got[f], Head(chan[f])) \o Tail(chan[f]) = got[f] \o chan[f]
    BY <1>1, <2>1, MovesOn
  <2>3. Append(got[f], Head(chan[f])) = got[f] \o <<Head(chan[f])>>
    BY <2>1, AppendIsConcat
  <2>4. Stream(f)' = (got[f] \o <<Head(chan[f])>>) \o Tail(chan[f])
    BY <1>1 DEF Stream
  <2>5. Stream(f) = got[f] \o chan[f]
    <3>1. got[f] \o <<>> = got[f]
      BY <2>1, ConcatEmptySeq
    <3> QED BY <1>1, <3>1 DEF Stream
  <2> QED BY <2>2, <2>3, <2>4, <2>5
<1>3. Followed(f)'
  BY <1>1, <1>2, MovingKeeps DEF StreamInv
<1> QED BY <1>1, <1>3, OneStream DEF StreamInv, TargetInv, TypeOK

LEMMA SubscribeFollowed ==
  ASSUME TypeOK, SubsInv, StreamInv, NEW f \in Followers, Subscribe(f)
  PROVE  StreamInv'
<1>1. /\ fpc[f] = "replay" /\ fpc'[f] = "follow" /\ f \in subs' /\ subs \subseteq subs'
      /\ joined'[f] = stored /\ stored \in Nat
      /\ \A g \in Followers : g # f => fpc'[g] = fpc[g] /\ joined'[g] = joined[g]
      /\ UNCHANGED <<chan, got, pending, closed, wpc, mine, targets, dropped, base, stored, crossed>>
  BY BoundAssumption DEF Subscribe, TypeOK, writers
<1>2. Underway(f) = {} /\ Underway(f)' = Underway(f) /\ Stream(f)' = Stream(f)
  BY <1>1, NotOffered DEF StreamInv, Underway, Stream
<1>3. Followed(f) /\ dropped[f] = {} /\ Elems(Stream(f)) = base[f]
  BY <1>1 DEF StreamInv, Followed, PhaseInv
<1>4. PhaseInv(f)'
  BY <1>1, <1>2, <1>3 DEF Followed, PhaseInv
<1>5. Once(f)' /\ InOrder(f)'
  BY <1>1, <1>2, <1>3 DEF Followed, Once, InOrder
<1>6. Missed(f)'
  <2>1. (stored + 1)..stored = {}
    BY <1>1
  <2> QED BY <1>1, <1>2, <1>3, <2>1 DEF Missed
<1>7. Followed(f)'
  BY <1>4, <1>5, <1>6 DEF Followed
<1> QED BY <1>1, <1>7, OneStream DEF StreamInv, TargetInv, TypeOK

(* A stream that is over holds nothing. *)
LEMMA ReturnFollowed ==
  ASSUME TypeOK, SubsInv, StreamInv, NEW f \in Followers, End(f) \/ Cancel(f)
  PROVE  StreamInv'
<1>1. /\ fpc'[f] = "done" /\ got'[f] = <<>> /\ pending'[f] = <<>> /\ chan'[f] = <<>>
      /\ fpc[f] = "follow" => f \in closed'
      /\ fpc[f] \in {"replay", "follow"} /\ closed \subseteq closed'
      /\ \A g \in Followers : g # f =>
           /\ fpc'[g] = fpc[g] /\ got'[g] = got[g] /\ pending'[g] = pending[g] /\ chan'[g] = chan[g]
           /\ dropped'[g] = dropped[g] /\ base'[g] = base[g] /\ joined'[g] = joined[g]
           /\ g \in subs => g \in subs'
      /\ UNCHANGED <<wpc, mine, targets, stored, crossed>>
  BY DEF End, Cancel, Return, Unsubscribed, TypeOK, writers
<1>2. Stream(f)' = <<>> /\ Elems(Stream(f))' = {} /\ Len(Stream(f))' = 0
  <2>1. (<<>> \o <<>>) \o <<>> = <<>>
    OBVIOUS
  <2>2. Stream(f)' = <<>>
    BY <1>1, <2>1 DEF Stream
  <2> QED BY <2>2 DEF Elems
<1>3. PhaseInv(f)' /\ Once(f)' /\ Missed(f)' /\ InOrder(f)'
  BY <1>1, <1>2 DEF PhaseInv, Once, Missed, InOrder
<1>4. f \in closed' \/ \A w \in Writers : f \notin targets[w]
  BY <1>1, NotOffered DEF StreamInv
<1> QED BY <1>1, <1>3, <1>4, OneStream DEF Followed, TypeOK

(* A stream begins with a snapshot, which is in order. *)
LEMMA OpenFollowed ==
  ASSUME TypeOK, RingInv, SubsInv, StreamInv, NEW f \in Followers, NEW n \in Tails,
         NEW following \in BOOLEAN, Open(f, n, following)
  PROVE  StreamInv'
<1> DEFINE replay == IF n > 0 THEN Snapshot(n) ELSE <<>>
<1>1. /\ fpc[f] = "idle" /\ fpc'[f] = "replay" /\ pending'[f] = replay /\ base'[f] = Elems(replay)
      /\ \A g \in Followers : g # f => fpc'[g] = fpc[g] /\ pending'[g] = pending[g] /\ base'[g] = base[g]
      /\ UNCHANGED <<subs, chan, got, closed, wpc, mine, targets, joined, dropped, stored, crossed>>
  BY DEF Open, TypeOK, writers
<1>2. replay \in Seq(Entries)
  <2>1. n \in Nat /\ Snapshot(n) \in Seq(Entries)
    BY SnapshotType, BoundAssumption DEF TypeOK
  <2>2. <<>> \in Seq(Entries)
    OBVIOUS
  <2> QED BY <2>1, <2>2, Zenon
<1>3. \A i \in 1..Len(replay) : replay[i] = stored - Len(replay) + i
  <2>1. CASE n > 0
    <3>1. n \in Nat /\ Asked(n) \in 0..Held /\ Held \in Nat
      BY <2>1, SizeAssumption, BoundAssumption DEF Asked, Held, RingInv, Slots
    <3>2. replay = Snapshot(n) /\ Len(Snapshot(n)) = Asked(n)
      BY <2>1, <3>1 DEF Snapshot
    <3>3. \A i \in 1..Asked(n) : Snapshot(n)[i] = stored - Asked(n) + i
      <4> SUFFICES ASSUME NEW i \in 1..Asked(n) PROVE Snapshot(n)[i] = stored - Asked(n) + i
        OBVIOUS
      <4>1. Asked(n) \in 1..Held
        BY <3>1
      <4>2. entries[(Start(Asked(n)) + i - 1) % Size] = stored - Asked(n) + i
        BY <4>1, SnapshotOf
      <4> QED BY <4>2 DEF Snapshot
    <3> QED BY <3>2, <3>3
  <2>2. CASE ~(n > 0)
    BY <2>2
  <2> QED BY <2>1, <2>2
<1> HIDE DEF replay
<1>4. Len(replay) \in Nat /\ stored \in Nat /\ \A i \in 1..Len(replay) : replay[i] \in 1..MaxEntries
  BY <1>2, BoundAssumption, ElementOfSeq DEF Entries, TypeOK
<1>5. Stream(f)' = replay /\ got[f] = <<>> /\ chan[f] = <<>> /\ dropped[f] = {}
  <2>1. got[f] = <<>> /\ chan[f] = <<>> /\ dropped[f] = {}
    BY <1>1 DEF StreamInv, Followed, PhaseInv
  <2>2. (<<>> \o replay) \o <<>> = replay
    BY <1>2, ConcatEmptySeq
  <2> QED BY <1>1, <2>1, <2>2 DEF Stream
<1>6. Underway(f)' = {} /\ \A w \in Writers : f \notin targets[w]
  <2>1. Underway(f) = {} /\ \A w \in Writers : f \notin targets[w]
    BY <1>1, NotOffered DEF StreamInv
  <2> QED BY <1>1, <2>1 DEF Underway
<1>7. Elems(Stream(f))' = Elems(replay) /\ Len(Stream(f))' = Len(replay)
  BY <1>5 DEF Elems
<1>8. Elems(replay) \subseteq 1..stored
  BY <1>3, <1>4 DEF Elems
<1>9. PhaseInv(f)'
  BY <1>1, <1>5, <1>7, <1>8 DEF PhaseInv
<1>10. Once(f)' /\ Missed(f)'
  BY <1>1, <1>3, <1>4, <1>5, <1>6 DEF Once, Missed
<1>11. InOrder(f)'
  BY <1>3, <1>4, <1>5 DEF InOrder
<1>12. Followed(f)'
  BY <1>9, <1>10, <1>11 DEF Followed
<1> QED BY <1>1, <1>6, <1>12, OneStream DEF TypeOK

LEMMA StreamInitially == Init => StreamInv
<1> SUFFICES ASSUME Init PROVE StreamInv
  OBVIOUS
<1>1. TargetInv /\ OfferInv
  BY DEF Init, TargetInv, OfferInv, Busy
<1>2. ASSUME NEW f \in Followers PROVE Followed(f)
  <2>1. Stream(f) = <<>> /\ Len(Stream(f)) = 0 /\ Elems(Stream(f)) = {}
    <3>1. (<<>> \o <<>>) \o <<>> = <<>>
      OBVIOUS
    <3>2. Stream(f) = <<>>
      BY <3>1 DEF Init, Stream
    <3> QED BY <3>2 DEF Elems
  <2>2. fpc[f] = "idle" /\ got[f] = <<>> /\ pending[f] = <<>> /\ chan[f] = <<>> /\ dropped[f] = {}
    BY DEF Init
  <2> QED BY <2>1, <2>2 DEF Followed, PhaseInv, Once, Missed, InOrder
<1> QED BY <1>1, <1>2 DEF StreamInv

LEMMA StreamKeeps ==
  TypeOK /\ RingInv /\ SubsInv /\ StreamInv /\ [Next]_vars => StreamInv'
<1> SUFFICES ASSUME TypeOK, RingInv, SubsInv, StreamInv, [Next]_vars PROVE StreamInv'
  OBVIOUS
<1>1. CASE UNCHANGED vars
  <2>1. UNCHANGED <<subs, chan, closed, wpc, mine, targets, fpc, pending, got, base, joined,
                    dropped, stored, crossed>>
    BY <1>1 DEF vars, writers, followers, history
  <2>2. TargetInv' /\ OfferInv'
    BY <2>1 DEF StreamInv, TargetInv, OfferInv, Busy
  <2>3. ASSUME NEW f \in Followers PROVE Followed(f)'
    <3>1. Underway(f)' = Underway(f)
      BY <2>1 DEF Underway
    <3> QED BY <2>1, <3>1, Untouched DEF StreamInv
  <2> QED BY <2>2, <2>3 DEF StreamInv
<1> QED
  BY <1>1, NextCases, StoreFollowed, FileFollowed, SendFollowed, DropFollowed, PanicFollowed,
     OpenFollowed, DeliverFollowed, ReturnFollowed, SubscribeFollowed, ReceiveFollowed

(* Whatever the size of the ring, the capacity of the channels and the      *)
(* number of writers and streams: a stream of the self provider repeats     *)
(* nothing, misses only what is told of, and shows two entries in the wrong *)
(* order only if they crossed (logbuffer's Write, self provider's Stream).  *)
THEOREM StreamsFollowFaithfully == Spec => []FollowedFaithfully
<1>1. StreamInv => FollowedFaithfully
  BY DEF StreamInv, Followed, Once, Missed, InOrder, FollowedFaithfully, NoEntryTwice,
         NothingElseMissed, OrderedUnlessCrossed
<1> QED
  BY <1>1, StreamInitially, StreamKeeps, TypeCorrect, RingAlways, SubsAlways, PTL DEF Spec

-----------------------------------------------------------------------------
(* The temporary copies of compressed files.                              *)

(* The sweep comes in time, and before a registered copy is overdue. *)
SweepInv ==
  ~stopped =>
    /\ now <= nextSweep /\ nextSweep <= now + Period
    /\ \A s \in Sources : path[s] # None => nextSweep <= asked[s] + TTL + Period

(* Whose copy a copy is: a registered one is of the source it is registered
   for, and one in the hands of a request is nobody else's yet. *)
OwnInv ==
  /\ \A s \in Sources : path[s] # None => made[path[s]] = s
  /\ \A r \in Requests : InHand(r) =>
       /\ copy[r] \in disk /\ made[copy[r]] = source[r]
       /\ \A s \in Sources : path[s] # copy[r]
       /\ \A q \in Requests : q # r => copy[q] # copy[r]
  /\ \A r \in Requests : copy[r] # None => made[copy[r]] # None
  /\ disk \subseteq {f \in Copies : made[f] # None}

(* A request that reads a copy was given one, which is registered, if at all,
   with an age that is no greater than the request's. *)
ReadInv ==
  \A r \in Requests :
    /\ pc[r] = "reading" => copy[r] # None
    /\ pc[r] \in {"idle", "creating"} => copy[r] = None
    /\ took[r] <= now
    /\ pc[r] = "reading" =>
         \A s \in Sources : path[s] = copy[r] => took[r] <= asked[s]
    /\ pc[r] = "reading" /\ ~stopped =>
         copy[r] \in disk \/ now - took[r] > TTL

(* Who decompresses a source that another request decompresses, or that has
   got a copy meanwhile, has raced. *)
RaceInv ==
  /\ \A r, q \in Requests :
       r # q /\ pc[r] \in {"creating", "storing"} /\ pc[q] \in {"creating", "storing"}
         /\ source[r] = source[q] => source[r] \in raced
  /\ \A r \in Requests :
       pc[r] \in {"creating", "storing"} /\ path[source[r]] \in disk => source[r] \in raced

IInv == TempTypeOK /\ SweepInv /\ OwnInv /\ ReadInv /\ RaceInv /\ LostOnlyByRace

-----------------------------------------------------------------------------
LEMMA Initially == TempInit => IInv
<1> SUFFICES ASSUME TempInit PROVE IInv
  OBVIOUS
<1> USE TempAssumption DEF TempInit
<1>1. TempTypeOK
  <2>1. 0 \in 0..Horizon /\ now \in 0..Horizon /\ nextSweep \in Nat
    OBVIOUS
  <2>2. /\ path \in [Sources -> Copies \cup {None}] /\ made \in [Copies -> Sources \cup {None}]
        /\ copy \in [Requests -> Copies \cup {None}] /\ source \in [Requests -> Sources]
        /\ pc \in [Requests -> {"idle", "creating", "storing", "reading"}]
        /\ disk \subseteq Copies /\ raced \subseteq Sources
    OBVIOUS
  <2>3. asked \in [Sources -> 0..Horizon] /\ took \in [Requests -> 0..Horizon]
    BY <2>1
  <2>4. stopped \in BOOLEAN
    OBVIOUS
  <2> QED BY <2>1, <2>2, <2>3, <2>4 DEF TempTypeOK
<1>2. SweepInv BY DEF SweepInv
<1>3. OwnInv BY DEF OwnInv, InHand
<1>4. ReadInv BY DEF ReadInv
<1>5. RaceInv BY DEF RaceInv
<1>6. LostOnlyByRace BY DEF LostOnlyByRace
<1> QED BY <1>1, <1>2, <1>3, <1>4, <1>5, <1>6 DEF IInv

-----------------------------------------------------------------------------
(* Types. *)
LEMMA Types == TempTypeOK /\ [TempNext]_tempVars => TempTypeOK'
<1> SUFFICES ASSUME TempTypeOK, [TempNext]_tempVars PROVE TempTypeOK'
  OBVIOUS
<1> USE TempAssumption DEF TempTypeOK, Goto, manager, request
<1>1. ASSUME NEW r \in Requests, Hit(r) PROVE TempTypeOK'
  <2>1. path[source[r]] \in Copies
    BY <1>1 DEF Hit
  <2> QED BY <1>1, <2>1 DEF Hit, Renewed
<1>2. ASSUME NEW r \in Requests, Miss(r) PROVE TempTypeOK'
  BY <1>2 DEF Miss
<1>3. ASSUME NEW r \in Requests, NEW f \in Copies, Create(r, f) PROVE TempTypeOK'
  BY <1>3 DEF Create
<1>4. ASSUME NEW r \in Requests, CreateFails(r) PROVE TempTypeOK'
  BY <1>4 DEF CreateFails
<1>5. ASSUME NEW r \in Requests, Register(r) PROVE TempTypeOK'
  BY <1>5 DEF Register, Stored
<1>6. ASSUME NEW r \in Requests, Finish(r) PROVE TempTypeOK'
  BY <1>6 DEF Finish
<1>7. CASE Sweep
  BY <1>7 DEF Sweep
<1>8. CASE CleanupAll
  BY <1>8 DEF CleanupAll
<1>9. CASE Tick
  BY <1>9 DEF Tick
<1>10. CASE UNCHANGED tempVars
  BY <1>10 DEF tempVars
<1> QED BY <1>1, <1>2, <1>3, <1>4, <1>5, <1>6, <1>7, <1>8, <1>9, <1>10 DEF TempNext

-----------------------------------------------------------------------------
(* One lemma per action, one step per part of the invariant. *)
LEMMA HitKeeps ==
  ASSUME IInv, NEW r \in Requests, Hit(r)
  PROVE  SweepInv' /\ OwnInv' /\ ReadInv' /\ RaceInv' /\ LostOnlyByRace'
<1> DEFINE f == path[source[r]]
<1> USE TempAssumption DEF IInv, TempTypeOK
<1>1. /\ pc[r] = "idle" /\ f \in disk /\ f \in Copies /\ f # None /\ source[r] \in Sources
      /\ asked' = [asked EXCEPT ![source[r]] = now] /\ copy' = [copy EXCEPT ![r] = f]
      /\ took' = [took EXCEPT ![r] = now] /\ pc' = [pc EXCEPT ![r] = "reading"]
      /\ UNCHANGED <<now, nextSweep, stopped, path, disk, source, made, raced>>
  BY DEF Hit, Renewed, Goto
<1>2. SweepInv'
  BY <1>1 DEF SweepInv
<1>3. OwnInv'
  BY <1>1 DEF OwnInv, InHand
<1>4. ReadInv'
  <2>1. \A s \in Sources : path[s] = f => s = source[r]
    BY <1>1 DEF OwnInv
  <2> QED BY <1>1, <2>1 DEF ReadInv
<1>5. RaceInv'
  BY <1>1 DEF RaceInv
<1>6. LostOnlyByRace'
  BY <1>1 DEF LostOnlyByRace, InHand, Tracked
<1> QED BY <1>2, <1>3, <1>4, <1>5, <1>6

LEMMA MissKeeps ==
  ASSUME IInv, NEW r \in Requests, Miss(r)
  PROVE  SweepInv' /\ OwnInv' /\ ReadInv' /\ RaceInv' /\ LostOnlyByRace'
<1> USE TempAssumption DEF IInv, TempTypeOK
<1>1. /\ pc[r] = "idle" /\ path[source[r]] \notin disk /\ source[r] \in Sources
      /\ path' = [path EXCEPT ![source[r]] = None]
      /\ raced' = IF \E q \in Requests : pc[q] \in {"creating", "storing"} /\ source[q] = source[r]
                  THEN raced \cup {source[r]} ELSE raced
      /\ pc' = [pc EXCEPT ![r] = "creating"]
      /\ UNCHANGED <<now, nextSweep, stopped, asked, disk, source, copy, made, took>>
  BY DEF Miss, Goto
<1>2. SweepInv'
  BY <1>1 DEF SweepInv
<1>3. OwnInv'
  BY <1>1 DEF OwnInv, InHand
<1>4. ReadInv'
  BY <1>1 DEF ReadInv
<1>5. RaceInv'
  BY <1>1 DEF RaceInv
<1>6. LostOnlyByRace'
  <2> SUFFICES ASSUME NEW f \in disk, f \notin Tracked'
               PROVE  made[f] \in raced' \/ \E q \in Requests : InHand(q)' /\ copy[q] = f
    BY <1>1 DEF LostOnlyByRace
  <2>1. f \notin Tracked
    BY <1>1 DEF Tracked
  <2> QED BY <1>1, <2>1 DEF LostOnlyByRace, InHand
<1> QED BY <1>2, <1>3, <1>4, <1>5, <1>6

LEMMA CreateKeeps ==
  ASSUME IInv, NEW r \in Requests, NEW f \in Copies, Create(r, f)
  PROVE  SweepInv' /\ OwnInv' /\ ReadInv' /\ RaceInv' /\ LostOnlyByRace'
<1> USE TempAssumption DEF IInv, TempTypeOK
<1>1. /\ pc[r] = "creating" /\ made[f] = None /\ source[r] \in Sources /\ f # None
      /\ disk' = disk \cup {f} /\ made' = [made EXCEPT ![f] = source[r]]
      /\ copy' = [copy EXCEPT ![r] = f] /\ pc' = [pc EXCEPT ![r] = "storing"]
      /\ UNCHANGED <<now, nextSweep, stopped, path, asked, source, took, raced>>
  BY DEF Create, Goto, manager
<1>2. \A s \in Sources : path[s] # f
  BY <1>1 DEF OwnInv
<1>3. \A q \in Requests : copy[q] # f
  BY <1>1 DEF OwnInv
<1>4. SweepInv'
  BY <1>1 DEF SweepInv
<1>5. OwnInv'
  BY <1>1, <1>2, <1>3 DEF OwnInv, InHand
<1>6. ReadInv'
  BY <1>1, <1>2, <1>3 DEF ReadInv
<1>7. RaceInv'
  BY <1>1, <1>2 DEF RaceInv
<1>8. LostOnlyByRace'
  BY <1>1, <1>2, <1>3 DEF LostOnlyByRace, InHand, Tracked
<1> QED BY <1>4, <1>5, <1>6, <1>7, <1>8

LEMMA CreateFailsKeeps ==
  ASSUME IInv, NEW r \in Requests, CreateFails(r)
  PROVE  SweepInv' /\ OwnInv' /\ ReadInv' /\ RaceInv' /\ LostOnlyByRace'
<1> USE TempAssumption DEF IInv, TempTypeOK
<1>1. /\ pc[r] = "creating" /\ pc' = [pc EXCEPT ![r] = "idle"]
      /\ UNCHANGED <<now, nextSweep, stopped, path, asked, disk, source, copy, made, took, raced>>
  BY DEF CreateFails, Goto, manager
<1> QED BY <1>1 DEF SweepInv, OwnInv, ReadInv, RaceInv, LostOnlyByRace, InHand, Tracked

LEMMA StoreKeeps ==
  ASSUME IInv, NEW r \in Requests, Register(r)
  PROVE  SweepInv' /\ OwnInv' /\ ReadInv' /\ RaceInv' /\ LostOnlyByRace'
<1> USE TempAssumption DEF IInv, TempTypeOK
<1>1. /\ pc[r] = "storing" /\ source[r] \in Sources
      /\ path' = [path EXCEPT ![source[r]] = copy[r]] /\ asked' = [asked EXCEPT ![source[r]] = now]
      /\ took' = [took EXCEPT ![r] = now] /\ pc' = [pc EXCEPT ![r] = "reading"]
      /\ UNCHANGED <<now, nextSweep, stopped, disk, source, copy, made, raced>>
  BY DEF Register, Stored, Goto
<1>2. /\ copy[r] \in disk /\ made[copy[r]] = source[r] /\ copy[r] # None
      /\ \A s \in Sources : path[s] # copy[r]
      /\ \A q \in Requests : q # r => copy[q] # copy[r]
  BY <1>1 DEF OwnInv, InHand
<1>3. SweepInv'
  BY <1>1 DEF SweepInv
<1>4. OwnInv'
  BY <1>1, <1>2 DEF OwnInv, InHand
<1>5. ReadInv'
  BY <1>1, <1>2 DEF ReadInv
<1>6. RaceInv'
  BY <1>1, <1>2 DEF RaceInv
<1>7. LostOnlyByRace'
  <2> SUFFICES ASSUME NEW f \in disk, f \notin Tracked'
               PROVE  made[f] \in raced \/ \E q \in Requests : InHand(q)' /\ copy[q] = f
    BY <1>1 DEF LostOnlyByRace
  <2>1. f # copy[r]
    BY <1>1 DEF Tracked
  <2>2. CASE f \in Tracked
    <3>1. f = path[source[r]]
      BY <1>1, <2>2 DEF Tracked
    <3>2. made[f] = source[r]
      BY <3>1, <1>1 DEF OwnInv
    <3> QED BY <1>1, <3>1, <3>2 DEF RaceInv
  <2>3. CASE f \notin Tracked
    BY <1>1, <2>1, <2>3 DEF LostOnlyByRace, InHand
  <2> QED BY <2>2, <2>3
<1> QED BY <1>3, <1>4, <1>5, <1>6, <1>7

LEMMA FinishKeeps ==
  ASSUME IInv, NEW r \in Requests, Finish(r)
  PROVE  SweepInv' /\ OwnInv' /\ ReadInv' /\ RaceInv' /\ LostOnlyByRace'
<1> USE TempAssumption DEF IInv, TempTypeOK
<1>1. PICK s \in Sources : source' = [source EXCEPT ![r] = s]
  BY DEF Finish
<1>2. /\ pc[r] = "reading" /\ pc' = [pc EXCEPT ![r] = "idle"]
      /\ copy' = [copy EXCEPT ![r] = None] /\ took' = [took EXCEPT ![r] = 0]
      /\ UNCHANGED <<now, nextSweep, stopped, path, asked, disk, made, raced>>
  BY DEF Finish, Goto, manager
<1>3. SweepInv' /\ ReadInv'
  BY <1>1, <1>2 DEF SweepInv, ReadInv
<1>4. OwnInv'
  BY <1>1, <1>2 DEF OwnInv, InHand
<1>5. RaceInv'
  BY <1>1, <1>2 DEF RaceInv
<1>6. LostOnlyByRace'
  BY <1>1, <1>2 DEF LostOnlyByRace, InHand, Tracked
<1> QED BY <1>3, <1>4, <1>5, <1>6

LEMMA SweepKeeps ==
  ASSUME IInv, Sweep
  PROVE  SweepInv' /\ OwnInv' /\ ReadInv' /\ RaceInv' /\ LostOnlyByRace'
<1> DEFINE old == {s \in Sources : Stale(s)}
<1> USE TempAssumption DEF IInv, TempTypeOK
<1>1. /\ ~stopped /\ now >= nextSweep /\ nextSweep' = nextSweep + Period
      /\ disk' = disk \ {path[s] : s \in old}
      /\ path' = [s \in Sources |-> IF s \in old THEN None ELSE path[s]]
      /\ UNCHANGED <<now, stopped, asked, pc, source, copy, made, took, raced>>
  BY DEF Sweep, request
<1>2. /\ old \subseteq Sources
      /\ \A s \in Sources : s \in old <=> path[s] # None /\ now - asked[s] > TTL
  BY DEF Stale
<1> HIDE DEF old
<1>3. \A f \in disk : f \notin disk' => \E s \in Sources : s \in old /\ path[s] = f
  BY <1>1, <1>2
<1>4. \A f \in disk' : f \in Tracked => f \in Tracked'
  BY <1>1 DEF Tracked
<1>5. SweepInv'
  BY <1>1, <1>2 DEF SweepInv
<1>6. OwnInv'
  BY <1>1, <1>2, <1>3 DEF OwnInv, InHand
<1>7. ReadInv'
  BY <1>1, <1>2, <1>3 DEF ReadInv
<1>8. RaceInv'
  BY <1>1 DEF RaceInv
<1>9. LostOnlyByRace'
  BY <1>1, <1>4 DEF LostOnlyByRace, InHand
<1> QED BY <1>5, <1>6, <1>7, <1>8, <1>9

LEMMA CleanupKeeps ==
  ASSUME IInv, CleanupAll
  PROVE  SweepInv' /\ OwnInv' /\ ReadInv' /\ RaceInv' /\ LostOnlyByRace'
<1> USE TempAssumption DEF IInv, TempTypeOK
<1>1. /\ ~stopped /\ stopped' /\ disk' = disk \ Tracked
      /\ path' = [s \in Sources |-> None]
      /\ UNCHANGED <<now, nextSweep, asked, pc, source, copy, made, took, raced>>
  BY DEF CleanupAll, request
<1>2. SweepInv' /\ ReadInv'
  BY <1>1 DEF SweepInv, ReadInv
<1>3. OwnInv'
  BY <1>1 DEF OwnInv, InHand, Tracked
<1>4. RaceInv'
  BY <1>1 DEF RaceInv
<1>5. LostOnlyByRace'
  BY <1>1 DEF LostOnlyByRace, InHand
<1> QED BY <1>2, <1>3, <1>4, <1>5

LEMMA TickKeeps ==
  ASSUME IInv, Tick
  PROVE  SweepInv' /\ OwnInv' /\ ReadInv' /\ RaceInv' /\ LostOnlyByRace'
<1> USE TempAssumption DEF IInv, TempTypeOK
<1>1. /\ (~stopped => now < nextSweep) /\ now' = now + 1
      /\ UNCHANGED <<nextSweep, stopped, path, asked, disk, pc, source, copy, made, took, raced>>
  BY DEF Tick, manager, request
<1>2. SweepInv'
  BY <1>1 DEF SweepInv
<1>3. ReadInv'
  BY <1>1 DEF ReadInv
<1>4. OwnInv' /\ RaceInv' /\ LostOnlyByRace'
  BY <1>1 DEF OwnInv, RaceInv, LostOnlyByRace, InHand, Tracked
<1> QED BY <1>2, <1>3, <1>4

LEMMA Invariance == IInv /\ [TempNext]_tempVars => IInv'
<1> SUFFICES ASSUME IInv, [TempNext]_tempVars PROVE IInv'
  OBVIOUS
<1>1. TempTypeOK'
  BY Types DEF IInv
<1>2. CASE UNCHANGED tempVars
  BY <1>2 DEF tempVars, manager, request, IInv, TempTypeOK, SweepInv, OwnInv, ReadInv, RaceInv,
              LostOnlyByRace, InHand, Tracked
<1>3. CASE TempNext
  BY <1>1, <1>3, HitKeeps, MissKeeps, CreateKeeps, CreateFailsKeeps, StoreKeeps, FinishKeeps,
     SweepKeeps, CleanupKeeps, TickKeeps DEF TempNext, IInv
<1> QED BY <1>2, <1>3

-----------------------------------------------------------------------------
(* A copy is kept no longer than its life and one sweep, is taken from a
   reader only when it is old or the server stops, and is lost only to a race
   (tempmanager.go:34-97). *)
THEOREM CopiesAlwaysComeAndGo == TempSpec => []CopiesComeAndGo
<1>1. IInv => CopiesComeAndGo
  <2> SUFFICES ASSUME IInv PROVE CopiesComeAndGo
    OBVIOUS
  <2>1. IdleCopiesExpire
    BY TempAssumption DEF IInv, TempTypeOK, SweepInv, IdleCopiesExpire
  <2>2. VanishesOnlyWhenOld
    BY DEF IInv, ReadInv, VanishesOnlyWhenOld
  <2> QED BY <2>1, <2>2 DEF IInv, CopiesComeAndGo
<1> QED BY <1>1, Initially, Invariance, PTL DEF TempSpec
=============================================================================
