------------------------ MODULE ConfigBuilder_proofs ------------------------
(***************************************************************************)
(* Proofs about the configuration builder alone, for any names,            *)
(* profiles, clusters and workloads and any number of services, targets,   *)
(* edits and requests under way.                                           *)
(*                                                                         *)
(* What a target refers to stays with it because a form is Good: every     *)
(* link a target remembers is of a service that a name tells from the      *)
(* others, and the target says that name.  A change leaves a form Ready,   *)
(* with every such link said; what Recall then forgets of it makes the     *)
(* form Good again.  What was saved is reopened because each conversion    *)
(* on the way, to YAML or a request's body and back, gives a form that     *)
(* says the same (SameForm) when every part of it has a name.              *)
(***************************************************************************)
EXTENDS ConfigBuilder, SequenceTheorems, FiniteSetTheorems, TLAPS

-----------------------------------------------------------------------------
(* A form is made of sequences of anything. *)
IsSeq(q)   == \E S : q \in Seq(S)
Parts(q)   == {q[i] : i \in 1..Len(q)}
Apart(q)   == \A i, j \in 1..Len(q) : q[i].id = q[j].id => i = j

LEMMA SeqParts ==
  ASSUME NEW q, IsSeq(q)
  PROVE  /\ Len(q) \in Nat /\ DOMAIN q = 1..Len(q) /\ q = [i \in 1..Len(q) |-> q[i]]
         /\ q \in Seq(Parts(q)) /\ ToSet(q) = Parts(q)
         /\ q = <<>> <=> Len(q) = 0
<1>1. PICK S : q \in Seq(S)
  BY DEF IsSeq
<1>2. Len(q) \in Nat /\ DOMAIN q = 1..Len(q) /\ q = [i \in 1..Len(q) |-> q[i]]
      /\ (q = <<>> <=> Len(q) = 0)
  BY <1>1
<1>3. q \in Seq(Parts(q))
  BY <1>2 DEF Parts
<1> QED BY <1>2, <1>3 DEF ToSet, Parts

(* A function on 1..n is a sequence. *)
LEMMA FunctionIsSeq ==
  ASSUME NEW n \in Nat, NEW q, q = [i \in 1..n |-> q[i]]
  PROVE  IsSeq(q) /\ Len(q) = n
<1>1. q \in Seq({q[i] : i \in 1..n})
  OBVIOUS
<1>2. Len(q) = n
  <2>1. DOMAIN q = 1..n /\ DOMAIN q = 1..Len(q) /\ Len(q) \in Nat
    BY <1>1
  <2> QED BY <2>1
<1> QED BY <1>1, <1>2 DEF IsSeq

LEMMA AppendParts ==
  ASSUME NEW q, IsSeq(q), NEW x
  PROVE  /\ IsSeq(Append(q, x)) /\ Len(Append(q, x)) = Len(q) + 1
         /\ Parts(Append(q, x)) = Parts(q) \cup {x}
         /\ Append(q, x)[Len(q) + 1] = x /\ \A i \in 1..Len(q) : Append(q, x)[i] = q[i]
<1> DEFINE S == Parts(q) \cup {x}
<1>1. q \in Seq(S) /\ x \in S /\ Len(q) \in Nat
  BY SeqParts
<1> HIDE DEF S
<1>2. /\ Append(q, x) \in Seq(S) /\ Len(Append(q, x)) = Len(q) + 1
      /\ Append(q, x)[Len(q) + 1] = x /\ \A i \in 1..Len(q) : Append(q, x)[i] = q[i]
  BY <1>1
<1>3. Parts(Append(q, x)) = Parts(q) \cup {x}
  <2>1. \A i \in 1..(Len(q) + 1) : i \in 1..Len(q) \/ i = Len(q) + 1
    BY <1>1
  <2>2. 1..Len(q) \subseteq 1..(Len(q) + 1) /\ Len(q) + 1 \in 1..(Len(q) + 1)
    BY <1>1
  <2> QED BY <1>2, <2>1, <2>2 DEF Parts
<1> QED BY <1>2, <1>3 DEF IsSeq

LEMMA ConcatParts ==
  ASSUME NEW q, IsSeq(q), NEW r, IsSeq(r)
  PROVE  /\ IsSeq(q \o r) /\ Len(q \o r) = Len(q) + Len(r)
         /\ Parts(q \o r) = Parts(q) \cup Parts(r)
         /\ \A i \in 1..(Len(q) + Len(r)) : (q \o r)[i] = IF i <= Len(q) THEN q[i] ELSE r[i - Len(q)]
<1> DEFINE S == Parts(q) \cup Parts(r)
<1>1. q \in Seq(S) /\ r \in Seq(S) /\ Len(q) \in Nat /\ Len(r) \in Nat
  BY SeqParts
<1> HIDE DEF S
<1>2. /\ q \o r \in Seq(S) /\ Len(q \o r) = Len(q) + Len(r)
      /\ \A i \in 1..(Len(q) + Len(r)) : (q \o r)[i] = IF i <= Len(q) THEN q[i] ELSE r[i - Len(q)]
  BY <1>1, ConcatProperties
<1>3. ASSUME NEW i \in 1..(Len(q) + Len(r)) PROVE (q \o r)[i] \in Parts(q) \cup Parts(r)
  <2>1. CASE i <= Len(q)
    BY <1>1, <1>2, <2>1 DEF Parts
  <2>2. CASE ~(i <= Len(q))
    <3>1. i - Len(q) \in 1..Len(r)
      BY <1>1, <2>2
    <3> QED BY <1>2, <2>2, <3>1 DEF Parts
  <2> QED BY <2>1, <2>2
<1>4. ASSUME NEW i \in 1..Len(q) PROVE q[i] \in Parts(q \o r)
  <2>1. i \in 1..(Len(q) + Len(r)) /\ i <= Len(q)
    BY <1>1
  <2> QED BY <1>2, <2>1 DEF Parts
<1>5. ASSUME NEW i \in 1..Len(r) PROVE r[i] \in Parts(q \o r)
  <2>1. i + Len(q) \in 1..(Len(q) + Len(r)) /\ ~(i + Len(q) <= Len(q)) /\ (i + Len(q)) - Len(q) = i
    BY <1>1
  <2> QED BY <1>2, <2>1 DEF Parts
<1>6. Parts(q \o r) = Parts(q) \cup Parts(r)
  <2>1. Parts(q \o r) \subseteq Parts(q) \cup Parts(r)
    BY <1>2, <1>3 DEF Parts
  <2>2. Parts(q) \subseteq Parts(q \o r) /\ Parts(r) \subseteq Parts(q \o r)
    BY <1>4, <1>5 DEF Parts
  <2> QED BY <2>1, <2>2
<1> QED BY <1>2, <1>6 DEF IsSeq

(* One element is replaced. *)
Swapped(r, q, k, x) == r = [q EXCEPT ![k] = x]

LEMMA SwappedParts ==
  ASSUME NEW q, IsSeq(q), NEW k \in 1..Len(q), NEW x, NEW r, Swapped(r, q, k, x)
  PROVE  /\ IsSeq(r) /\ Len(r) = Len(q)
         /\ \A i \in 1..Len(q) : r[i] = IF i = k THEN x ELSE q[i]
<1>1. Len(q) \in Nat /\ DOMAIN q = 1..Len(q)
  BY SeqParts
<1>2. r = [i \in 1..Len(q) |-> r[i]] /\ \A i \in 1..Len(q) : r[i] = IF i = k THEN x ELSE q[i]
  BY <1>1 DEF Swapped
<1>3. IsSeq(r) /\ Len(r) = Len(q)
  BY <1>1, <1>2, FunctionIsSeq
<1> QED BY <1>2, <1>3

LEMMA InsertParts ==
  ASSUME NEW q, IsSeq(q), NEW k \in 1..Len(q), NEW x, NEW r, r = InsertAt(q, k + 1, x)
  PROVE  /\ IsSeq(r) /\ Len(r) = Len(q) + 1 /\ Parts(r) = Parts(q) \cup {x}
         /\ \A i \in 1..(Len(q) + 1) :
              r[i] = IF i <= k THEN q[i] ELSE IF i = k + 1 THEN x ELSE q[i - 1]
<1> DEFINE a == SubSeq(q, 1, k)
           b == SubSeq(q, k + 1, Len(q))
<1>0. Len(q) \in Nat /\ q \in Seq(Parts(q)) /\ k \in Int
  BY SeqParts
<1>1. IsSeq(a) /\ Len(a) = k /\ \A i \in 1..k : a[i] = q[i]
  <2>1. a \in Seq(Parts(q)) /\ Len(a) = k /\ \A i \in 1..k : a[i] = q[i]
    BY <1>0
  <2> QED BY <2>1 DEF IsSeq
<1>2. IsSeq(b) /\ Len(b) = Len(q) - k /\ \A i \in 1..(Len(q) - k) : b[i] = q[k + i]
  <2>1. b \in Seq(Parts(q)) /\ Len(b) = Len(q) - k /\ \A i \in 1..(Len(q) - k) : b[i] = q[k + i]
    BY <1>0
  <2> QED BY <2>1 DEF IsSeq
<1>3. r = (a \o <<x>>) \o b
  <2>1. (k + 1) - 1 = k
    BY <1>0
  <2> QED BY <2>1 DEF InsertAt
<1>4. IsSeq(<<x>>) /\ Len(<<x>>) = 1 /\ <<x>>[1] = x
  <2>1. <<x>> \in Seq({x})
    OBVIOUS
  <2> QED BY <2>1 DEF IsSeq
<1> HIDE DEF a, b
<1>5. IsSeq(a \o <<x>>) /\ Len(a \o <<x>>) = k + 1
      /\ \A i \in 1..(k + 1) : (a \o <<x>>)[i] = IF i <= k THEN q[i] ELSE x
  <2>1. IsSeq(a \o <<x>>) /\ Len(a \o <<x>>) = k + 1
        /\ \A i \in 1..(k + 1) : (a \o <<x>>)[i] = IF i <= k THEN a[i] ELSE <<x>>[i - k]
    BY <1>1, <1>4, ConcatParts
  <2>2. \A i \in 1..(k + 1) : /\ i <= k => i \in 1..k
                              /\ ~(i <= k) => i - k = 1
    BY <1>0
  <2> QED BY <1>1, <1>4, <2>1, <2>2
<1>6. /\ IsSeq(r) /\ Len(r) = Len(q) + 1
      /\ \A i \in 1..(Len(q) + 1) : r[i] = IF i <= k + 1 THEN (a \o <<x>>)[i] ELSE b[i - (k + 1)]
  <2>1. (k + 1) + (Len(q) - k) = Len(q) + 1
    BY <1>0
  <2>2. /\ IsSeq((a \o <<x>>) \o b) /\ Len((a \o <<x>>) \o b) = (k + 1) + (Len(q) - k)
        /\ \A i \in 1..((k + 1) + (Len(q) - k)) :
             ((a \o <<x>>) \o b)[i] = IF i <= k + 1 THEN (a \o <<x>>)[i] ELSE b[i - (k + 1)]
    <3> DEFINE c == a \o <<x>>
    <3>1. IsSeq(c) /\ Len(c) = k + 1
      BY <1>5
    <3> HIDE DEF c
    <3>2. /\ IsSeq(c \o b) /\ Len(c \o b) = (k + 1) + (Len(q) - k)
          /\ \A i \in 1..((k + 1) + (Len(q) - k)) : (c \o b)[i] = IF i <= k + 1 THEN c[i] ELSE b[i - (k + 1)]
      <4>1. /\ IsSeq(c \o b) /\ Len(c \o b) = Len(c) + Len(b)
            /\ \A i \in 1..(Len(c) + Len(b)) : (c \o b)[i] = IF i <= Len(c) THEN c[i] ELSE b[i - Len(c)]
        BY <1>2, <3>1, ConcatParts
      <4> QED BY <1>2, <3>1, <4>1
    <3> QED BY <3>2 DEF c
  <2> QED BY <1>3, <2>1, <2>2
<1>7. \A i \in 1..(Len(q) + 1) : r[i] = IF i <= k THEN q[i] ELSE IF i = k + 1 THEN x ELSE q[i - 1]
  <2> SUFFICES ASSUME NEW i \in 1..(Len(q) + 1)
               PROVE  r[i] = IF i <= k THEN q[i] ELSE IF i = k + 1 THEN x ELSE q[i - 1]
    OBVIOUS
  <2>1. CASE i <= k + 1
    <3>1. i \in 1..(k + 1) /\ (~(i <= k) => i = k + 1)
      BY <1>0, <2>1
    <3> QED BY <1>5, <1>6, <2>1, <3>1
  <2>2. CASE ~(i <= k + 1)
    <3>1. i - (k + 1) \in 1..(Len(q) - k) /\ k + (i - (k + 1)) = i - 1 /\ ~(i <= k) /\ i # k + 1
      BY <1>0, <2>2
    <3> QED BY <1>2, <1>6, <2>2, <3>1
  <2> QED BY <2>1, <2>2
<1>8. Parts(r) = Parts(q) \cup {x}
  <2>1. ASSUME NEW i \in 1..(Len(q) + 1) PROVE r[i] \in Parts(q) \cup {x}
    <3>1. (i <= k => i \in 1..Len(q)) /\ (~(i <= k) /\ i # k + 1 => i - 1 \in 1..Len(q))
      BY <1>0
    <3> QED BY <1>7, <3>1 DEF Parts
  <2>2. ASSUME NEW i \in 1..Len(q) PROVE \E j \in 1..(Len(q) + 1) : r[j] = q[i]
    <3>1. CASE i <= k
      <4>1. i \in 1..(Len(q) + 1)
        BY <1>0
      <4> QED BY <1>7, <3>1, <4>1
    <3>2. CASE ~(i <= k)
      <4>1. i + 1 \in 1..(Len(q) + 1) /\ ~(i + 1 <= k) /\ i + 1 # k + 1 /\ (i + 1) - 1 = i
        BY <1>0, <3>2
      <4> QED BY <1>7, <4>1
    <3> QED BY <3>1, <3>2
  <2>3. k + 1 \in 1..(Len(q) + 1) /\ r[k + 1] = x
    <3>1. k + 1 \in 1..(Len(q) + 1) /\ ~(k + 1 <= k)
      BY <1>0
    <3> QED BY <1>7, <3>1
  <2>4. Parts(r) = {r[i] : i \in 1..(Len(q) + 1)}
    BY <1>6 DEF Parts
  <2>5. Parts(r) \subseteq Parts(q) \cup {x}
    BY <2>1, <2>4
  <2>6. x \in Parts(r)
    BY <2>3, <2>4
  <2>7. Parts(q) \subseteq Parts(r)
    <3> SUFFICES ASSUME NEW i \in 1..Len(q) PROVE q[i] \in Parts(r)
      BY DEF Parts
    <3>1. PICK j \in 1..(Len(q) + 1) : r[j] = q[i]
      BY <2>2
    <3> QED BY <2>4, <3>1
  <2> QED BY <2>5, <2>6, <2>7
<1> QED BY <1>6, <1>7, <1>8

(* The places of a set are counted up to each of them. *)
LEMMA RankOnto ==
  ASSUME NEW n \in Nat, NEW K, K \subseteq 1..n
  PROVE  /\ IsFiniteSet(K) /\ Cardinality(K) \in Nat
         /\ \A k \in 1..Cardinality(K) : \E i \in K : Cardinality({j \in K : j <= i}) = k
         /\ \A i, h \in K : Cardinality({j \in K : j <= i}) = Cardinality({j \in K : j <= h}) => i = h
<1> DEFINE Upto(i) == {j \in K : j <= i}
           rank == [i \in K |-> Cardinality(Upto(i))]
           N == Cardinality(K)
<1>1. IsFiniteSet(K) /\ N \in Nat
  <2>1. IsFiniteSet(1..n)
    BY FS_Interval
  <2> QED BY <2>1, FS_Subset, FS_CardinalityType
<1>2. ASSUME NEW i \in K PROVE IsFiniteSet(Upto(i)) /\ Cardinality(Upto(i)) \in 1..N
  <2>1. Upto(i) \subseteq K
    OBVIOUS
  <2>2. i \in Upto(i)
    OBVIOUS
  <2> HIDE DEF Upto
  <2>3. IsFiniteSet(Upto(i)) /\ Cardinality(Upto(i)) \in Nat /\ Cardinality(Upto(i)) <= N
    BY <1>1, <2>1, FS_Subset, FS_CardinalityType
  <2>4. Cardinality(Upto(i)) # 0
    BY <2>2, <2>3, FS_EmptySet
  <2> QED BY <1>1, <2>3, <2>4
<1>3. ASSUME NEW i \in K, NEW h \in K, i < h PROVE Cardinality(Upto(i)) # Cardinality(Upto(h))
  <2>1. Upto(i) \subseteq Upto(h) /\ h \in Upto(h) /\ h \notin Upto(i)
    <3>1. \A j \in K : j \in Int
      OBVIOUS
    <3>2. \A j \in K : j <= i => j <= h
      BY <1>3, <3>1
    <3>3. h <= h /\ ~(h <= i)
      BY <1>3, <3>1
    <3> QED BY <3>2, <3>3
  <2>2. IsFiniteSet(Upto(h))
    BY <1>2
  <2> HIDE DEF Upto
  <2>3. Upto(i) \in SUBSET Upto(h)
    BY <2>1
  <2>4. Cardinality(Upto(h)) = Cardinality(Upto(i)) => Upto(h) = Upto(i)
    BY ONLY <2>2, <2>3, FS_Subset
  <2> QED BY <2>1, <2>4
<1>4. \A i, h \in K : Cardinality(Upto(i)) = Cardinality(Upto(h)) => i = h
  <2> SUFFICES ASSUME NEW i \in K, NEW h \in K, Cardinality(Upto(i)) = Cardinality(Upto(h)) PROVE i = h
    OBVIOUS
  <2>1. i \in Int /\ h \in Int
    OBVIOUS
  <2> HIDE DEF Upto
  <2> QED BY <1>3, <2>1
<1>5. rank \in Injection(K, 1..N)
  <2> HIDE DEF Upto, N
  <2> QED BY <1>2, <1>4 DEF Injection, IsInjective
<1> HIDE DEF rank
<1>6. Cardinality(1..N) = N /\ IsFiniteSet(1..N)
  BY <1>1, FS_Interval
<1>7. rank \in Surjection(K, 1..N)
  BY <1>1, <1>5, <1>6, FS_Injection
<1>8. \A k \in 1..N : \E i \in K : Cardinality(Upto(i)) = k
  <2> HIDE DEF Upto, N
  <2> QED BY <1>7 DEF Surjection, rank
<1> QED BY <1>1, <1>4, <1>8


(* What filter leaves. *)
LEMMA LeaveOutParts ==
  ASSUME NEW q, IsSeq(q), NEW gone, NEW r, r = LeaveOut(q, gone)
  PROVE  /\ IsSeq(r) /\ Parts(r) = Parts(q) \ gone
         /\ Apart(q) => Apart(r)
         /\ Parts(q) \cap gone = {} => r = q
<1> DEFINE K == {i \in DOMAIN q : q[i] \notin gone}
           N == Cardinality(K)
           Rank(i) == Cardinality({j \in K : j <= i})
           Nth(k) == CHOOSE i \in K : Rank(i) = k
<1>1. Len(q) \in Nat /\ DOMAIN q = 1..Len(q) /\ q = [i \in 1..Len(q) |-> q[i]]
  BY SeqParts
<1>2. r = [k \in 1..N |-> q[Nth(k)]]
  BY DEF LeaveOut
<1>20. \A S : Cardinality(S) = Cardinality(S)
  BY DEF Cardinality, Cardinality
<1>3. K \subseteq 1..Len(q)
  BY <1>1
<1>4. /\ IsFiniteSet(K) /\ N \in Nat
      /\ \A k \in 1..N : \E i \in K : Rank(i) = k
      /\ \A i, h \in K : Rank(i) = Rank(h) => i = h
  <2> HIDE DEF K
  <2>1. /\ IsFiniteSet(K) /\ Cardinality(K) \in Nat
        /\ \A k \in 1..Cardinality(K) : \E i \in K : Cardinality({j \in K : j <= i}) = k
        /\ \A i, h \in K : Cardinality({j \in K : j <= i}) = Cardinality({j \in K : j <= h}) => i = h
    BY <1>1, <1>3, RankOnto
  <2> QED BY <1>20, <2>1
<1>5. \A k \in 1..N : Nth(k) \in K /\ Rank(Nth(k)) = k
  <2> HIDE DEF K, N, Rank
  <2> QED BY <1>4
<1>6. \A i \in K : Rank(i) \in 1..N
  <2> SUFFICES ASSUME NEW i \in K PROVE Rank(i) \in 1..N
    OBVIOUS
  <2> DEFINE U == {j \in K : j <= i}
  <2>1. U \in SUBSET K /\ i \in U
    BY <1>3
  <2> HIDE DEF U, K
  <2>2. IsFiniteSet(U) /\ Cardinality(U) <= N /\ Cardinality(U) \in Nat
    BY <1>4, <1>20, <2>1, FS_Subset, FS_CardinalityType
  <2>3. Cardinality(U) # 0
    BY <2>1, <2>2, FS_EmptySet
  <2> QED BY <1>4, <1>20, <2>2, <2>3 DEF U
<1>7. \A i \in K : \E k \in 1..N : Nth(k) = i
  <2> SUFFICES ASSUME NEW i \in K PROVE \E k \in 1..N : Nth(k) = i
    OBVIOUS
  <2> DEFINE k == Rank(i)
  <2>1. k \in 1..N
    BY <1>6
  <2>2. Nth(k) \in K /\ Rank(Nth(k)) = Rank(i)
    BY <1>5, <2>1
  <2>3. Nth(k) = i
    <3> HIDE DEF K, N, Rank, Nth, k
    <3> QED BY <1>4, <2>2
  <2> HIDE DEF K, N, Rank, Nth, k
  <2> QED BY <2>1, <2>3
<1>8. Parts(q) \cap gone = {} => \A k \in 1..N : Nth(k) = k
  <2> SUFFICES ASSUME Parts(q) \cap gone = {}, NEW k \in 1..N PROVE Nth(k) = k
    OBVIOUS
  <2>1. K = 1..Len(q)
    BY <1>1 DEF Parts
  <2>2. N = Len(q)
    <3>1. Cardinality(1..Len(q)) = Len(q)
      BY <1>1, FS_Interval
    <3> QED BY <1>20, <2>1, <3>1
  <2>3. k \in K
    BY <2>1, <2>2
  <2>4. Rank(k) = k
    <3>3. k \in 1..Len(q)
      BY <2>2
    <3>4. k \in Int /\ ~(1 > k)
      BY <1>1, <3>3
    <3>1. {j \in 1..Len(q) : j <= k} = 1..k
      BY <1>1, <3>3
    <3>2. Cardinality(1..k) = k
      BY <3>4, FS_Interval
    <3> QED BY <1>20, <2>1, <3>1, <3>2
  <2> HIDE DEF K, N, Rank, Nth
  <2> QED BY <1>4, <1>5, <2>3, <2>4
<1>9. Parts(q) \cap gone = {} => N = Len(q)
  <2> SUFFICES ASSUME Parts(q) \cap gone = {} PROVE N = Len(q)
    OBVIOUS
  <2>1. K = 1..Len(q)
    BY <1>1 DEF Parts
  <2>2. Cardinality(1..Len(q)) = Len(q)
    BY <1>1, FS_Interval
  <2> QED BY <1>20, <2>1, <2>2
<1>10. \A i \in K : i \in 1..Len(q) /\ q[i] \notin gone
  BY <1>1
<1>11. \A i \in 1..Len(q) : q[i] \notin gone => i \in K
  BY <1>1
<1> HIDE DEF K, N, Rank, Nth
<1>12. r = [k \in 1..N |-> r[k]] /\ \A k \in 1..N : r[k] = q[Nth(k)]
  BY <1>2
<1>13. IsSeq(r) /\ Len(r) = N
  BY <1>4, <1>12, FunctionIsSeq
<1>14. Parts(r) = Parts(q) \ gone
  <2>1. ASSUME NEW k \in 1..N PROVE r[k] \in Parts(q) \ gone
    <3>1. Nth(k) \in 1..Len(q) /\ q[Nth(k)] \notin gone /\ r[k] = q[Nth(k)]
      BY <1>5, <1>10, <1>12
    <3> QED BY <3>1 DEF Parts
  <2>2. ASSUME NEW i \in 1..Len(q), q[i] \notin gone PROVE \E k \in 1..N : r[k] = q[i]
    <3>1. PICK k \in 1..N : Nth(k) = i
      BY <1>7, <1>11, <2>2
    <3> QED BY <1>12, <3>1
  <2> QED BY <1>13, <2>1, <2>2 DEF Parts
<1>15. Apart(q) => Apart(r)
  <2> SUFFICES ASSUME Apart(q), NEW k \in 1..N, NEW h \in 1..N, r[k].id = r[h].id PROVE k = h
    BY <1>13 DEF Apart
  <2>1. Nth(k) \in 1..Len(q) /\ Nth(h) \in 1..Len(q) /\ r[k] = q[Nth(k)] /\ r[h] = q[Nth(h)]
    BY <1>5, <1>10, <1>12
  <2>2. Nth(k) = Nth(h)
    BY <2>1 DEF Apart
  <2> QED BY <1>5, <2>2
<1>16. Parts(q) \cap gone = {} => r = q
  BY <1>1, <1>8, <1>9, <1>12
<1> QED BY <1>13, <1>14, <1>15, <1>16

(* An id that is not given yet. *)
LEMMA FreshIsFree ==
  ASSUME NEW ids, IsFiniteSet(ids)
  PROVE  Fresh(ids) \notin ids
<1> DEFINE N == Cardinality(ids) + 1
<1>1. Cardinality(ids) = Cardinality(ids)
  BY DEF Cardinality, Cardinality
<1>2. Cardinality(ids) \in Nat /\ Cardinality(1..N) = N
  <2>1. Cardinality(ids) \in Nat
    BY FS_CardinalityType
  <2> QED BY <2>1, FS_Interval
<1>3. ~(1..N \subseteq ids)
  <2>1. ASSUME 1..N \subseteq ids PROVE FALSE
    <3> DEFINE S == 1..N
    <3>1. S \in SUBSET ids
      BY <2>1
    <3> HIDE DEF S
    <3>2. Cardinality(S) <= Cardinality(ids)
      BY <3>1, FS_Subset
    <3> QED BY <1>2, <3>2 DEF S
  <2> QED BY <2>1
<1>4. \E n \in 1..N : n \notin ids
  BY <1>3
<1> QED BY <1>1, <1>4 DEF Fresh

LEMMA IdsFinite ==
  ASSUME NEW q, IsSeq(q)
  PROVE  IsFiniteSet({s.id : s \in Parts(q)})
<1> DEFINE S == {s.id : s \in Parts(q)}
           f == [i \in 1..Len(q) |-> q[i].id]
<1>1. IsFiniteSet(1..Len(q))
  BY SeqParts, FS_Interval
<1>2. f \in Surjection(1..Len(q), S)
  <2>1. f \in [1..Len(q) -> S]
    BY DEF Parts
  <2>2. \A x \in S : \E i \in 1..Len(q) : f[i] = x
    BY DEF Parts
  <2> QED BY <2>1, <2>2 DEF Surjection
<1> HIDE DEF f, S
<1>3. IsFiniteSet(S)
  BY <1>1, <1>2, FS_Surjection
<1> QED BY <1>3 DEF S

(* A set in turn. *)
LEMMA SetInTurn ==
  ASSUME NEW S, IsFiniteSet(S), NEW q, q = SetToSeq(S)
  PROVE  IsSeq(q) /\ Parts(q) = S
<1> DEFINE N == Cardinality(S)
<1>1. N \in Nat /\ ExistsBijection(1..N, S)
  BY FS_CardinalityType
<1>2. \E g \in [1..N -> S] : IsInjective(g)
  BY <1>1 DEF ExistsBijection, Bijection, Injection
<1>3. q \in [1..N -> S] /\ IsInjective(q)
  <2>1. Cardinality(S) = N
    BY DEF Cardinality, Cardinality
  <2> QED BY <1>2, <2>1 DEF SetToSeq, IsInjective, IsInjective
<1>4. q \in Injection(1..N, S)
  BY <1>3 DEF Injection
<1>5. Cardinality(1..N) = N
  BY <1>1, FS_Interval
<1>6. q \in Surjection(1..N, S)
  BY <1>4, <1>5, FS_Injection
<1>7. q \in Seq(S) /\ Len(q) = N
  BY <1>1, <1>3
<1>8. \A x \in S : \E j \in 1..N : q[j] = x
  BY <1>6 DEF Surjection
<1>9. \A j \in 1..N : q[j] \in S
  BY <1>3
<1> QED BY <1>7, <1>8, <1>9 DEF IsSeq, Parts

(* There are enough ids for any number of new parts. *)
LEMMA EnoughIds ==
  ASSUME NEW ids, IsFiniteSet(ids), NEW n \in Nat
  PROVE  \E f \in [1..n -> 1..(n + Cardinality(ids))] :
            \A i, j \in 1..n : f[i] \notin ids /\ (f[i] = f[j] => i = j)
<1> DEFINE N == n + Cardinality(ids)
           D == (1..N) \ ids
<1>1. Cardinality(ids) \in Nat /\ N \in Nat
  BY FS_CardinalityType
<1>2. IsFiniteSet(1..N) /\ Cardinality(1..N) = N
  BY <1>1, FS_Interval
<1>3. IsFiniteSet(D) /\ Cardinality(D) = Cardinality(1..N) - Cardinality((1..N) \cap ids)
  <2> HIDE DEF N
  <2> QED BY <1>2, FS_Difference
<1>4. Cardinality((1..N) \cap ids) <= Cardinality(ids) /\ Cardinality((1..N) \cap ids) \in Nat
  <2> DEFINE I == (1..N) \cap ids
  <2>1. I \in SUBSET ids
    OBVIOUS
  <2> HIDE DEF I
  <2>2. IsFiniteSet(I) /\ Cardinality(I) <= Cardinality(ids)
    BY <2>1, FS_Subset
  <2>3. Cardinality(I) \in Nat
    BY <2>2, FS_CardinalityType
  <2> QED BY <2>2, <2>3 DEF I
<1>5. Cardinality(D) \in Nat /\ Cardinality(D) >= n
  <2> HIDE DEF D
  <2> QED BY <1>1, <1>2, <1>3, <1>4
<1>6. PICK g : g \in Bijection(1..Cardinality(D), D)
  <2>1. ExistsBijection(1..Cardinality(D), D)
    <3> HIDE DEF D
    <3> QED BY <1>3, FS_CardinalityType
  <2> QED BY <2>1 DEF ExistsBijection
<1>7. g \in [1..Cardinality(D) -> D] /\ \A i, j \in 1..Cardinality(D) : g[i] = g[j] => i = j
  <2> HIDE DEF D
  <2> QED BY <1>6 DEF Bijection, Injection, IsInjective
<1> DEFINE f == [i \in 1..n |-> g[i]]
<1>8. \A i \in 1..n : i \in 1..Cardinality(D)
  BY <1>5
<1>9. \A i \in 1..n : f[i] \in D /\ f[i] = g[i]
  BY <1>7, <1>8
<1>10. \A i, j \in 1..n : f[i] \notin ids /\ (f[i] = f[j] => i = j)
  BY <1>7, <1>8, <1>9
<1>11. f \in [1..n -> 1..N]
  BY <1>9
<1> QED BY <1>10, <1>11

(* The parts of a form. *)
IsService(s) ==
  s = [id |-> s.id, name |-> s.name, provider |-> s.provider, resource |-> s.resource,
       own |-> s.own, conn |-> s.conn]
IsOverride(o) == o = [name |-> o.name, fields |-> o.fields, of |-> o.of]
IsTarget(t) ==
  /\ t = [id |-> t.id, name |-> t.name, type |-> t.type, profile |-> t.profile, address |-> t.address,
          login |-> t.login, names |-> t.names, overrides |-> t.overrides, ticked |-> t.ticked]
  /\ IsSeq(t.names) /\ \A o \in t.overrides : IsOverride(o)
IsEnvironment(e) ==
  /\ e = [id |-> e.id, name |-> e.name, targets |-> e.targets]
  /\ IsSeq(e.targets) /\ \A t \in Parts(e.targets) : IsTarget(t)
TargetsIn(envs) == UNION {Parts(e.targets) : e \in Parts(envs)}
IsForm(c) ==
  /\ c = [name |-> c.name, hierarchy |-> c.hierarchy, services |-> c.services,
          environments |-> c.environments]
  /\ IsSeq(c.services) /\ \A s \in Parts(c.services) : IsService(s)
  /\ IsSeq(c.environments) /\ \A e \in Parts(c.environments) : IsEnvironment(e)

LEMMA PartsAre ==
  ASSUME NEW q, IsSeq(q)
  PROVE  /\ \A i \in 1..Len(q) : q[i] \in Parts(q)
         /\ \A x \in Parts(q) : \E i \in 1..Len(q) : q[i] = x
         /\ Apart(q) => \A x, y \in Parts(q) : x.id = y.id => x = y
<1>1. Apart(q) => \A x, y \in Parts(q) : x.id = y.id => x = y
  BY DEF Parts, Apart
<1> QED BY <1>1 DEF Parts

LEMMA TargetsOfForm ==
  ASSUME NEW c, IsForm(c)
  PROVE  /\ TargetsOf(c) = TargetsIn(c.environments)
         /\ ToSet(c.services) = Parts(c.services)
         /\ \A t \in TargetsIn(c.environments) : IsTarget(t)
         /\ \A i \in 1..Len(c.environments) :
              /\ IsEnvironment(c.environments[i])
              /\ \A j \in 1..Len(c.environments[i].targets) :
                   /\ c.environments[i].targets[j] \in TargetsIn(c.environments)
                   /\ IsTarget(c.environments[i].targets[j])
<1>1. ToSet(c.services) = Parts(c.services) /\ ToSet(c.environments) = Parts(c.environments)
  BY SeqParts DEF IsForm
<1>2. \A e \in Parts(c.environments) : IsEnvironment(e) /\ ToSet(e.targets) = Parts(e.targets)
  BY SeqParts DEF IsForm, IsEnvironment
<1>3. TargetsOf(c) = TargetsIn(c.environments)
  BY <1>1, <1>2 DEF TargetsOf, TargetsIn
<1>4. \A t \in TargetsIn(c.environments) : IsTarget(t)
  BY <1>2 DEF TargetsIn, IsEnvironment
<1>5. ASSUME NEW i \in 1..Len(c.environments)
      PROVE  /\ IsEnvironment(c.environments[i])
             /\ \A j \in 1..Len(c.environments[i].targets) :
                  /\ c.environments[i].targets[j] \in TargetsIn(c.environments)
                  /\ IsTarget(c.environments[i].targets[j])
  <2>1. c.environments[i] \in Parts(c.environments)
    BY DEF Parts
  <2>2. \A j \in 1..Len(c.environments[i].targets) : c.environments[i].targets[j] \in Parts(c.environments[i].targets)
    BY DEF Parts
  <2>3. \A j \in 1..Len(c.environments[i].targets) : c.environments[i].targets[j] \in TargetsIn(c.environments)
    BY <2>1, <2>2 DEF TargetsIn
  <2> QED BY <1>2, <1>4, <2>1, <2>3
<1> QED BY <1>1, <1>3, <1>4, <1>5

LEMMA AtFinds ==
  ASSUME NEW q, IsSeq(q), NEW x \in Parts(q)
  PROVE  /\ At(q, x.id) \in 1..Len(q) /\ q[At(q, x.id)].id = x.id
         /\ Apart(q) => q[At(q, x.id)] = x
<1>1. DOMAIN q = 1..Len(q)
  BY SeqParts
<1>2. PICK i \in 1..Len(q) : q[i] = x
  BY DEF Parts
<1>3. At(q, x.id) \in 1..Len(q) /\ q[At(q, x.id)].id = x.id
  BY <1>1, <1>2 DEF At
<1> QED BY <1>2, <1>3 DEF Apart

(* The targets of every environment are replaced. *)
WithAll(envs, T) == [i \in DOMAIN envs |-> [envs[i] EXCEPT !.targets = T[i]]]

TargetLists(T, n) == \A i \in 1..n : IsSeq(T[i]) /\ \A j \in 1..Len(T[i]) : IsTarget(T[i][j])
AmongLists(t, T, n) == \E i \in 1..n : \E j \in 1..Len(T[i]) : t = T[i][j]

LEMMA WithAllParts ==
  ASSUME NEW c, IsForm(c), NEW T, NEW envs, envs = WithAll(c.environments, T),
         TargetLists(T, Len(c.environments))
  PROVE  /\ IsSeq(envs) /\ Len(envs) = Len(c.environments)
         /\ \A i \in 1..Len(envs) :
              envs[i] = [id |-> c.environments[i].id, name |-> c.environments[i].name, targets |-> T[i]]
         /\ \A e \in Parts(envs) : IsEnvironment(e)
         /\ \A t \in TargetsIn(envs) : AmongLists(t, T, Len(c.environments))
<1> DEFINE old == c.environments
<1>1. Len(old) \in Nat /\ DOMAIN old = 1..Len(old) /\ \A i \in 1..Len(old) : IsEnvironment(old[i])
  BY SeqParts, TargetsOfForm DEF IsForm
<1>9. \A i \in 1..Len(old) : IsSeq(T[i]) /\ \A j \in 1..Len(T[i]) : IsTarget(T[i][j])
  BY DEF TargetLists
<1>2. envs = [i \in 1..Len(old) |-> [old[i] EXCEPT !.targets = T[i]]]
  BY <1>1 DEF WithAll
<1>3. ASSUME NEW i \in 1..Len(old)
      PROVE  /\ envs[i] = [id |-> old[i].id, name |-> old[i].name, targets |-> T[i]]
             /\ envs[i].targets = T[i] /\ envs[i].id = old[i].id /\ envs[i].name = old[i].name
  <2>1. envs[i] = [old[i] EXCEPT !.targets = T[i]]
    BY <1>2
  <2>2. old[i] = [id |-> old[i].id, name |-> old[i].name, targets |-> old[i].targets]
    BY <1>1 DEF IsEnvironment
  <2>3. envs[i] = [id |-> old[i].id, name |-> old[i].name, targets |-> T[i]]
    BY <2>1, <2>2
  <2> QED BY <2>3
<1>4. envs = [i \in 1..Len(old) |-> envs[i]]
  BY <1>2
<1> HIDE DEF old
<1>5. IsSeq(envs) /\ Len(envs) = Len(old)
  BY <1>1, <1>4, FunctionIsSeq
<1>6. ASSUME NEW i \in 1..Len(old)
      PROVE  IsEnvironment(envs[i]) /\ envs[i].targets = T[i]
  <2>1. envs[i].targets = T[i] /\ envs[i].id = old[i].id /\ envs[i].name = old[i].name
    BY <1>3
  <2>2. IsSeq(T[i]) /\ \A j \in 1..Len(T[i]) : IsTarget(T[i][j])
    BY <1>9
  <2>3. \A t \in Parts(T[i]) : IsTarget(t)
    BY <2>2 DEF Parts
  <2> QED BY <1>3, <2>1, <2>2, <2>3 DEF IsEnvironment
<1>7. \A e \in Parts(envs) : IsEnvironment(e)
  BY <1>5, <1>6 DEF Parts
<1>8. ASSUME NEW t \in TargetsIn(envs)
      PROVE  AmongLists(t, T, Len(old))
  <2>1. PICK e \in Parts(envs) : t \in Parts(e.targets)
    BY DEF TargetsIn
  <2>2. PICK i \in 1..Len(old) : e = envs[i]
    BY <1>5 DEF Parts
  <2>3. t \in Parts(T[i])
    BY <1>6, <2>1, <2>2
  <2> QED BY <2>3 DEF Parts, AmongLists
<1> QED BY <1>3, <1>5, <1>7, <1>8 DEF old

(* A form whose links can be followed, and one that remembers no other.    *)
(* In an environment's or a service's form there is one environment; the   *)
(* target of a service refers to none.                                     *)
Links(t, q) ==
  \A s \in Parts(q) : s.id \in Told(q) =>
    /\ s.id \in t.ticked => s.name \in Parts(t.names)
    /\ \A o \in t.overrides : s.id \in o.of => o.name = s.name
ToldOnly(t, q) ==
  t.ticked \subseteq Told(q) /\ \A o \in t.overrides : o.of \subseteq Told(q)
Bare(t) == t.ticked = {} /\ t.overrides = {} /\ t.names = <<>>
Suits(c, m) ==
  /\ m # "workspace" => Len(c.environments) \in {0, 1}
  /\ m = "service" => \A t \in TargetsIn(c.environments) : Bare(t)
Ready(c, m) ==
  /\ IsForm(c) /\ Apart(c.services) /\ Suits(c, m)
  /\ \A t \in TargetsIn(c.environments) : Links(t, c.services)
Good(c, m) == Ready(c, m) /\ \A t \in TargetsIn(c.environments) : ToldOnly(t, c.services)

LEMMA ToldAre ==
  ASSUME NEW q, IsSeq(q), Apart(q)
  PROVE  /\ Told(q) \subseteq {s.id : s \in Parts(q)}
         /\ \A s \in Parts(q) : s.id \in Told(q)
               <=> s.name # NoName /\ \A y \in Parts(q) : y.name = s.name => y = s
<1>1. ToSet(q) = Parts(q) /\ \A x, y \in Parts(q) : x.id = y.id => x = y
  BY SeqParts, PartsAre
<1>2. Told(q) = {s.id : s \in {x \in Parts(q) : /\ x.name # NoName
                                                         /\ \A y \in Parts(q) : y.name = x.name => y = x}}
  BY <1>1 DEF Told
<1>3. \A s \in Parts(q) : s.id \in Told(q)
        => \E x \in Parts(q) : /\ x.name # NoName /\ s.id = x.id
                               /\ \A y \in Parts(q) : y.name = x.name => y = x
  BY <1>2
<1>4. \A s \in Parts(q) : s.id \in Told(q)
        => s.name # NoName /\ \A y \in Parts(q) : y.name = s.name => y = s
  BY <1>1, <1>3
<1>5. \A s \in Parts(q) : s.name # NoName /\ (\A y \in Parts(q) : y.name = s.name => y = s)
        => s.id \in Told(q)
  BY <1>2
<1>6. Told(q) \subseteq {s.id : s \in Parts(q)}
  BY <1>2
<1> QED BY <1>4, <1>5, <1>6

LEMMA WithEnvironments ==
  ASSUME NEW c, IsForm(c), NEW envs, IsSeq(envs), \A e \in Parts(envs) : IsEnvironment(e),
         NEW d, d = [c EXCEPT !.environments = envs]
  PROVE  /\ IsForm(d) /\ d.services = c.services /\ d.environments = envs
         /\ d.name = c.name /\ d.hierarchy = c.hierarchy
<1>1. d = [name |-> c.name, hierarchy |-> c.hierarchy, services |-> c.services, environments |-> envs]
  BY DEF IsForm
<1>2. /\ d.services = c.services /\ d.environments = envs /\ d.name = c.name
      /\ d.hierarchy = c.hierarchy
  BY <1>1
<1> QED BY <1>1, <1>2 DEF IsForm

LEMMA WithServices ==
  ASSUME NEW c, IsForm(c), NEW q, IsSeq(q), \A s \in Parts(q) : IsService(s),
         NEW d, d = [c EXCEPT !.services = q]
  PROVE  /\ IsForm(d) /\ d.services = q /\ d.environments = c.environments
         /\ d.name = c.name /\ d.hierarchy = c.hierarchy
<1>1. d = [name |-> c.name, hierarchy |-> c.hierarchy, services |-> q, environments |-> c.environments]
  BY DEF IsForm
<1>2. /\ d.services = q /\ d.environments = c.environments /\ d.name = c.name
      /\ d.hierarchy = c.hierarchy
  BY <1>1
<1> QED BY <1>1, <1>2 DEF IsForm

(* Every target of a form is changed in its place. *)
ChangedLists(c, T) ==
  \A i \in 1..Len(c.environments) :
    /\ T[i] = [j \in 1..Len(c.environments[i].targets) |-> T[i][j]]
    /\ \A j \in 1..Len(c.environments[i].targets) : IsTarget(T[i][j])
ChangedFrom(t, c, T) ==
  \E i \in 1..Len(c.environments) : \E j \in 1..Len(c.environments[i].targets) :
    t = T[i][j] /\ c.environments[i].targets[j] \in TargetsIn(c.environments)

LEMMA TargetsChanged ==
  ASSUME NEW c, IsForm(c), NEW T, ChangedLists(c, T), NEW envs, envs = WithAll(c.environments, T)
  PROVE  /\ IsSeq(envs) /\ Len(envs) = Len(c.environments)
         /\ \A e \in Parts(envs) : IsEnvironment(e)
         /\ \A i \in 1..Len(envs) :
              /\ envs[i] = [id |-> c.environments[i].id, name |-> c.environments[i].name, targets |-> T[i]]
              /\ IsSeq(T[i]) /\ Len(T[i]) = Len(c.environments[i].targets)
         /\ \A t \in TargetsIn(envs) : ChangedFrom(t, c, T)
<1> DEFINE old == c.environments
<1>1. \A i \in 1..Len(old) : Len(old[i].targets) \in Nat
  <2>1. \A i \in 1..Len(old) : IsSeq(old[i].targets)
    BY TargetsOfForm DEF IsEnvironment
  <2> QED BY <2>1, SeqParts
<1>2. ASSUME NEW i \in 1..Len(old)
      PROVE  /\ IsSeq(T[i]) /\ Len(T[i]) = Len(old[i].targets)
             /\ \A j \in 1..Len(T[i]) : IsTarget(T[i][j])
  <2>1. T[i] = [j \in 1..Len(old[i].targets) |-> T[i][j]]
    BY DEF ChangedLists
  <2>2. \A j \in 1..Len(old[i].targets) : IsTarget(T[i][j])
    BY DEF ChangedLists
  <2>3. IsSeq(T[i]) /\ Len(T[i]) = Len(old[i].targets)
    BY <1>1, <2>1, FunctionIsSeq
  <2> QED BY <2>2, <2>3
<1>3. /\ IsSeq(envs) /\ Len(envs) = Len(old)
      /\ \A i \in 1..Len(envs) : envs[i] = [id |-> old[i].id, name |-> old[i].name, targets |-> T[i]]
      /\ \A e \in Parts(envs) : IsEnvironment(e)
      /\ \A t \in TargetsIn(envs) : AmongLists(t, T, Len(old))
  <2>1. TargetLists(T, Len(c.environments))
    BY <1>2 DEF TargetLists
  <2>2. IsForm(c) /\ envs = WithAll(c.environments, T)
    OBVIOUS
  <2> QED BY ONLY <2>1, <2>2, WithAllParts
<1>4. \A i \in 1..Len(old) : \A j \in 1..Len(old[i].targets) : old[i].targets[j] \in TargetsIn(old)
  BY TargetsOfForm
<1> QED BY <1>2, <1>3, <1>4 DEF AmongLists, ChangedFrom

(* What is put in the form. *)
LEMMA RecallKeeps ==
  ASSUME NEW c, NEW m, Ready(c, m), NEW d, d = Recall(c)
  PROVE  Good(d, m)
<1> DEFINE told    == Told(c.services)
           Less(t) == [t EXCEPT !.ticked = @ \cap told,
                                !.overrides = {[o EXCEPT !.of = @ \cap told] : o \in @}]
           old     == c.environments
           T       == [i \in DOMAIN old |-> [j \in DOMAIN old[i].targets |-> Less(old[i].targets[j])]]
           envs    == WithAll(old, T)
<1>1. d = [c EXCEPT !.environments = envs]
  BY DEF Recall, MapTargets, WithAll
<1>2. IsForm(c)
  BY DEF Ready
<1>3. /\ DOMAIN old = 1..Len(old) /\ Len(old) \in Nat
      /\ \A i \in 1..Len(old) : /\ DOMAIN old[i].targets = 1..Len(old[i].targets)
                                /\ Len(old[i].targets) \in Nat
      /\ \A i \in 1..Len(old) : \A j \in 1..Len(old[i].targets) :
            IsTarget(old[i].targets[j]) /\ old[i].targets[j] \in TargetsIn(old)
  <2>1. IsSeq(old) /\ \A i \in 1..Len(old) : IsSeq(old[i].targets)
    BY <1>2, TargetsOfForm DEF IsEnvironment, IsForm
  <2> QED BY <1>2, <2>1, SeqParts, TargetsOfForm
<1>4. ASSUME NEW t, IsTarget(t)
      PROVE  LET k == Less(t)
             IN  /\ IsTarget(k) /\ k.names = t.names /\ k.ticked = t.ticked \cap told
                 /\ k.overrides = {[o EXCEPT !.of = @ \cap told] : o \in t.overrides}
                 /\ \A o \in k.overrides : \E x \in t.overrides : o.name = x.name /\ o.of = x.of \cap told
  <2> DEFINE new == {[o EXCEPT !.of = @ \cap told] : o \in t.overrides}
  <2>1. \A o \in t.overrides : IsOverride(o)
    BY <1>4 DEF IsTarget
  <2>2. ASSUME NEW o \in t.overrides
        PROVE  LET n == [o EXCEPT !.of = @ \cap told]
               IN  IsOverride(n) /\ n.name = o.name /\ n.of = o.of \cap told
    <3> HIDE DEF told
    <3>1. o = [name |-> o.name, fields |-> o.fields, of |-> o.of]
      BY <2>1 DEF IsOverride
    <3> QED BY <3>1 DEF IsOverride
  <2>3. t = [id |-> t.id, name |-> t.name, type |-> t.type, profile |-> t.profile, address |-> t.address,
             login |-> t.login, names |-> t.names, overrides |-> t.overrides, ticked |-> t.ticked]
    BY <1>4 DEF IsTarget
  <2>4. Less(t) = [id |-> t.id, name |-> t.name, type |-> t.type, profile |-> t.profile, address |-> t.address,
                   login |-> t.login, names |-> t.names, overrides |-> new, ticked |-> t.ticked \cap told]
    <3> HIDE DEF told
    <3>1. Less(t) = [t EXCEPT !.ticked = t.ticked \cap told, !.overrides = new]
      BY <2>3
    <3> HIDE DEF new, Less
    <3> QED BY <2>3, <3>1
  <2> DEFINE k == Less(t)
  <2> HIDE DEF k, new, told
  <2>5. k.names = t.names /\ k.ticked = t.ticked \cap told /\ k.overrides = new
    BY <2>4 DEF k
  <2>6. \A o \in new : IsOverride(o) /\ \E x \in t.overrides : o.name = x.name /\ o.of = x.of \cap told
    BY <2>2 DEF new
  <2>7. IsTarget(k)
    <3>1. k = [id |-> k.id, name |-> k.name, type |-> k.type, profile |-> k.profile, address |-> k.address,
               login |-> k.login, names |-> k.names, overrides |-> k.overrides, ticked |-> k.ticked]
      BY <2>4 DEF k
    <3>2. IsSeq(t.names)
      BY <1>4 DEF IsTarget
    <3> QED BY <2>5, <2>6, <3>1, <3>2 DEF IsTarget
  <2> QED BY <2>5, <2>6, <2>7 DEF k, new
<1> HIDE DEF told, Less
<1>5. \A i \in 1..Len(old) : \A j \in 1..Len(old[i].targets) : T[i][j] = Less(old[i].targets[j])
  BY <1>3
<1>6. ChangedLists(c, T)
  <2>1. \A i \in 1..Len(old) : T[i] = [j \in 1..Len(old[i].targets) |-> T[i][j]]
    BY <1>3
  <2>2. \A i \in 1..Len(old) : \A j \in 1..Len(old[i].targets) : IsTarget(T[i][j])
    BY <1>3, <1>4, <1>5
  <2> QED BY <2>1, <2>2 DEF ChangedLists
<1> HIDE DEF T, envs
<1>7. /\ IsSeq(envs) /\ Len(envs) = Len(old) /\ \A e \in Parts(envs) : IsEnvironment(e)
      /\ \A t \in TargetsIn(envs) : ChangedFrom(t, c, T)
  BY <1>2, <1>6, TargetsChanged DEF envs
<1>8. IsForm(d) /\ d.services = c.services /\ d.environments = envs
  BY <1>1, <1>2, <1>7, WithEnvironments
<1>9. ASSUME NEW t \in TargetsIn(envs)
      PROVE  \E x \in TargetsIn(old) : IsTarget(x) /\ t = Less(x)
  BY <1>3, <1>5, <1>7 DEF ChangedFrom
<1>10. ASSUME NEW t \in TargetsIn(envs)
       PROVE  Links(t, c.services) /\ ToldOnly(t, c.services) /\ (m = "service" => Bare(t))
  <2>1. PICK x \in TargetsIn(old) : IsTarget(x) /\ t = Less(x)
    BY <1>9
  <2>2. /\ t.names = x.names /\ t.ticked = x.ticked \cap told
        /\ t.overrides = {[o EXCEPT !.of = @ \cap told] : o \in x.overrides}
        /\ \A o \in t.overrides : \E y \in x.overrides : o.name = y.name /\ o.of = y.of \cap told
    BY <1>4, <2>1
  <2>3. Links(x, c.services)
    BY DEF Ready
  <2>4. Links(t, c.services)
    BY <2>2, <2>3 DEF Links
  <2>5. ToldOnly(t, c.services)
    BY <2>2 DEF ToldOnly, told
  <2>6. m = "service" => Bare(t)
    <3>1. m = "service" => Bare(x)
      BY DEF Ready, Suits
    <3> QED BY <2>2, <3>1 DEF Bare
  <2> QED BY <2>4, <2>5, <2>6
<1>11. Suits(d, m)
  <2>1. m # "workspace" => Len(old) \in {0, 1}
    BY DEF Ready, Suits
  <2> QED BY <1>7, <1>8, <1>10, <2>1 DEF Suits
<1> QED BY <1>8, <1>10, <1>11 DEF Good, Ready

IdsOf(q) == {x.id : x \in Parts(q)}

LEMMA AppendApart ==
  ASSUME NEW q, IsSeq(q), Apart(q), NEW x, x.id \notin IdsOf(q)
  PROVE  Apart(Append(q, x))
<1> DEFINE r == Append(q, x)
<1>1. Len(q) \in Nat /\ Len(r) = Len(q) + 1 /\ r[Len(q) + 1] = x /\ \A i \in 1..Len(q) : r[i] = q[i]
  BY SeqParts, AppendParts
<1> HIDE DEF r
<1>2. SUFFICES ASSUME NEW i \in 1..Len(r), NEW j \in 1..Len(r), r[i].id = r[j].id PROVE i = j
  BY DEF Apart, r
<1>3. \A k \in 1..Len(q) : r[k].id # x.id
  BY <1>1 DEF IdsOf, Parts
<1>4. \A k \in 1..Len(r) : k \in 1..Len(q) \/ k = Len(q) + 1
  BY <1>1
<1>5. CASE i \in 1..Len(q) /\ j \in 1..Len(q)
  BY <1>1, <1>2, <1>5 DEF Apart
<1> QED BY <1>1, <1>2, <1>3, <1>4, <1>5

LEMMA InsertApart ==
  ASSUME NEW q, IsSeq(q), Apart(q), NEW k \in 1..Len(q), NEW x, x.id \notin IdsOf(q)
  PROVE  Apart(InsertAt(q, k + 1, x))
<1> DEFINE r == InsertAt(q, k + 1, x)
<1>1. /\ Len(q) \in Nat /\ Len(r) = Len(q) + 1
      /\ \A i \in 1..(Len(q) + 1) : r[i] = IF i <= k THEN q[i] ELSE IF i = k + 1 THEN x ELSE q[i - 1]
  BY SeqParts, InsertParts
<1> HIDE DEF r
<1>2. SUFFICES ASSUME NEW i \in 1..Len(r), NEW j \in 1..Len(r), r[i].id = r[j].id PROVE i = j
  BY DEF Apart, r
<1> DEFINE Was(h) == IF h <= k THEN h ELSE h - 1
<1>3. \A h \in 1..Len(r) : h # k + 1 => Was(h) \in 1..Len(q) /\ r[h] = q[Was(h)]
  <2> SUFFICES ASSUME NEW h \in 1..Len(r), h # k + 1 PROVE Was(h) \in 1..Len(q) /\ r[h] = q[Was(h)]
    OBVIOUS
  <2>1. CASE h <= k
    BY <1>1, <2>1
  <2>2. CASE ~(h <= k)
    <3>1. h - 1 \in 1..Len(q)
      BY <1>1, <2>2
    <3> QED BY <1>1, <2>2, <3>1
  <2> QED BY <2>1, <2>2
<1>4. r[k + 1] = x
  <2>1. k + 1 \in 1..(Len(q) + 1) /\ ~(k + 1 <= k)
    BY <1>1
  <2> QED BY <1>1, <2>1
<1>5. \A h \in 1..Len(r) : h # k + 1 => r[h].id # x.id
  BY <1>3 DEF IdsOf, Parts
<1>6. CASE i = k + 1 \/ j = k + 1
  BY <1>2, <1>4, <1>5, <1>6
<1>7. CASE i # k + 1 /\ j # k + 1
  <2>1. Was(i) = Was(j)
    <3> HIDE DEF Was
    <3> QED BY <1>2, <1>3, <1>7 DEF Apart
  <2>2. i \in Int /\ j \in Int /\ k \in Int
    BY <1>1
  <2> QED BY <1>7, <2>1, <2>2
<1> QED BY <1>6, <1>7

(* Services come and go. *)
LEMMA OtherServices ==
  ASSUME NEW c, NEW m, Good(c, m), NEW q, IsSeq(q), Apart(q),
         \A s \in Parts(q) : IsService(s) /\ (s \in Parts(c.services) \/ s.id \notin IdsOf(c.services)),
         NEW d, d = [c EXCEPT !.services = q]
  PROVE  Ready(d, m)
<1>1. IsForm(c) /\ Apart(c.services) /\ IsSeq(c.services)
  BY DEF Good, Ready, IsForm
<1>2. IsForm(d) /\ d.services = q /\ d.environments = c.environments
  BY <1>1, WithServices
<1>3. Suits(d, m)
  BY <1>2 DEF Suits, Good, Ready
<1>4. ASSUME NEW t \in TargetsIn(c.environments) PROVE Links(t, q)
  <2>1. Links(t, c.services) /\ ToldOnly(t, c.services)
    BY DEF Good, Ready
  <2>2. Told(c.services) \subseteq IdsOf(c.services)
    BY <1>1, ToldAre DEF IdsOf
  <2>3. ASSUME NEW s \in Parts(q), s.id \in Told(c.services) PROVE s \in Parts(c.services)
    BY <2>2, <2>3
  <2>4. ASSUME NEW s \in Parts(q), s.id \in t.ticked PROVE s.name \in Parts(t.names)
    BY <2>1, <2>3, <2>4 DEF Links, ToldOnly
  <2>5. ASSUME NEW s \in Parts(q), NEW o \in t.overrides, s.id \in o.of PROVE o.name = s.name
    BY <2>1, <2>3, <2>5 DEF Links, ToldOnly
  <2> QED BY <2>4, <2>5 DEF Links
<1> QED BY <1>2, <1>3, <1>4 DEF Ready

FreshService == Fresh(ServiceIds)

LEMMA FreshServiceIsFree ==
  ASSUME IsForm(config), IsSeq(filling)
  PROVE  FreshService \notin IdsOf(config.services) /\ IsFiniteSet(ServiceIds)
         /\ IdsOf(config.services) \subseteq ServiceIds
<1>1. IsSeq(config.services) /\ ToSet(config.services) = Parts(config.services)
  BY SeqParts DEF IsForm
<1>2. IsFiniteSet(IdsOf(config.services))
  BY <1>1, IdsFinite DEF IdsOf
<1> DEFINE late == {s.id : s \in ToSet(filling)}
<1>3. IsFiniteSet(late)
  BY IdsFinite, SeqParts
<1>4. ServiceIds = IdsOf(config.services) \cup late
  BY <1>1 DEF ServiceIds, IdsOf
<1> HIDE DEF late
<1>5. IsFiniteSet(ServiceIds)
  BY <1>2, <1>3, <1>4, FS_Union
<1>6. FreshService \notin ServiceIds
  BY <1>5, FreshIsFree DEF FreshService
<1> QED BY <1>4, <1>5, <1>6

LEMMA NewServiceIs ==
  ASSUME NEW id
  PROVE  IsService(NewService(id)) /\ NewService(id).id = id
BY DEF IsService, NewService

(* addService, removeService and cloneService. *)
LEMMA AddServiceReady ==
  ASSUME Good(config, mode), IsSeq(filling),
         NEW d, d = [config EXCEPT !.services = Append(@, NewService(FreshService))]
  PROVE  Ready(d, mode)
<1> DEFINE q == config.services
           x == NewService(FreshService)
           r == Append(q, x)
<1>1. IsForm(config) /\ Apart(q) /\ IsSeq(q) /\ \A s \in Parts(q) : IsService(s)
  BY DEF Good, Ready, IsForm
<1>2. IsService(x) /\ x.id \notin IdsOf(q)
  BY <1>1, NewServiceIs, FreshServiceIsFree
<1> HIDE DEF x, q
<1>3. IsSeq(r) /\ Parts(r) = Parts(q) \cup {x} /\ Apart(r)
  BY <1>1, <1>2, AppendParts, AppendApart
<1>4. d = [config EXCEPT !.services = r]
  BY <1>1 DEF IsForm, q, x
<1> HIDE DEF r
<1>5. \A s \in Parts(r) : IsService(s) /\ (s \in Parts(config.services) \/ s.id \notin IdsOf(config.services))
  BY <1>1, <1>2, <1>3 DEF q
<1> QED BY <1>3, <1>4, <1>5, OtherServices

LEMMA RemoveServiceReady ==
  ASSUME Good(config, mode), NEW s, NEW d, d = [config EXCEPT !.services = LeaveOut(@, {s})]
  PROVE  Ready(d, mode)
<1> DEFINE q == config.services
           r == LeaveOut(q, {s})
<1>1. IsForm(config) /\ Apart(q) /\ IsSeq(q) /\ \A x \in Parts(q) : IsService(x)
  BY DEF Good, Ready, IsForm
<1>2. IsSeq(r) /\ Parts(r) \subseteq Parts(q) /\ Apart(r)
  BY <1>1, LeaveOutParts
<1>3. d = [config EXCEPT !.services = r]
  BY <1>1 DEF IsForm
<1> HIDE DEF r
<1>4. \A x \in Parts(r) : IsService(x) /\ (x \in Parts(config.services) \/ x.id \notin IdsOf(config.services))
  BY <1>1, <1>2
<1> QED BY <1>2, <1>3, <1>4, OtherServices

LEMMA CopyOfService ==
  ASSUME NEW s, IsService(s), NEW id, NEW name
  PROVE  LET x == [s EXCEPT !.id = id, !.name = name] IN IsService(x) /\ x.id = id
<1> DEFINE x == [s EXCEPT !.id = id, !.name = name]
<1>1. s = [id |-> s.id, name |-> s.name, provider |-> s.provider, resource |-> s.resource,
           own |-> s.own, conn |-> s.conn]
  BY DEF IsService
<1>2. x = [id |-> id, name |-> name, provider |-> s.provider, resource |-> s.resource,
           own |-> s.own, conn |-> s.conn]
  <2>1. DOMAIN s = {"id", "name", "provider", "resource", "own", "conn"}
    BY <1>1
  <2>2. x = [f \in {"id", "name", "provider", "resource", "own", "conn"} |->
               IF f = "id" THEN id ELSE IF f = "name" THEN name ELSE s[f]]
    BY <2>1
  <2> HIDE DEF x
  <2> QED BY <2>2
<1>3. IsService(x) /\ x.id = id
  <2> HIDE DEF x
  <2> QED BY <1>2 DEF IsService
<1> QED BY <1>3

LEMMA CloneServiceReady ==
  ASSUME Good(config, mode), IsSeq(filling), NEW s \in Parts(config.services), NEW name,
         NEW d, d = [config EXCEPT !.services = InsertAt(@, At(@, s.id) + 1,
                                                  [s EXCEPT !.id = FreshService, !.name = name])]
  PROVE  Ready(d, mode)
<1> DEFINE q == config.services
           x == [s EXCEPT !.id = FreshService, !.name = name]
           k == At(q, s.id)
           r == InsertAt(q, k + 1, x)
<1>1. IsForm(config) /\ Apart(q) /\ IsSeq(q) /\ \A y \in Parts(q) : IsService(y)
  BY DEF Good, Ready, IsForm
<1>2. IsService(x) /\ x.id \notin IdsOf(q)
  <2>1. FreshService \notin IdsOf(q)
    BY <1>1, FreshServiceIsFree
  <2>2. IsService(x) /\ x.id = FreshService
    BY <1>1, CopyOfService
  <2> QED BY <2>1, <2>2
<1>3. k \in 1..Len(q)
  BY <1>1, AtFinds
<1>4. d = [config EXCEPT !.services = r]
  BY <1>1 DEF IsForm
<1> HIDE DEF x, q, k
<1>5. IsSeq(r) /\ Parts(r) = Parts(q) \cup {x} /\ Apart(r)
  BY <1>1, <1>2, <1>3, InsertParts, InsertApart
<1> HIDE DEF r
<1>6. \A y \in Parts(r) : IsService(y) /\ (y \in Parts(config.services) \/ y.id \notin IdsOf(config.services))
  BY <1>1, <1>2, <1>5 DEF q
<1> QED BY <1>4, <1>5, <1>6, OtherServices

(* updateService: what refers to the service by its old name gets the new. *)
LEMMA ServiceUpdatedReady ==
  ASSUME NEW c, NEW m, Good(c, m), NEW x \in Parts(c.services), NEW svc, IsService(svc), svc.id = x.id,
         NEW d, d = ServiceUpdated(c, x.id, svc)
  PROVE  Ready(d, m)
<1> DEFINE q      == c.services
           k      == At(q, x.id)
           r      == [q EXCEPT ![k] = svc]
           old    == q[k].name
           New(n) == IF n = old THEN svc.name ELSE n
           Renamed(t) == [t EXCEPT !.names = [i \in DOMAIN @ |-> New(@[i])],
                                   !.overrides = {[o EXCEPT !.name = New(@)] : o \in @}]
           had    == c.environments
           T      == [i \in DOMAIN had |-> [j \in DOMAIN had[i].targets |-> Renamed(had[i].targets[j])]]
           moved  == old # NoName /\ old # svc.name
           envs   == IF moved THEN WithAll(had, T) ELSE had
<1>1. /\ IsForm(c) /\ Apart(q) /\ IsSeq(q) /\ (\A s \in Parts(q) : IsService(s)) /\ IsSeq(had)
      /\ \A e \in Parts(had) : IsEnvironment(e)
  BY DEF Good, Ready, IsForm
<1>2. k \in 1..Len(q) /\ q[k] = x /\ old = x.name
  BY <1>1, AtFinds
<1>3. d = [name |-> c.name, hierarchy |-> c.hierarchy, services |-> r, environments |-> envs]
  <2>1. d = [c EXCEPT !.services[k] = svc, !.environments = IF moved THEN MapTargets(@, Renamed) ELSE @]
    BY DEF ServiceUpdated
  <2>2. DOMAIN c = {"name", "hierarchy", "services", "environments"}
    BY <1>1 DEF IsForm
  <2>3. MapTargets(had, Renamed) = WithAll(had, T)
    BY DEF MapTargets, WithAll
  <2>4. d = [c EXCEPT !.services = r, !.environments = envs]
    <3>2. envs = IF moved THEN MapTargets(c.environments, Renamed) ELSE c.environments
      BY <2>3
    <3> HIDE DEF k, moved, Renamed, T, envs
    <3>1. d = [c EXCEPT !.services = [c.services EXCEPT ![k] = svc],
                        !.environments = IF moved THEN MapTargets(c.environments, Renamed) ELSE c.environments]
      BY ONLY <2>1
    <3> QED BY ONLY <3>1, <3>2 DEF r
  <2> HIDE DEF k, r, envs
  <2> QED BY <2>2, <2>4
<1>4. /\ IsSeq(r) /\ Len(r) = Len(q)
      /\ \A i \in 1..Len(q) : r[i] = IF i = k THEN svc ELSE q[i]
  <2> HIDE DEF k, q
  <2>1. IsSeq(q) /\ k \in 1..Len(q)
    BY ONLY <1>1, <1>2
  <2>2. Swapped(r, q, k, svc)
    BY DEF r, Swapped
  <2> HIDE DEF r
  <2> QED BY ONLY <2>1, <2>2, SwappedParts
<1> HIDE DEF r
<1>5. \A s \in Parts(r) : /\ IsService(s)
                          /\ \/ s = svc
                             \/ s \in Parts(q) /\ s # x
  <2> SUFFICES ASSUME NEW i \in 1..Len(q)
               PROVE  IsService(r[i]) /\ (r[i] = svc \/ (r[i] \in Parts(q) /\ r[i] # x))
    BY <1>4 DEF Parts
  <2>1. CASE i = k
    BY <1>4, <2>1
  <2>2. CASE i # k
    <3>1. r[i] = q[i] /\ q[i] \in Parts(q)
      BY <1>4, <2>2 DEF Parts
    <3>2. q[i] # x
      BY <1>1, <1>2, <2>2 DEF Apart
    <3> QED BY <1>1, <3>1, <3>2
  <2> QED BY <2>1, <2>2
<1>6. Apart(r)
  <2>1. \A i \in 1..Len(q) : r[i].id = q[i].id
    BY <1>2, <1>4
  <2> QED BY <1>1, <1>4, <2>1 DEF Apart
<1>7. ASSUME NEW t0, NEW t, IsTarget(t0), Links(t0, q), ToldOnly(t0, q), t.ticked = t0.ticked,
             \A n \in Parts(t0.names) : (IF moved THEN New(n) ELSE n) \in Parts(t.names),
             \A o \in t.overrides : \E o0 \in t0.overrides :
                o.name = (IF moved THEN New(o0.name) ELSE o0.name) /\ o.of = o0.of
      PROVE  Links(t, r)
  <2> DEFINE To(n) == IF moved THEN New(n) ELSE n
  <2>1. /\ \A n \in Parts(t0.names) : To(n) \in Parts(t.names)
        /\ \A o \in t.overrides : \E o0 \in t0.overrides : o.name = To(o0.name) /\ o.of = o0.of
    BY <1>7
  <2>2. ASSUME NEW s \in Parts(r), s.id \in Told(q)
        PROVE  \E s0 \in Parts(q) : s0.id = s.id /\ s0.id \in Told(q) /\ To(s0.name) = s.name
    <3>1. \A y \in Parts(q) : y.id \in Told(q)
             <=> y.name # NoName /\ \A z \in Parts(q) : z.name = y.name => z = y
      BY <1>1, ToldAre
    <3>2. CASE s = svc
      <4>1. x \in Parts(q) /\ x.id = s.id /\ x.name # NoName
        BY <2>2, <3>1, <3>2
      <4>2. To(x.name) = svc.name
        BY <1>2, <4>1
      <4> QED BY <2>2, <3>2, <4>1, <4>2
    <3>3. CASE s \in Parts(q) /\ s # x
      <4>1. x.name # s.name
        BY <2>2, <3>1, <3>3
      <4>2. To(s.name) = s.name
        BY <1>2, <4>1
      <4> QED BY <2>2, <3>3, <4>2
    <3> QED BY <1>5, <3>2, <3>3
  <2> HIDE DEF To
  <2>3. ASSUME NEW s \in Parts(r), s.id \in t.ticked PROVE s.name \in Parts(t.names)
    <3>1. s.id \in Told(q) /\ s.id \in t0.ticked
      BY <1>7, <2>3 DEF ToldOnly
    <3>2. PICK s0 \in Parts(q) : s0.id = s.id /\ s0.id \in Told(q) /\ To(s0.name) = s.name
      BY <2>2, <3>1
    <3>3. s0.name \in Parts(t0.names)
      BY <1>7, <3>1, <3>2 DEF Links
    <3> QED BY <2>1, <3>2, <3>3
  <2>4. ASSUME NEW s \in Parts(r), NEW o \in t.overrides, s.id \in o.of PROVE o.name = s.name
    <3>1. PICK o0 \in t0.overrides : o.name = To(o0.name) /\ o.of = o0.of
      BY <2>1
    <3>2. s.id \in Told(q)
      BY <1>7, <2>4, <3>1 DEF ToldOnly
    <3>3. PICK s0 \in Parts(q) : s0.id = s.id /\ s0.id \in Told(q) /\ To(s0.name) = s.name
      BY <2>2, <3>2
    <3>4. o0.name = s0.name
      BY <1>7, <2>4, <3>1, <3>3 DEF Links
    <3> QED BY <3>1, <3>3, <3>4
  <2> QED BY <2>3, <2>4 DEF Links
<1>8. ASSUME NEW t, IsTarget(t)
      PROVE  /\ IsTarget(Renamed(t)) /\ Renamed(t).ticked = t.ticked
             /\ \A n \in Parts(t.names) : New(n) \in Parts(Renamed(t).names)
             /\ \A o \in Renamed(t).overrides : \E o0 \in t.overrides : o.name = New(o0.name) /\ o.of = o0.of
             /\ Bare(t) => Bare(Renamed(t))
  <2> DEFINE names == [i \in 1..Len(t.names) |-> New(t.names[i])]
             ovrs  == {[o EXCEPT !.name = New(@)] : o \in t.overrides}
             u     == Renamed(t)
             Fields == {"id", "name", "type", "profile", "address", "login", "names", "overrides", "ticked"}
  <2>1. IsSeq(t.names) /\ Len(t.names) \in Nat /\ DOMAIN t.names = 1..Len(t.names)
        /\ (t.names = <<>> <=> Len(t.names) = 0)
    BY <1>8, SeqParts DEF IsTarget
  <2>2. \A o \in t.overrides : o = [name |-> o.name, fields |-> o.fields, of |-> o.of]
    BY <1>8 DEF IsTarget, IsOverride
  <2>3. DOMAIN t = Fields
    BY <1>8 DEF IsTarget
  <2> HIDE DEF New
  <2>4. IsSeq(names) /\ Len(names) = Len(t.names)
    <3>1. names = [i \in 1..Len(t.names) |-> names[i]]
      OBVIOUS
    <3> HIDE DEF names
    <3> QED BY <2>1, <3>1, FunctionIsSeq
  <2>5. \A n \in Parts(t.names) : New(n) \in Parts(names)
    <3>1. \A i \in 1..Len(t.names) : names[i] = New(t.names[i])
      OBVIOUS
    <3> HIDE DEF names
    <3> QED BY <2>4, <3>1 DEF Parts
  <2>6. \A o \in ovrs : IsOverride(o) /\ \E o0 \in t.overrides : o.name = New(o0.name) /\ o.of = o0.of
    <3> SUFFICES ASSUME NEW o0 \in t.overrides
                 PROVE  LET o == [o0 EXCEPT !.name = New(@)]
                        IN  IsOverride(o) /\ o.name = New(o0.name) /\ o.of = o0.of
      OBVIOUS
    <3> QED BY <2>2 DEF IsOverride
  <2>7. u = [t EXCEPT !.names = names, !.overrides = ovrs]
    BY <2>1, <2>3
  <2> HIDE DEF names, ovrs, Renamed
  <2>8. u = [f \in Fields |-> IF f = "names" THEN names ELSE IF f = "overrides" THEN ovrs ELSE t[f]]
    BY <2>3, <2>7
  <2> HIDE DEF u
  <2>9. u.names = names /\ u.overrides = ovrs /\ u.ticked = t.ticked
    BY <2>8
  <2>10. u = [id |-> u.id, name |-> u.name, type |-> u.type, profile |-> u.profile, address |-> u.address,
              login |-> u.login, names |-> u.names, overrides |-> u.overrides, ticked |-> u.ticked]
    BY <2>8
  <2>11. IsTarget(u)
    BY <2>4, <2>6, <2>9, <2>10 DEF IsTarget
  <2>12. Bare(t) => Bare(u)
    <3> SUFFICES ASSUME Bare(t) PROVE Bare(u)
      OBVIOUS
    <3>1. ovrs = {} /\ Len(names) = 0
      BY <2>1, <2>4 DEF Bare, ovrs
    <3>2. names = <<>>
      BY <2>4, <3>1, SeqParts
    <3> QED BY <2>9, <3>1, <3>2 DEF Bare
  <2> QED BY <2>5, <2>6, <2>9, <2>11, <2>12 DEF u
<1> HIDE DEF New, Renamed
<1>9. /\ IsSeq(envs) /\ Len(envs) = Len(had) /\ \A e \in Parts(envs) : IsEnvironment(e)
      /\ \A t \in TargetsIn(envs) : \E t0 \in TargetsIn(had) :
            IsTarget(t0) /\ t = (IF moved THEN Renamed(t0) ELSE t0)
  <2>1. CASE moved
    <3>1. /\ DOMAIN had = 1..Len(had)
          /\ \A i \in 1..Len(had) : DOMAIN had[i].targets = 1..Len(had[i].targets)
          /\ \A i \in 1..Len(had) : \A j \in 1..Len(had[i].targets) :
                IsTarget(had[i].targets[j]) /\ had[i].targets[j] \in TargetsIn(had)
      <4>1. IsSeq(had) /\ \A i \in 1..Len(had) : IsSeq(had[i].targets)
        BY <1>1, TargetsOfForm DEF IsEnvironment, IsForm
      <4> QED BY <1>1, <4>1, SeqParts, TargetsOfForm
    <3>2. \A i \in 1..Len(had) : \A j \in 1..Len(had[i].targets) : T[i][j] = Renamed(had[i].targets[j])
      BY <3>1
    <3>3. \A i \in 1..Len(had) : T[i] = [j \in 1..Len(had[i].targets) |-> T[i][j]]
      <4> SUFFICES ASSUME NEW i \in 1..Len(had) PROVE T[i] = [j \in 1..Len(had[i].targets) |-> T[i][j]]
        OBVIOUS
      <4>1. T[i] = [j \in 1..Len(had[i].targets) |-> Renamed(had[i].targets[j])]
        BY <3>1
      <4> HIDE DEF T, had
      <4> QED BY ONLY <4>1
    <3>4. ChangedLists(c, T)
      <4> HIDE DEF T
      <4>1. \A i \in 1..Len(had) : \A j \in 1..Len(had[i].targets) : IsTarget(T[i][j])
        <5> HIDE DEF had
        <5> QED BY ONLY <1>8, <3>1, <3>2
      <4> QED BY ONLY <3>3, <4>1 DEF ChangedLists, had
    <3> DEFINE new == WithAll(had, T)
    <3>5. envs = new
      BY <2>1
    <3> HIDE DEF T
    <3>6. /\ IsSeq(new) /\ Len(new) = Len(had) /\ \A e \in Parts(new) : IsEnvironment(e)
          /\ \A t \in TargetsIn(new) : ChangedFrom(t, c, T)
      BY <1>1, <3>4, TargetsChanged
    <3> HIDE DEF envs, new
    <3> QED BY <2>1, <3>1, <3>2, <3>5, <3>6 DEF ChangedFrom
  <2>2. CASE ~moved
    <3>1. envs = had
      BY <2>2
    <3>2. \A t \in TargetsIn(had) : IsTarget(t)
      BY <1>1, TargetsOfForm
    <3> HIDE DEF envs
    <3> QED BY <1>1, <2>2, <3>1, <3>2
  <2> QED BY <2>1, <2>2
<1> HIDE DEF envs
<1>10. IsForm(d) /\ d.services = r /\ d.environments = envs
  BY <1>3, <1>4, <1>5, <1>9 DEF IsForm
<1>11. ASSUME NEW t \in TargetsIn(envs) PROVE Links(t, r) /\ (m = "service" => Bare(t))
  <2>1. PICK t0 \in TargetsIn(had) : IsTarget(t0) /\ t = (IF moved THEN Renamed(t0) ELSE t0)
    BY <1>9
  <2>2. Links(t0, q) /\ ToldOnly(t0, q) /\ (m = "service" => Bare(t0))
    BY DEF Good, Ready, Suits
  <2>3. /\ t.ticked = t0.ticked
        /\ \A n \in Parts(t0.names) : (IF moved THEN New(n) ELSE n) \in Parts(t.names)
        /\ \A o \in t.overrides : \E o0 \in t0.overrides :
             o.name = (IF moved THEN New(o0.name) ELSE o0.name) /\ o.of = o0.of
        /\ Bare(t0) => Bare(t)
    <3> HIDE DEF moved
    <3>1. CASE moved
      BY <1>8, <2>1, <3>1
    <3>2. CASE ~moved
      BY <2>1, <3>2
    <3> QED BY <3>1, <3>2
  <2> HIDE DEF moved
  <2> QED BY <1>7, <2>1, <2>2, <2>3
<1>12. Suits(d, m)
  <2>1. m # "workspace" => Len(had) \in {0, 1}
    BY DEF Good, Ready, Suits
  <2> QED BY <1>9, <1>10, <1>11, <2>1 DEF Suits
<1> QED BY <1>6, <1>10, <1>11, <1>12 DEF Ready

Fine(t, q, m) == IsTarget(t) /\ Links(t, q) /\ (m = "service" => Bare(t))
Alike(u, t)   == IsTarget(u) /\ u.names = t.names /\ u.overrides = t.overrides /\ u.ticked = t.ticked
TargetFields  == {"id", "name", "type", "profile", "address", "login", "names", "overrides", "ticked"}

LEMMA FineTargets ==
  ASSUME NEW c, NEW m, Good(c, m)
  PROVE  \A t \in TargetsIn(c.environments) : Fine(t, c.services, m) /\ ToldOnly(t, c.services)
<1>1. IsForm(c)
  BY DEF Good, Ready
<1> QED BY <1>1, TargetsOfForm DEF Good, Ready, Suits, Fine

LEMMA AlikeIsFine ==
  ASSUME NEW t, NEW u, NEW q, NEW m, Fine(t, q, m), Alike(u, t)
  PROVE  Fine(u, q, m)
BY DEF Fine, Alike, Links, Bare

LEMMA FieldsOfTarget ==
  ASSUME NEW t
  PROVE  t = [id |-> t.id, name |-> t.name, type |-> t.type, profile |-> t.profile, address |-> t.address,
              login |-> t.login, names |-> t.names, overrides |-> t.overrides, ticked |-> t.ticked]
         <=> t = [f \in TargetFields |-> t[f]]
<1>1. ASSUME t = [id |-> t.id, name |-> t.name, type |-> t.type, profile |-> t.profile, address |-> t.address,
                  login |-> t.login, names |-> t.names, overrides |-> t.overrides, ticked |-> t.ticked]
      PROVE  t = [f \in TargetFields |-> t[f]]
  BY <1>1 DEF TargetFields
<1>2. ASSUME t = [f \in TargetFields |-> t[f]]
      PROVE  t = [id |-> t.id, name |-> t.name, type |-> t.type, profile |-> t.profile, address |-> t.address,
                  login |-> t.login, names |-> t.names, overrides |-> t.overrides, ticked |-> t.ticked]
  BY <1>2 DEF TargetFields
<1> QED BY <1>1, <1>2

LEMMA IsTargetFields ==
  ASSUME NEW t
  PROVE  IsTarget(t) <=> /\ t = [f \in TargetFields |-> t[f]]
                         /\ IsSeq(t.names) /\ \A o \in t.overrides : IsOverride(o)
BY FieldsOfTarget DEF IsTarget

(* The fields of a card leave the links as they are. *)
LEMMA CardAlike ==
  ASSUME NEW t, IsTarget(t), NEW u, DOMAIN u = DOMAIN t, u = [f \in DOMAIN u |-> u[f]],
         u.names = t.names, u.overrides = t.overrides, u.ticked = t.ticked
  PROVE  Alike(u, t)
<1>1. t = [f \in TargetFields |-> t[f]] /\ IsSeq(t.names) /\ \A o \in t.overrides : IsOverride(o)
  BY IsTargetFields
<1>2. DOMAIN t = TargetFields
  BY <1>1
<1>3. u = [f \in TargetFields |-> u[f]]
  BY <1>2
<1>4. IsTarget(u)
  BY <1>1, <1>3, IsTargetFields
<1> QED BY <1>4 DEF Alike

LEMMA AlikeAgain ==
  ASSUME NEW t, NEW u, NEW v, Alike(u, t), Alike(v, u)
  PROVE  Alike(v, t)
BY DEF Alike

LEMMA ProfileAlike ==
  ASSUME NEW t, IsTarget(t), NEW p
  PROVE  Alike(WithProfile(t, p), t)
<1> DEFINE u == WithProfile(t, p)
<1>1. DOMAIN t = TargetFields
  BY IsTargetFields
<1>2. /\ DOMAIN u = DOMAIN t /\ u = [f \in DOMAIN u |-> u[f]]
      /\ u.names = t.names /\ u.overrides = t.overrides /\ u.ticked = t.ticked
  BY <1>1 DEF WithProfile, TargetFields
<1> HIDE DEF u
<1>3. Alike(u, t)
  BY <1>2, CardAlike
<1> QED BY <1>3 DEF u

LEMMA SelfAlike ==
  ASSUME NEW t, IsTarget(t) PROVE Alike(t, t)
BY DEF Alike

LEMMA AutoAlike ==
  ASSUME NEW t, IsTarget(t)
  PROVE  Alike(AutoSelected(t), t)
BY ProfileAlike, SelfAlike DEF AutoSelected

(* A name, a type, an address, a login and a profile. *)
LEMMA FieldsAlike ==
  ASSUME NEW t, IsTarget(t), NEW u \in FieldsOf(t)
  PROVE  Alike(u, t)
<1>1. DOMAIN t = TargetFields
  BY IsTargetFields
<1>2. ASSUME NEW n PROVE Alike([t EXCEPT !.name = n], t)
  <2> DEFINE v == [t EXCEPT !.name = n]
  <2>1. /\ DOMAIN v = DOMAIN t /\ v = [f \in DOMAIN v |-> v[f]]
        /\ v.names = t.names /\ v.overrides = t.overrides /\ v.ticked = t.ticked
    BY <1>1 DEF TargetFields
  <2> HIDE DEF v
  <2>2. Alike(v, t)
    BY <2>1, CardAlike
  <2> QED BY <2>2 DEF v
<1>3. ASSUME NEW type PROVE Alike(Retyped(t, type), t)
  <2> DEFINE v == [t EXCEPT !.type = type, !.address = FALSE, !.login = {}, !.profile = NoProfile]
  <2>1. /\ DOMAIN v = DOMAIN t /\ v = [f \in DOMAIN v |-> v[f]]
        /\ v.names = t.names /\ v.overrides = t.overrides /\ v.ticked = t.ticked
    BY <1>1 DEF TargetFields
  <2>2. Retyped(t, type) = AutoSelected(v)
    BY DEF Retyped
  <2> HIDE DEF v
  <2>3. Alike(v, t)
    BY <2>1, CardAlike
  <2>4. Alike(AutoSelected(v), v)
    BY <2>3, AutoAlike DEF Alike
  <2> QED BY <2>2, <2>3, <2>4, AlikeAgain
<1>4. Alike([t EXCEPT !.address = ~@], t)
  <2> DEFINE v == [t EXCEPT !.address = ~@]
  <2>1. /\ DOMAIN v = DOMAIN t /\ v = [f \in DOMAIN v |-> v[f]]
        /\ v.names = t.names /\ v.overrides = t.overrides /\ v.ticked = t.ticked
    BY <1>1 DEF TargetFields
  <2> HIDE DEF v
  <2>2. Alike(v, t)
    BY <2>1, CardAlike
  <2> QED BY <2>2 DEF v
<1>5. ASSUME NEW new PROVE Alike([t EXCEPT !.login = new], t)
  <2> DEFINE v == [t EXCEPT !.login = new]
  <2>1. /\ DOMAIN v = DOMAIN t /\ v = [f \in DOMAIN v |-> v[f]]
        /\ v.names = t.names /\ v.overrides = t.overrides /\ v.ticked = t.ticked
    BY <1>1 DEF TargetFields
  <2> HIDE DEF v
  <2>2. Alike(v, t)
    BY <2>1, CardAlike
  <2> QED BY <2>2 DEF v
<1>6. Alike([t EXCEPT !.profile = NoProfile], t)
  <2> DEFINE v == [t EXCEPT !.profile = NoProfile]
  <2>1. /\ DOMAIN v = DOMAIN t /\ v = [f \in DOMAIN v |-> v[f]]
        /\ v.names = t.names /\ v.overrides = t.overrides /\ v.ticked = t.ticked
    BY <1>1 DEF TargetFields
  <2> HIDE DEF v
  <2>2. Alike(v, t)
    BY <2>1, CardAlike
  <2> QED BY <2>2 DEF v
<1>7. \/ \E n : u = [t EXCEPT !.name = n]
      \/ \E type : u = Retyped(t, type)
      \/ u = [t EXCEPT !.address = ~@]
      \/ \E new : u = [t EXCEPT !.login = new]
      \/ \E p : u = WithProfile(t, p)
      \/ u = [t EXCEPT !.profile = NoProfile]
  BY DEF FieldsOf
<1> QED BY <1>2, <1>3, <1>4, <1>5, <1>6, <1>7, ProfileAlike

LEMMA IdsNamedAre ==
  ASSUME NEW q, IsSeq(q), Apart(q), NEW names, NEW s \in Parts(q)
  PROVE  s.id \in IdsNamed(q, names) <=> s.name \in names /\ s.id \in Told(q)
<1>1. ToSet(q) = Parts(q) /\ \A x, y \in Parts(q) : x.id = y.id => x = y
  BY SeqParts, PartsAre
<1>2. IdsNamed(q, names) = {x.id : x \in {y \in Parts(q) : y.name \in names}} \cap Told(q)
  BY <1>1 DEF IdsNamed
<1>3. s.id \in {x.id : x \in {y \in Parts(q) : y.name \in names}} <=> s.name \in names
  BY <1>1
<1> QED BY <1>2, <1>3

(* A service is ticked and unticked. *)
LEMMA TickedFine ==
  ASSUME NEW m, m # "service", Good(config, m), NEW t, IsTarget(t), Links(t, config.services),
         ToldOnly(t, config.services), NEW s \in Parts(config.services)
  PROVE  Fine(Ticked(t, s), config.services, m)
<1> DEFINE q     == config.services
           mine  == IdsNamed(q, {s.name})
           fewer == LeaveOut(t.names, {s.name})
           more  == Append(t.names, s.name)
           off   == [t EXCEPT !.names = fewer, !.ticked = @ \ mine]
           on    == [t EXCEPT !.names = more, !.ticked = @ \cup mine]
<1>1. IsSeq(q) /\ Apart(q)
  BY DEF Good, Ready, IsForm
<1>2. t = [f \in TargetFields |-> t[f]] /\ IsSeq(t.names) /\ \A o \in t.overrides : IsOverride(o)
  BY IsTargetFields
<1>3. /\ IsSeq(fewer) /\ Parts(fewer) = Parts(t.names) \ {s.name}
      /\ IsSeq(more) /\ Parts(more) = Parts(t.names) \cup {s.name}
  BY <1>2, LeaveOutParts, AppendParts
<1>4. \A x \in Parts(q) : x.id \in mine <=> x.name = s.name /\ x.id \in Told(q)
  BY <1>1, IdsNamedAre
<1>5. Ticked(t, s) = (IF s.name \in Parts(t.names) THEN off ELSE on)
  <2>1. ToSet(t.names) = Parts(t.names)
    BY <1>2, SeqParts
  <2> QED BY <2>1 DEF Ticked
<1> HIDE DEF mine, fewer, more
<1>6. /\ off = [f \in TargetFields |-> off[f]] /\ off.names = fewer /\ off.ticked = t.ticked \ mine
      /\ off.overrides = t.overrides
  <2>1. DOMAIN t = TargetFields
    BY <1>2
  <2> QED BY <2>1 DEF TargetFields
<1>7. /\ on = [f \in TargetFields |-> on[f]] /\ on.names = more /\ on.ticked = t.ticked \cup mine
      /\ on.overrides = t.overrides
  <2>1. DOMAIN t = TargetFields
    BY <1>2
  <2> QED BY <2>1 DEF TargetFields
<1> HIDE DEF off, on
<1>8. Fine(off, q, m)
  <2>1. IsTarget(off)
    BY <1>2, <1>3, <1>6, IsTargetFields
  <2>2. ASSUME NEW x \in Parts(q), x.id \in off.ticked PROVE x.name \in Parts(off.names)
    <3>1. x.id \in t.ticked /\ x.id \in Told(q) /\ x.id \notin mine
      BY <1>6, <2>2 DEF ToldOnly
    <3>2. x.name \in Parts(t.names)
      BY <3>1 DEF Links
    <3> QED BY <1>3, <1>4, <1>6, <3>1, <3>2
  <2>3. Links(off, q)
    BY <1>6, <2>2 DEF Links
  <2> QED BY <2>1, <2>3 DEF Fine
<1>9. Fine(on, q, m)
  <2>1. IsTarget(on)
    BY <1>2, <1>3, <1>7, IsTargetFields
  <2>2. ASSUME NEW x \in Parts(q), x.id \in on.ticked, x.id \in Told(q) PROVE x.name \in Parts(on.names)
    <3>1. CASE x.id \in t.ticked
      <4>1. x.name \in Parts(t.names)
        BY <2>2, <3>1 DEF Links
      <4> QED BY <1>3, <1>7, <4>1
    <3>2. CASE x.id \in mine
      BY <1>3, <1>4, <1>7, <3>2
    <3> QED BY <1>7, <2>2, <3>1, <3>2
  <2>3. Links(on, q)
    BY <1>7, <2>2 DEF Links
  <2> QED BY <2>1, <2>3 DEF Fine
<1> QED BY <1>5, <1>8, <1>9

(* What an environment overrides for a service. *)
LEMMA OverriddenFine ==
  ASSUME NEW m, m # "service", Good(config, m), NEW t, IsTarget(t), Links(t, config.services),
         NEW name, NEW field, NEW filled \in BOOLEAN
  PROVE  Fine(Overridden(t, name, field, filled), config.services, m)
<1> DEFINE q    == config.services
           had  == UNION {o.fields : o \in {x \in t.overrides : x.name = name}}
           mine == IdsNamed(q, {name})
           rest == {o \in t.overrides : o.name # name}
           new  == [name |-> name, fields |-> had \cup {field}, of |-> mine]
           ovrs == IF ~filled THEN rest ELSE rest \cup {new}
           u    == [t EXCEPT !.overrides = ovrs]
<1>1. IsSeq(q) /\ Apart(q)
  BY DEF Good, Ready, IsForm
<1>2. t = [f \in TargetFields |-> t[f]] /\ IsSeq(t.names) /\ \A o \in t.overrides : IsOverride(o)
  BY IsTargetFields
<1>3. Overridden(t, name, field, filled) = u
  BY DEF Overridden
<1>4. \A x \in Parts(q) : x.id \in mine => x.name = name
  BY <1>1, IdsNamedAre
<1> HIDE DEF had, mine
<1>5. IsOverride(new) /\ new.name = name /\ new.of = mine
  BY DEF IsOverride
<1> HIDE DEF new
<1>6. \A o \in ovrs : o \in t.overrides \/ o = new
  OBVIOUS
<1> HIDE DEF ovrs
<1>7. /\ u = [f \in TargetFields |-> u[f]] /\ u.names = t.names /\ u.ticked = t.ticked
      /\ u.overrides = ovrs
  <2>1. DOMAIN t = TargetFields
    BY <1>2
  <2> QED BY <2>1 DEF TargetFields
<1> HIDE DEF u
<1>8. IsTarget(u)
  BY <1>2, <1>5, <1>6, <1>7, IsTargetFields
<1>9. Links(u, q)
  <2>1. ASSUME NEW x \in Parts(q), x.id \in Told(q), NEW o \in u.overrides, x.id \in o.of
        PROVE  o.name = x.name
    <3>1. CASE o \in t.overrides
      BY <2>1, <3>1 DEF Links
    <3>2. CASE o = new
      BY <1>4, <1>5, <2>1, <3>2
    <3> QED BY <1>6, <1>7, <3>1, <3>2
  <2>2. \A x \in Parts(q) : x.id \in Told(q) /\ x.id \in u.ticked => x.name \in Parts(u.names)
    BY <1>7 DEF Links
  <2> QED BY <2>1, <2>2 DEF Links
<1> QED BY <1>3, <1>8, <1>9 DEF Fine

(* Environments come and go, and so do the targets of one. *)
LEMMA OtherEnvironments ==
  ASSUME NEW c, NEW m, Good(c, m), NEW envs, IsSeq(envs), \A e \in Parts(envs) : IsEnvironment(e),
         m # "workspace" => Len(envs) \in {0, 1},
         \A t \in TargetsIn(envs) : Fine(t, c.services, m),
         NEW d, d = [c EXCEPT !.environments = envs]
  PROVE  Ready(d, m)
<1>1. IsForm(c) /\ Apart(c.services)
  BY DEF Good, Ready
<1>2. IsForm(d) /\ d.services = c.services /\ d.environments = envs
  BY <1>1, WithEnvironments
<1> QED BY <1>1, <1>2 DEF Ready, Suits, Fine

LEMMA OtherTargets ==
  ASSUME NEW c, NEW m, Good(c, m), NEW k \in 1..Len(c.environments), NEW targets, IsSeq(targets),
         \A t \in Parts(targets) : Fine(t, c.services, m),
         NEW d, d = [c EXCEPT !.environments[k].targets = targets]
  PROVE  Ready(d, m)
<1> DEFINE had  == c.environments
           e    == [had[k] EXCEPT !.targets = targets]
           envs == [had EXCEPT ![k] = e]
<1>1. IsForm(c) /\ IsSeq(had) /\ (\A i \in 1..Len(had) : IsEnvironment(had[i])) /\ Len(had) \in Nat
      /\ DOMAIN had = 1..Len(had)
  BY SeqParts, TargetsOfForm DEF Good, Ready, IsForm
<1>2. e = [id |-> had[k].id, name |-> had[k].name, targets |-> targets]
  <2>1. had[k] = [id |-> had[k].id, name |-> had[k].name, targets |-> had[k].targets]
    BY <1>1 DEF IsEnvironment
  <2>2. DOMAIN had[k] = {"id", "name", "targets"}
    BY <2>1
  <2> QED BY <2>2
<1>3. e.targets = targets /\ IsEnvironment(e)
  <2> HIDE DEF e
  <2>1. e.targets = targets /\ e = [id |-> e.id, name |-> e.name, targets |-> e.targets]
    BY <1>2
  <2> QED BY <2>1 DEF IsEnvironment, Fine
<1>4. d = [c EXCEPT !.environments = envs]
  OBVIOUS
<1> HIDE DEF e
<1>5. /\ IsSeq(envs) /\ Len(envs) = Len(had)
      /\ \A i \in 1..Len(had) : envs[i] = IF i = k THEN e ELSE had[i]
  <2>1. Swapped(envs, had, k, e)
    BY DEF Swapped
  <2> HIDE DEF envs
  <2> QED BY <1>1, <2>1, SwappedParts
<1> HIDE DEF envs
<1>6. \A x \in Parts(envs) : x = e \/ x \in Parts(had)
  BY <1>5 DEF Parts
<1>7. \A x \in Parts(envs) : IsEnvironment(x)
  BY <1>1, <1>3, <1>6 DEF IsForm
<1>8. \A t \in TargetsIn(envs) : Fine(t, c.services, m)
  <2> SUFFICES ASSUME NEW x \in Parts(envs), NEW t \in Parts(x.targets) PROVE Fine(t, c.services, m)
    BY DEF TargetsIn
  <2>1. CASE x = e
    BY <1>3, <2>1
  <2>2. CASE x \in Parts(had)
    BY <2>2, FineTargets DEF TargetsIn
  <2> QED BY <1>6, <2>1, <2>2
<1>9. m # "workspace" => Len(envs) \in {0, 1}
  BY <1>5 DEF Good, Ready, Suits
<1> QED BY <1>4, <1>5, <1>7, <1>8, <1>9, OtherEnvironments

LEMMA NewTargetFine ==
  ASSUME NEW id, NEW q, NEW m
  PROVE  Fine(NewTarget(id), q, m)
<1> DEFINE t == NewTarget(id)
<1>1. /\ t = [f \in TargetFields |-> t[f]] /\ t.names = <<>> /\ t.overrides = {} /\ t.ticked = {}
  BY DEF NewTarget, TargetFields
<1> HIDE DEF t
<1>2. IsSeq(<<>>)
  <2>1. <<>> \in Seq({})
    OBVIOUS
  <2> QED BY <2>1 DEF IsSeq
<1>3. IsTarget(t)
  BY <1>1, <1>2, IsTargetFields
<1>4. Fine(t, q, m)
  BY <1>1, <1>3 DEF Fine, Links, Bare
<1> QED BY <1>4 DEF t

LEMMA EmptyParts ==
  IsSeq(<<>>) /\ Parts(<<>>) = {} /\ Len(<<>>) = 0
<1>1. <<>> \in Seq({}) /\ Len(<<>>) = 0
  OBVIOUS
<1> QED BY <1>1 DEF IsSeq, Parts

LEMMA NewEnvironmentIs ==
  ASSUME NEW id, NEW targets, IsSeq(targets), \A t \in Parts(targets) : IsTarget(t)
  PROVE  /\ IsEnvironment(NewEnvironment(id, targets))
         /\ NewEnvironment(id, targets).targets = targets
BY DEF NewEnvironment, IsEnvironment

LEMMA EnvironmentsOf ==
  ASSUME NEW c, NEW m, Good(c, m)
  PROVE  /\ IsSeq(c.environments) /\ DOMAIN c = {"name", "hierarchy", "services", "environments"}
         /\ \A e \in Parts(c.environments) :
              /\ IsEnvironment(e) /\ IsSeq(e.targets)
              /\ \A t \in Parts(e.targets) : /\ Fine(t, c.services, m) /\ ToldOnly(t, c.services)
                                             /\ IsTarget(t) /\ Links(t, c.services)
<1>1. IsForm(c)
  BY DEF Good, Ready
<1>2. c = [name |-> c.name, hierarchy |-> c.hierarchy, services |-> c.services,
           environments |-> c.environments]
  BY <1>1 DEF IsForm
<1>3. DOMAIN c = {"name", "hierarchy", "services", "environments"}
  BY <1>2
<1>4. \A e \in Parts(c.environments) : \A t \in Parts(e.targets) :
         Fine(t, c.services, m) /\ ToldOnly(t, c.services)
  BY FineTargets DEF TargetsIn
<1>5. IsSeq(c.environments) /\ \A e \in Parts(c.environments) : IsEnvironment(e) /\ IsSeq(e.targets)
  BY <1>1 DEF IsForm, IsEnvironment
<1> QED BY <1>3, <1>4, <1>5 DEF Fine

LEMMA AddEnvironmentReady ==
  ASSUME Good(config, "workspace"), NEW id,
         NEW d, d = [config EXCEPT !.environments = Append(config.environments, NewEnvironment(id, <<>>))]
  PROVE  Ready(d, "workspace")
<1> DEFINE e == NewEnvironment(id, <<>>)
           envs == Append(config.environments, e)
<1>1. IsEnvironment(e) /\ Parts(e.targets) = {}
  BY EmptyParts, NewEnvironmentIs
<1>2. d = [config EXCEPT !.environments = envs]
  OBVIOUS
<1> HIDE DEF e
<1>3. IsSeq(envs) /\ Parts(envs) = Parts(config.environments) \cup {e}
  BY EnvironmentsOf, AppendParts
<1> HIDE DEF envs
<1>4. \A x \in Parts(envs) : IsEnvironment(x)
  BY <1>1, <1>3, EnvironmentsOf
<1>5. \A t \in TargetsIn(envs) : Fine(t, config.services, "workspace")
  BY <1>1, <1>3, EnvironmentsOf DEF TargetsIn
<1> QED BY <1>2, <1>3, <1>4, <1>5, OtherEnvironments

LEMMA RemoveEnvironmentReady ==
  ASSUME Good(config, "workspace"), NEW e,
         NEW d, d = [config EXCEPT !.environments = LeaveOut(config.environments, {e})]
  PROVE  Ready(d, "workspace")
<1> DEFINE envs == LeaveOut(config.environments, {e})
<1>2. d = [config EXCEPT !.environments = envs]
  OBVIOUS
<1>3. IsSeq(envs) /\ Parts(envs) \subseteq Parts(config.environments)
  BY EnvironmentsOf, LeaveOutParts
<1> HIDE DEF envs
<1>4. \A x \in Parts(envs) : IsEnvironment(x)
  BY <1>3, EnvironmentsOf
<1>5. \A t \in TargetsIn(envs) : Fine(t, config.services, "workspace")
  BY <1>3, EnvironmentsOf DEF TargetsIn
<1> QED BY <1>2, <1>3, <1>4, <1>5, OtherEnvironments

LEMMA TwinIsFine ==
  ASSUME Good(config, "workspace"), NEW e \in Parts(config.environments), NEW id, NEW name, NEW twin,
         twin = [e EXCEPT !.id = id, !.name = name,
                          !.targets = [j \in DOMAIN @ |-> [@[j] EXCEPT !.id = <<id, j>>]]]
  PROVE  IsEnvironment(twin) /\ \A t \in Parts(twin.targets) : Fine(t, config.services, "workspace")
<1> DEFINE own  == [j \in 1..Len(e.targets) |-> [e.targets[j] EXCEPT !.id = <<id, j>>]]
<1>1. /\ IsEnvironment(e) /\ IsSeq(e.targets)
      /\ \A t \in Parts(e.targets) : Fine(t, config.services, "workspace") /\ IsTarget(t)
  BY EnvironmentsOf
<1>2. Len(e.targets) \in Nat /\ DOMAIN e.targets = 1..Len(e.targets)
  BY <1>1, SeqParts
<1>3. \A j \in 1..Len(e.targets) : Fine(own[j], config.services, "workspace")
  <2> SUFFICES ASSUME NEW j \in 1..Len(e.targets) PROVE Fine(own[j], config.services, "workspace")
    OBVIOUS
  <2> DEFINE t == e.targets[j]
             u == [t EXCEPT !.id = <<id, j>>]
  <2>1. t \in Parts(e.targets)
    BY DEF Parts
  <2>2. own[j] = u
    OBVIOUS
  <2> HIDE DEF own, t
  <2>3. Fine(t, config.services, "workspace") /\ IsTarget(t)
    BY <1>1, <2>1
  <2>4. DOMAIN t = TargetFields
    BY <2>3, IsTargetFields
  <2>5. /\ DOMAIN u = DOMAIN t /\ u = [f \in DOMAIN u |-> u[f]]
        /\ u.names = t.names /\ u.overrides = t.overrides /\ u.ticked = t.ticked
    BY <2>4 DEF TargetFields
  <2> HIDE DEF u
  <2>6. Alike(u, t)
    BY <2>3, <2>5, CardAlike
  <2> QED BY <2>2, <2>3, <2>6, AlikeIsFine
<1>4. IsSeq(own) /\ Len(own) = Len(e.targets)
  <2>1. own = [j \in 1..Len(e.targets) |-> own[j]]
    OBVIOUS
  <2> HIDE DEF own
  <2> QED BY <1>2, <2>1, FunctionIsSeq
<1>5. twin = [id |-> id, name |-> name, targets |-> own]
  <2>1. e = [id |-> e.id, name |-> e.name, targets |-> e.targets]
    BY <1>1 DEF IsEnvironment
  <2>2. DOMAIN e = {"id", "name", "targets"}
    BY <2>1
  <2>3. twin = [e EXCEPT !.id = id, !.name = name, !.targets = own]
    BY <1>2, <2>2
  <2> HIDE DEF own
  <2> QED BY <2>2, <2>3
<1> HIDE DEF own
<1>6. twin.targets = own /\ IsEnvironment(twin) /\ \A t \in Parts(own) : Fine(t, config.services, "workspace")
  <2>1. \A t \in Parts(own) : Fine(t, config.services, "workspace")
    BY <1>3, <1>4 DEF Parts
  <2>2. twin.targets = own /\ twin = [id |-> twin.id, name |-> twin.name, targets |-> twin.targets]
    BY ONLY <1>5
  <2> QED BY <1>4, <2>1, <2>2 DEF IsEnvironment, Fine
<1> QED BY <1>6

LEMMA CloneEnvironmentReady ==
  ASSUME Good(config, "workspace"), NEW e \in Parts(config.environments),
         NEW twin, IsEnvironment(twin), \A t \in Parts(twin.targets) : Fine(t, config.services, "workspace"),
         NEW d, d = [config EXCEPT !.environments =
                       InsertAt(config.environments, At(config.environments, e.id) + 1, twin)]
  PROVE  Ready(d, "workspace")
<1> DEFINE had  == config.environments
           k    == At(had, e.id)
           envs == InsertAt(had, k + 1, twin)
<1>1. IsSeq(had)
  BY EnvironmentsOf
<1>7. k \in 1..Len(had)
  BY <1>1, AtFinds
<1>8. d = [config EXCEPT !.environments = envs]
  OBVIOUS
<1> HIDE DEF k
<1>9. IsSeq(envs) /\ Parts(envs) = Parts(had) \cup {twin}
  BY <1>1, <1>7, InsertParts
<1> HIDE DEF envs
<1>10. \A x \in Parts(envs) : IsEnvironment(x)
  BY <1>9, EnvironmentsOf
<1>11. \A t \in TargetsIn(envs) : Fine(t, config.services, "workspace")
  <2> SUFFICES ASSUME NEW x \in Parts(envs), NEW t \in Parts(x.targets)
               PROVE  Fine(t, config.services, "workspace")
    BY DEF TargetsIn
  <2>1. CASE x = twin
    BY <2>1
  <2>2. CASE x \in Parts(had)
    BY <2>2, EnvironmentsOf
  <2> QED BY <1>9, <2>1, <2>2
<1> QED BY <1>8, <1>9, <1>10, <1>11, OtherEnvironments

LEMMA RenameEnvironmentReady ==
  ASSUME Good(config, "workspace"), NEW e \in Parts(config.environments), NEW name,
         NEW d, d = [config EXCEPT !.environments =
                       [config.environments EXCEPT ![At(config.environments, e.id)].name = name]]
  PROVE  Ready(d, "workspace")
<1> DEFINE had  == config.environments
           k    == At(had, e.id)
           x    == [had[k] EXCEPT !.name = name]
           envs == [had EXCEPT ![k] = x]
<1>1. IsSeq(had) /\ k \in 1..Len(had)
  BY EnvironmentsOf, AtFinds
<1> HIDE DEF k
<1>2. /\ had[k] \in Parts(had) /\ IsEnvironment(had[k])
      /\ \A t \in Parts(had[k].targets) : Fine(t, config.services, "workspace")
  <2>1. had[k] \in Parts(had)
    BY <1>1 DEF Parts
  <2> QED BY <2>1, EnvironmentsOf
<1>3. x.targets = had[k].targets /\ IsEnvironment(x)
  <2>1. had[k] = [id |-> had[k].id, name |-> had[k].name, targets |-> had[k].targets]
    BY <1>2 DEF IsEnvironment
  <2>2. DOMAIN had[k] = {"id", "name", "targets"}
    BY <2>1
  <2>3. x = [id |-> had[k].id, name |-> name, targets |-> had[k].targets]
    BY <2>2
  <2> HIDE DEF x
  <2>4. x.targets = had[k].targets /\ x = [id |-> x.id, name |-> x.name, targets |-> x.targets]
    BY <2>3
  <2> QED BY <1>2, <2>4 DEF IsEnvironment
<1>4. d = [config EXCEPT !.environments = envs]
  BY DEF k
<1> HIDE DEF x
<1>5. /\ IsSeq(envs) /\ Len(envs) = Len(had)
      /\ \A i \in 1..Len(had) : envs[i] = IF i = k THEN x ELSE had[i]
  <2>1. Swapped(envs, had, k, x)
    BY DEF Swapped
  <2> HIDE DEF envs
  <2> QED BY <1>1, <2>1, SwappedParts
<1> HIDE DEF envs
<1>6. \A y \in Parts(envs) : y = x \/ y \in Parts(had)
  BY <1>5 DEF Parts
<1>7. \A y \in Parts(envs) : IsEnvironment(y)
  BY <1>3, <1>6, EnvironmentsOf
<1>8. \A t \in TargetsIn(envs) : Fine(t, config.services, "workspace")
  <2> SUFFICES ASSUME NEW y \in Parts(envs), NEW t \in Parts(y.targets)
               PROVE  Fine(t, config.services, "workspace")
    BY DEF TargetsIn
  <2>1. CASE y = x
    BY <1>2, <1>3, <2>1
  <2>2. CASE y \in Parts(had)
    BY <2>2, EnvironmentsOf
  <2> QED BY <1>6, <2>1, <2>2
<1> QED BY <1>4, <1>5, <1>7, <1>8, OtherEnvironments

LEMMA SomeTargetsReady ==
  ASSUME NEW m, Good(config, m), NEW e \in Parts(config.environments), NEW targets, IsSeq(targets),
         \A t \in Parts(targets) : t \in Parts(e.targets) \/ Fine(t, config.services, m),
         NEW d, d = [config EXCEPT !.environments[At(config.environments, e.id)].targets = targets]
  PROVE  Ready(d, m)
<1> DEFINE k == At(config.environments, e.id)
<1>1. k \in 1..Len(config.environments)
  BY EnvironmentsOf, AtFinds
<1>2. \A t \in Parts(targets) : Fine(t, config.services, m)
  BY EnvironmentsOf
<1>3. d = [config EXCEPT !.environments[k].targets = targets]
  OBVIOUS
<1> HIDE DEF k
<1> QED BY <1>1, <1>2, <1>3, OtherTargets

LEMMA AddTargetReady ==
  ASSUME NEW m, Good(config, m), NEW e \in Parts(config.environments), NEW id,
         NEW d, d = [config EXCEPT !.environments[At(config.environments, e.id)].targets =
                                     Append(e.targets, NewTarget(id))]
  PROVE  Ready(d, m)
<1> DEFINE x == NewTarget(id)
           targets == Append(e.targets, x)
<1>1. Fine(x, config.services, m)
  BY NewTargetFine
<1> HIDE DEF x
<1>2. IsSeq(targets) /\ Parts(targets) = Parts(e.targets) \cup {x}
  BY EnvironmentsOf, AppendParts
<1>3. d = [config EXCEPT !.environments[At(config.environments, e.id)].targets = targets]
  BY DEF x
<1> HIDE DEF targets
<1>4. \A t \in Parts(targets) : t \in Parts(e.targets) \/ Fine(t, config.services, m)
  BY <1>1, <1>2
<1> QED BY <1>2, <1>3, <1>4, SomeTargetsReady

LEMMA RemoveTargetReady ==
  ASSUME NEW m, Good(config, m), NEW e \in Parts(config.environments), NEW t,
         NEW d, d = [config EXCEPT !.environments[At(config.environments, e.id)].targets =
                                     LeaveOut(e.targets, {t})]
  PROVE  Ready(d, m)
<1> DEFINE targets == LeaveOut(e.targets, {t})
<1>2. IsSeq(targets) /\ Parts(targets) \subseteq Parts(e.targets)
  BY EnvironmentsOf, LeaveOutParts
<1>3. d = [config EXCEPT !.environments[At(config.environments, e.id)].targets = targets]
  OBVIOUS
<1> HIDE DEF targets
<1>4. \A x \in Parts(targets) : x \in Parts(e.targets) \/ Fine(x, config.services, m)
  BY <1>2
<1> QED BY <1>2, <1>3, <1>4, SomeTargetsReady

LEMMA CloneTargetReady ==
  ASSUME NEW m, Good(config, m), NEW e \in Parts(config.environments), NEW t \in Parts(e.targets),
         NEW x, Fine(x, config.services, m),
         NEW d, d = [config EXCEPT !.environments[At(config.environments, e.id)].targets =
                                     InsertAt(e.targets, At(e.targets, t.id) + 1, x)]
  PROVE  Ready(d, m)
<1> DEFINE k == At(e.targets, t.id)
           targets == InsertAt(e.targets, k + 1, x)
<1>1. IsSeq(e.targets) /\ k \in 1..Len(e.targets)
  BY EnvironmentsOf, AtFinds
<1>2. d = [config EXCEPT !.environments[At(config.environments, e.id)].targets = targets]
  OBVIOUS
<1> HIDE DEF k
<1>3. IsSeq(targets) /\ Parts(targets) = Parts(e.targets) \cup {x}
  BY <1>1, InsertParts
<1> HIDE DEF targets
<1>4. \A y \in Parts(targets) : y \in Parts(e.targets) \/ Fine(y, config.services, m)
  BY <1>3
<1> QED BY <1>2, <1>3, <1>4, SomeTargetsReady

LEMMA SetTargetReady ==
  ASSUME NEW m, Good(config, m), NEW e \in Parts(config.environments), NEW t \in Parts(e.targets),
         NEW x, Fine(x, config.services, m),
         NEW d, d = [config EXCEPT !.environments[At(config.environments, e.id)].targets =
                                     [e.targets EXCEPT ![At(e.targets, t.id)] = x]]
  PROVE  Ready(d, m)
<1> DEFINE k == At(e.targets, t.id)
           targets == [e.targets EXCEPT ![k] = x]
<1>1. IsSeq(e.targets) /\ k \in 1..Len(e.targets)
  BY EnvironmentsOf, AtFinds
<1>2. d = [config EXCEPT !.environments[At(config.environments, e.id)].targets = targets]
  OBVIOUS
<1> HIDE DEF k
<1>3. /\ IsSeq(targets) /\ Len(targets) = Len(e.targets)
      /\ \A i \in 1..Len(e.targets) : targets[i] = IF i = k THEN x ELSE e.targets[i]
  <2>1. Swapped(targets, e.targets, k, x)
    BY DEF Swapped
  <2> HIDE DEF targets
  <2> QED BY <1>1, <2>1, SwappedParts
<1> HIDE DEF targets
<1>4. \A y \in Parts(targets) : y \in Parts(e.targets) \/ Fine(y, config.services, m)
  BY <1>3 DEF Parts
<1> QED BY <1>2, <1>3, <1>4, SomeTargetsReady

(* The only service of a service's form, which no target refers to. *)
LEMMA OnlyServiceReady ==
  ASSUME Good(config, "service"), Len(config.services) > 0,
         NEW x, IsService(x), x.id = config.services[1].id,
         NEW name, NEW d,
         d = [name |-> name, hierarchy |-> config.hierarchy, services |-> [config.services EXCEPT ![1] = x],
              environments |-> config.environments]
  PROVE  Ready(d, "service")
<1> DEFINE q == config.services
           r == [q EXCEPT ![1] = x]
<1>1. /\ IsForm(config) /\ Apart(q) /\ IsSeq(q) /\ (\A s \in Parts(q) : IsService(s))
      /\ 1 \in 1..Len(q) /\ Suits(config, "service")
  <2>1. IsForm(config) /\ Apart(q) /\ IsSeq(q) /\ (\A s \in Parts(q) : IsService(s)) /\ Suits(config, "service")
    BY DEF Good, Ready, IsForm
  <2> QED BY <2>1, SeqParts
<1>2. /\ IsSeq(r) /\ Len(r) = Len(q)
      /\ \A i \in 1..Len(q) : r[i] = IF i = 1 THEN x ELSE q[i]
  <2>1. Swapped(r, q, 1, x)
    BY DEF Swapped
  <2> HIDE DEF r
  <2> QED BY <1>1, <2>1, SwappedParts
<1>3. d.services = r /\ d.environments = config.environments
      /\ d = [name |-> d.name, hierarchy |-> d.hierarchy, services |-> d.services,
              environments |-> d.environments]
  <2> HIDE DEF r
  <2>1. d = [name |-> name, hierarchy |-> config.hierarchy, services |-> r,
             environments |-> config.environments]
    BY DEF r
  <2> QED BY ONLY <2>1
<1> HIDE DEF r
<1>4. \A s \in Parts(r) : IsService(s)
  BY <1>1, <1>2 DEF Parts
<1>5. Apart(r)
  <2>1. \A i \in 1..Len(q) : r[i].id = q[i].id
    BY <1>2
  <2> QED BY <1>1, <1>2, <2>1 DEF Apart
<1>6. IsForm(d)
  BY <1>1, <1>2, <1>3, <1>4 DEF IsForm
<1>7. \A t \in TargetsIn(config.environments) : Bare(t) /\ Links(t, r)
  <2>1. \A t \in TargetsIn(config.environments) : Bare(t)
    BY <1>1 DEF Suits
  <2> QED BY <2>1 DEF Bare, Links
<1> QED BY <1>1, <1>3, <1>5, <1>6, <1>7 DEF Ready, Suits

LEMMA SetNameReady ==
  ASSUME NEW m, Good(config, m), NEW name, NEW d,
         d = [config EXCEPT !.name = name,
                !.services = IF m = "service" /\ @ # <<>> THEN [@ EXCEPT ![1].name = name] ELSE @]
  PROVE  Ready(d, m)
<1> DEFINE q == config.services
<1>1. IsForm(config) /\ IsSeq(q) /\ (\A s \in Parts(q) : IsService(s)) /\ Apart(q)
  BY DEF Good, Ready, IsForm
<1>2. DOMAIN config = {"name", "hierarchy", "services", "environments"}
  BY EnvironmentsOf
<1>3. CASE m = "service" /\ q # <<>>
  <2> DEFINE x == [q[1] EXCEPT !.name = name]
  <2>1. Len(q) > 0 /\ 1 \in 1..Len(q) /\ q[1] \in Parts(q)
    <3>1. Len(q) \in Nat /\ Len(q) # 0
      BY <1>1, <1>3, SeqParts
    <3> QED BY <3>1 DEF Parts
  <2>2. q[1] = [id |-> q[1].id, name |-> q[1].name, provider |-> q[1].provider,
                resource |-> q[1].resource, own |-> q[1].own, conn |-> q[1].conn]
    BY <1>1, <2>1 DEF IsService
  <2>3. IsService(x) /\ x.id = q[1].id
    <3>1. DOMAIN q[1] = {"id", "name", "provider", "resource", "own", "conn"}
      BY <2>2
    <3> DEFINE s == q[1]
    <3> HIDE DEF s
    <3>2. x = [f \in {"id", "name", "provider", "resource", "own", "conn"} |->
                 IF f = "name" THEN name ELSE s[f]]
      BY <3>1 DEF s
    <3> HIDE DEF x
    <3> QED BY <3>2 DEF IsService, s
  <2>4. d = [name |-> name, hierarchy |-> config.hierarchy, services |-> [q EXCEPT ![1] = x],
             environments |-> config.environments]
    BY <1>2, <1>3
  <2> HIDE DEF x
  <2> QED BY <1>3, <2>1, <2>3, <2>4, OnlyServiceReady
<1>4. CASE ~(m = "service" /\ q # <<>>)
  <2>1. d = [name |-> name, hierarchy |-> config.hierarchy, services |-> q,
             environments |-> config.environments]
    BY <1>2, <1>4
  <2>2. d.services = q /\ d.environments = config.environments
        /\ d = [name |-> d.name, hierarchy |-> d.hierarchy, services |-> d.services,
                environments |-> d.environments]
    BY ONLY <2>1
  <2> QED BY <1>1, <2>2 DEF Good, Ready, Suits, IsForm
<1> QED BY <1>3, <1>4

LEMMA SetHierarchyReady ==
  ASSUME NEW m, Good(config, m), NEW order, NEW d, d = [config EXCEPT !.hierarchy = order]
  PROVE  Ready(d, m)
<1>1. DOMAIN config = {"name", "hierarchy", "services", "environments"}
  BY EnvironmentsOf
<1>2. d = [name |-> config.name, hierarchy |-> order, services |-> config.services,
           environments |-> config.environments]
  BY <1>1
<1>3. d.services = config.services /\ d.environments = config.environments
      /\ d = [name |-> d.name, hierarchy |-> d.hierarchy, services |-> d.services,
              environments |-> d.environments]
  BY ONLY <1>2
<1> QED BY <1>3 DEF Good, Ready, Suits, IsForm

ServiceFields == {"id", "name", "provider", "resource", "own", "conn"}

LEMMA FirstService ==
  ASSUME Good(config, "service"), config.services # <<>>
  PROVE  /\ Len(config.services) > 0 /\ 1 \in DOMAIN config.services
         /\ DOMAIN config.services[1] = ServiceFields
         /\ DOMAIN config = {"name", "hierarchy", "services", "environments"}
<1> DEFINE q == config.services
           s == q[1]
<1>1. IsSeq(q) /\ (\A x \in Parts(q) : IsService(x))
  BY DEF Good, Ready, IsForm
<1>2. Len(q) \in Nat /\ Len(q) # 0 /\ DOMAIN q = 1..Len(q)
  BY <1>1, SeqParts
<1>3. Len(q) > 0 /\ 1 \in DOMAIN q /\ s \in Parts(q)
  <2> HIDE DEF q
  <2> QED BY <1>2 DEF Parts
<1>4. s = [id |-> s.id, name |-> s.name, provider |-> s.provider,
           resource |-> s.resource, own |-> s.own, conn |-> s.conn]
  BY <1>1, <1>3 DEF IsService
<1>5. DOMAIN s = ServiceFields
  <2> HIDE DEF s
  <2> QED BY <1>4 DEF ServiceFields
<1> QED BY <1>3, <1>5, EnvironmentsOf

LEMMA OnlyServiceIs ==
  ASSUME Good(config, "service"), config.services # <<>>,
         NEW x, DOMAIN x = ServiceFields, x = [f \in ServiceFields |-> x[f]], x.id = config.services[1].id
  PROVE  Ready([config EXCEPT !.services = [@ EXCEPT ![1] = x]], "service")
<1> DEFINE q == config.services
           d == [config EXCEPT !.services = [q EXCEPT ![1] = x]]
<1>1. IsService(x)
  BY ONLY x = [f \in ServiceFields |-> x[f]] DEF IsService, ServiceFields
<1>2. d = [name |-> config.name, hierarchy |-> config.hierarchy, services |-> [q EXCEPT ![1] = x],
           environments |-> config.environments]
  BY FirstService
<1> HIDE DEF d
<1>3. Ready(d, "service")
  BY <1>1, <1>2, FirstService, OnlyServiceReady
<1> QED BY <1>3 DEF d

LEMMA SetOnlyProviderReady ==
  ASSUME Good(config, "service"), config.services # <<>>, NEW p
  PROVE  Ready([config EXCEPT !.services[1].provider = p, !.services[1].own = FALSE,
                              !.services[1].conn = ""], "service")
<1> DEFINE q == config.services
           s == q[1]
           x == [s EXCEPT !.provider = p, !.own = FALSE, !.conn = ""]
           a == [config EXCEPT !.services[1].provider = p]
           b == [a EXCEPT !.services[1].own = FALSE]
           d == [b EXCEPT !.services[1].conn = ""]
           y == [s EXCEPT !.provider = p]
           z == [y EXCEPT !.own = FALSE]
<1>1. /\ DOMAIN config = {"name", "hierarchy", "services", "environments"}
      /\ 1 \in DOMAIN q /\ DOMAIN s = ServiceFields
  BY FirstService
<1>2. a = [config EXCEPT !.services = [q EXCEPT ![1] = y]]
  OBVIOUS
<1>3. b = [a EXCEPT !.services = [a.services EXCEPT ![1] = [a.services[1] EXCEPT !.own = FALSE]]]
  <2> HIDE DEF a, q, s
  <2> QED OBVIOUS
<1>4. d = [b EXCEPT !.services = [b.services EXCEPT ![1] = [b.services[1] EXCEPT !.conn = ""]]]
  <2> HIDE DEF b, q, s
  <2> QED OBVIOUS
<1>5. x = [z EXCEPT !.conn = ""]
  OBVIOUS
<1>6. /\ DOMAIN x = ServiceFields /\ x = [f \in ServiceFields |-> x[f]] /\ x.id = s.id
  <2> HIDE DEF s
  <2> QED BY <1>1 DEF ServiceFields
<1>7. a.services = [q EXCEPT ![1] = y] /\ DOMAIN a = DOMAIN config
  <2> HIDE DEF a, y, q
  <2> QED BY <1>1, <1>2
<1>8. b = [config EXCEPT !.services = [q EXCEPT ![1] = z]] /\ DOMAIN b = DOMAIN config
  <2>1. [a.services EXCEPT ![1] = [a.services[1] EXCEPT !.own = FALSE]] = [q EXCEPT ![1] = z]
    <3> HIDE DEF a, y, q
    <3> QED BY <1>1, <1>7
  <2> HIDE DEF a, b, q, y, z
  <2> QED BY <1>1, <1>2, <1>3, <2>1
<1>9. b.services = [q EXCEPT ![1] = z]
  <2> HIDE DEF b, z, q
  <2> QED BY <1>1, <1>8
<1>10. d = [config EXCEPT !.services = [q EXCEPT ![1] = x]]
  <2>1. [b.services EXCEPT ![1] = [b.services[1] EXCEPT !.conn = ""]] = [q EXCEPT ![1] = x]
    <3> HIDE DEF b, z, q, x
    <3> QED BY <1>1, <1>5, <1>9
  <2> HIDE DEF a, b, q, y, z, d, x
  <2> QED BY <1>1, <1>4, <1>8, <2>1
<1> HIDE DEF x, d
<1>11. Ready(d, "service")
  BY <1>6, <1>10, OnlyServiceIs
<1> QED BY <1>11 DEF d

LEMMA SetOnlyOwnReady ==
  ASSUME Good(config, "service"), config.services # <<>>
  PROVE  Ready([config EXCEPT !.services[1].own = ~@], "service")
<1> DEFINE s == config.services[1]
           x == [s EXCEPT !.own = ~@]
<1>1. DOMAIN x = ServiceFields /\ x = [f \in ServiceFields |-> x[f]] /\ x.id = s.id
  <2>1. DOMAIN s = ServiceFields
    BY FirstService
  <2> HIDE DEF s
  <2> QED BY <2>1 DEF ServiceFields
<1>2. [config EXCEPT !.services[1].own = ~@] = [config EXCEPT !.services = [@ EXCEPT ![1] = x]]
  OBVIOUS
<1> HIDE DEF x
<1> QED BY <1>1, <1>2, OnlyServiceIs

LEMMA SetOnlyConnectionReady ==
  ASSUME Good(config, "service"), config.services # <<>>
  PROVE  Ready([config EXCEPT !.services[1].conn = IF @ = "" THEN "typed" ELSE ""], "service")
<1> DEFINE s == config.services[1]
           x == [s EXCEPT !.conn = IF @ = "" THEN "typed" ELSE ""]
<1>1. DOMAIN x = ServiceFields /\ x = [f \in ServiceFields |-> x[f]] /\ x.id = s.id
  <2>1. DOMAIN s = ServiceFields
    BY FirstService
  <2> HIDE DEF s
  <2> QED BY <2>1 DEF ServiceFields
<1>2. [config EXCEPT !.services[1].conn = IF @ = "" THEN "typed" ELSE ""]
        = [config EXCEPT !.services = [@ EXCEPT ![1] = x]]
  OBVIOUS
<1> HIDE DEF x
<1> QED BY <1>1, <1>2, OnlyServiceIs

(* Connect from Resource: services that are new, for one target. *)
LEMMA ConcatApart ==
  ASSUME NEW q, IsSeq(q), Apart(q), NEW r, IsSeq(r), Apart(r), \A x \in Parts(r) : x.id \notin IdsOf(q)
  PROVE  Apart(q \o r)
<1>1. /\ Len(q) \in Nat /\ Len(r) \in Nat /\ Len(q \o r) = Len(q) + Len(r)
      /\ \A i \in 1..(Len(q) + Len(r)) : (q \o r)[i] = IF i <= Len(q) THEN q[i] ELSE r[i - Len(q)]
  BY SeqParts, ConcatParts
<1> DEFINE w == q \o r
<1> HIDE DEF w
<1>2. SUFFICES ASSUME NEW i \in 1..Len(w), NEW j \in 1..Len(w), w[i].id = w[j].id PROVE i = j
  BY DEF Apart, w
<1>3. \A k \in 1..Len(w) :
        \/ k \in 1..Len(q) /\ w[k] = q[k] /\ w[k].id \in IdsOf(q)
        \/ k - Len(q) \in 1..Len(r) /\ w[k] = r[k - Len(q)] /\ w[k].id \notin IdsOf(q)
  <2> SUFFICES ASSUME NEW k \in 1..Len(w)
               PROVE  \/ k \in 1..Len(q) /\ w[k] = q[k] /\ w[k].id \in IdsOf(q)
                      \/ k - Len(q) \in 1..Len(r) /\ w[k] = r[k - Len(q)] /\ w[k].id \notin IdsOf(q)
    OBVIOUS
  <2>1. CASE k <= Len(q)
    BY <1>1, <2>1 DEF w, IdsOf, Parts
  <2>2. CASE ~(k <= Len(q))
    <3>1. k - Len(q) \in 1..Len(r) /\ w[k] = r[k - Len(q)]
      BY <1>1, <2>2 DEF w
    <3> QED BY <3>1 DEF Parts
  <2> QED BY <2>1, <2>2
<1>4. CASE w[i].id \in IdsOf(q)
  <2>1. i \in 1..Len(q) /\ j \in 1..Len(q) /\ q[i].id = q[j].id
    BY <1>2, <1>3, <1>4
  <2> QED BY <2>1 DEF Apart
<1>5. CASE w[i].id \notin IdsOf(q)
  <2>1. /\ i - Len(q) \in 1..Len(r) /\ j - Len(q) \in 1..Len(r)
        /\ r[i - Len(q)].id = r[j - Len(q)].id
    BY <1>2, <1>3, <1>5
  <2>2. i - Len(q) = j - Len(q)
    BY <2>1 DEF Apart
  <2> QED BY <1>1, <2>2
<1> QED BY <1>4, <1>5

LEMMA LinksKept ==
  ASSUME NEW q, IsSeq(q), Apart(q), NEW t, Links(t, q), ToldOnly(t, q), NEW r,
         \A s \in Parts(r) : s \in Parts(q) \/ s.id \notin IdsOf(q)
  PROVE  \A s \in Parts(r) : /\ s.id \in t.ticked => s.name \in Parts(t.names)
                             /\ \A o \in t.overrides : s.id \in o.of => o.name = s.name
<1>1. Told(q) \subseteq IdsOf(q)
  BY ToldAre DEF IdsOf
<1>2. ASSUME NEW s \in Parts(r), s.id \in Told(q) PROVE s \in Parts(q)
  BY <1>1, <1>2
<1>3. ASSUME NEW s \in Parts(r), s.id \in t.ticked PROVE s.name \in Parts(t.names)
  BY <1>2, <1>3 DEF Links, ToldOnly
<1>4. ASSUME NEW s \in Parts(r), NEW o \in t.overrides, s.id \in o.of PROVE o.name = s.name
  BY <1>2, <1>4 DEF Links, ToldOnly
<1> QED BY <1>3, <1>4

(* The services that are made. *)
LEMMA IdsAreGiven ==
  ASSUME Good(config, mode), IsSeq(filling), NEW made, IsSeq(made), NEW ids,
         ids = CHOOSE f \in [DOMAIN made -> 1..(Len(made) + Cardinality(ServiceIds))] :
                 \A i, j \in DOMAIN made : f[i] \notin ServiceIds /\ (f[i] = f[j] => i = j)
  PROVE  \A i, j \in 1..Len(made) : ids[i] \notin IdsOf(config.services) /\ (ids[i] = ids[j] => i = j)
<1>1. IsFiniteSet(ServiceIds) /\ IdsOf(config.services) \subseteq ServiceIds
  BY FreshServiceIsFree DEF Good, Ready
<1>2. Len(made) \in Nat /\ DOMAIN made = 1..Len(made)
  BY SeqParts
<1>3. \E f \in [DOMAIN made -> 1..(Len(made) + Cardinality(ServiceIds))] :
        \A i, j \in DOMAIN made : f[i] \notin ServiceIds /\ (f[i] = f[j] => i = j)
  <2> DEFINE S == ServiceIds
  <2>1. Cardinality(S) = Cardinality(S)
    BY DEF Cardinality, Cardinality
  <2> HIDE DEF S
  <2>2. \E f \in [1..Len(made) -> 1..(Len(made) + Cardinality(S))] :
           \A i, j \in 1..Len(made) : f[i] \notin S /\ (f[i] = f[j] => i = j)
    BY <1>1, <1>2, EnoughIds DEF S
  <2> QED BY <1>2, <2>1, <2>2 DEF S
<1>4. \A i, j \in 1..Len(made) : ids[i] \notin ServiceIds /\ (ids[i] = ids[j] => i = j)
  BY <1>2, <1>3
<1> QED BY <1>1, <1>4

LEMMA NamedServiceIs ==
  ASSUME NEW id, NEW name
  PROVE  LET x == [NewService(id) EXCEPT !.name = name] IN IsService(x) /\ x.id = id
<1> DEFINE y == NewService(id)
           x == [y EXCEPT !.name = name]
<1>1. y = [id |-> id, name |-> NoName, provider |-> "file", resource |-> NoResource, own |-> FALSE, conn |-> ""]
  BY DEF NewService
<1>2. DOMAIN y = ServiceFields /\ y.id = id
  <2> HIDE DEF y
  <2> QED BY <1>1 DEF ServiceFields
<1>3. x = [f \in ServiceFields |-> IF f = "name" THEN name ELSE y[f]]
  <2> HIDE DEF y
  <2> QED BY <1>2 DEF ServiceFields
<1>4. IsService(x) /\ x.id = id
  <2> HIDE DEF x, y
  <2> QED BY <1>2, <1>3 DEF IsService, ServiceFields
<1> QED BY <1>4

AreMade(new, made, ids) ==
  new = [i \in DOMAIN made |-> [NewService(ids[i]) EXCEPT !.name = made[i].name]]

LEMMA MadeServices ==
  ASSUME NEW made, IsSeq(made), NEW ids, NEW S,
         \A i, j \in 1..Len(made) : ids[i] \notin S /\ (ids[i] = ids[j] => i = j),
         NEW new, AreMade(new, made, ids)
  PROVE  /\ IsSeq(new) /\ Apart(new)
         /\ \A s \in Parts(new) : IsService(s) /\ s.id \notin S
<1>2. Len(made) \in Nat /\ DOMAIN made = 1..Len(made)
  BY SeqParts
<1>5. \A i \in 1..Len(made) : IsService(new[i]) /\ new[i].id = ids[i]
  BY <1>2, NamedServiceIs DEF AreMade
<1>6. new = [i \in 1..Len(made) |-> new[i]]
  BY <1>2 DEF AreMade
<1>7. IsSeq(new) /\ Len(new) = Len(made)
  BY ONLY <1>2, <1>6, FunctionIsSeq
<1>4. \A i, j \in 1..Len(made) : ids[i] \notin S /\ (ids[i] = ids[j] => i = j)
  OBVIOUS
<1>8. Apart(new)
  BY ONLY <1>4, <1>5, <1>7 DEF Apart
<1>9. \A s \in Parts(new) : IsService(s) /\ s.id \notin S
  BY ONLY <1>4, <1>5, <1>7 DEF Parts
<1> QED BY <1>7, <1>8, <1>9

(* The target that is connected. *)
IsJoined(u, t, name, all, ticked) ==
  u = [t EXCEPT !.type = "kubernetes", !.address = FALSE, !.login = Brought, !.names = all, !.name = name, !.ticked = ticked]

LEMMA JoinedIs ==
  ASSUME NEW t, IsTarget(t), NEW name, NEW all, IsSeq(all), NEW ticked,
         NEW u, IsJoined(u, t, name, all, ticked)
  PROVE  /\ IsTarget(u) /\ u.names = all /\ u.ticked = ticked /\ u.overrides = t.overrides
<1>1. t = [f \in TargetFields |-> t[f]] /\ \A o \in t.overrides : IsOverride(o)
  BY IsTargetFields
<1>2. DOMAIN t = TargetFields
  BY <1>1
<1>3. u = [f \in TargetFields |-> IF f = "type" THEN "kubernetes" ELSE IF f = "address" THEN FALSE
             ELSE IF f = "login" THEN Brought
             ELSE IF f = "names" THEN all ELSE IF f = "name" THEN name
             ELSE IF f = "ticked" THEN ticked ELSE t[f]]
  BY ONLY <1>2, IsJoined(u, t, name, all, ticked) DEF TargetFields, IsJoined
<1>4. u.names = all /\ u.ticked = ticked /\ u.overrides = t.overrides /\ u = [f \in TargetFields |-> u[f]]
  BY ONLY <1>3 DEF TargetFields
<1> QED BY <1>1, <1>4, IsTargetFields

LEMMA JoinedLinks ==
  ASSUME NEW q, IsSeq(q), Apart(q), NEW t, IsTarget(t), Links(t, q), ToldOnly(t, q),
         NEW r, IsSeq(r), Apart(r), \A s \in Parts(r) : s \in Parts(q) \/ s.id \notin IdsOf(q),
         NEW all, Parts(t.names) \subseteq Parts(all), NEW some, some \subseteq Parts(all),
         NEW u, u.names = all, u.overrides = t.overrides, u.ticked = t.ticked \cup IdsNamed(r, some)
  PROVE  Links(u, r) /\ Links(t, r)
<1>1. \A s \in Parts(r) : /\ s.id \in t.ticked => s.name \in Parts(t.names)
                          /\ \A o \in t.overrides : s.id \in o.of => o.name = s.name
  BY LinksKept
<1>2. \A s \in Parts(r) : s.id \in IdsNamed(r, some) => s.name \in some
  BY IdsNamedAre
<1>3. Links(t, r)
  BY <1>1 DEF Links
<1>4. ASSUME NEW s \in Parts(r), s.id \in u.ticked PROVE s.name \in Parts(u.names)
  BY <1>1, <1>2, <1>4
<1>5. ASSUME NEW s \in Parts(r), NEW o \in u.overrides, s.id \in o.of PROVE o.name = s.name
  BY <1>1, <1>5
<1> QED BY <1>3, <1>4, <1>5 DEF Links

LEMMA ConnectReady ==
  ASSUME NEW m, m # "service", m = mode, Good(config, m), IsSeq(filling), NEW q, IsFiniteSet(q.chosen),
         NEW d, d = handleResourceConnect(q)
  PROVE  Ready(d, m)
<1> DEFINE made     == SetToSeq(NewServices(q))
           ids      == CHOOSE f \in [DOMAIN made -> 1..(Len(made) + Cardinality(ServiceIds))] :
                         \A i, j \in DOMAIN made : f[i] \notin ServiceIds /\ (f[i] = f[j] => i = j)
           new      == [i \in DOMAIN made |-> [NewService(ids[i]) EXCEPT !.name = made[i].name]]
           offer    == config.services \o new
           names    == SetToSeq({w.name : w \in q.chosen})
           all(t)   == t.names \o LeaveOut(names, ToSet(t.names))
           some(t)  == {n \in ToSet(names) : n \in ToSet(all(t))}
           Changed(t) == [t EXCEPT !.type = "kubernetes", !.address = FALSE, !.login = Brought,
                                   !.names = all(t),
                                   !.name = IF t.name = NoName THEN q.cluster ELSE t.name,
                                   !.ticked = t.ticked \cup IdsNamed(offer, some(t))]
           Joined(t) == IF t.id # q.at THEN t ELSE Changed(t)
           old      == config.environments
           T        == [i \in DOMAIN old |-> [j \in DOMAIN old[i].targets |-> Joined(old[i].targets[j])]]
           envs     == WithAll(old, T)
<1>1. d = [config EXCEPT !.services = offer, !.environments = envs]
  BY DEF handleResourceConnect, MapTargets, WithAll
<1>2. IsForm(config) /\ IsSeq(config.services) /\ Apart(config.services)
  BY DEF Good, Ready, IsForm
<1>3. /\ IsSeq(offer) /\ Apart(offer)
      /\ \A s \in Parts(offer) : /\ IsService(s)
                                 /\ s \in Parts(config.services) \/ s.id \notin IdsOf(config.services)
  <2>1. IsFiniteSet(NewServices(q))
    <3>1. NewServices(q) \subseteq q.chosen
      BY DEF NewServices
    <3> QED BY <3>1, FS_Subset
  <2>2. IsSeq(made)
    BY <2>1, SetInTurn
  <2> HIDE DEF made
  <2>3. \A i, j \in 1..Len(made) : ids[i] \notin IdsOf(config.services) /\ (ids[i] = ids[j] => i = j)
    BY <2>2, IdsAreGiven
  <2> HIDE DEF ids
  <2> DEFINE S == IdsOf(config.services)
             n == new
  <2>8. AreMade(n, made, ids)
    BY DEF AreMade
  <2> HIDE DEF S, n
  <2>9. /\ IsSeq(n) /\ Apart(n) /\ \A s \in Parts(n) : IsService(s) /\ s.id \notin S
    <3>1. \A i, j \in 1..Len(made) : ids[i] \notin S /\ (ids[i] = ids[j] => i = j)
      BY <2>3 DEF S
    <3> QED BY ONLY <2>2, <2>8, <3>1, MadeServices
  <2>4. /\ IsSeq(new) /\ Apart(new)
        /\ \A s \in Parts(new) : IsService(s) /\ s.id \notin IdsOf(config.services)
    BY ONLY <2>9 DEF S, n
  <2> HIDE DEF new
  <2>5. IsSeq(offer) /\ Parts(offer) = Parts(config.services) \cup Parts(new)
    BY ONLY <1>2, <2>4, ConcatParts
  <2>6. Apart(offer)
    BY ONLY <1>2, <2>4, ConcatApart
  <2>7. \A s \in Parts(config.services) : IsService(s)
    BY <1>2 DEF IsForm
  <2> QED BY ONLY <2>4, <2>5, <2>6, <2>7
<1>4. IsSeq(names)
  <2> DEFINE S == q.chosen
             R == {w.name : w \in S}
             f == [w \in S |-> w.name]
  <2>1. f \in Surjection(S, R)
    BY DEF Surjection
  <2>2. IsFiniteSet(S)
    OBVIOUS
  <2> HIDE DEF f, R, S
  <2>3. IsFiniteSet(R)
    BY ONLY <2>1, <2>2, FS_Surjection
  <2> QED BY ONLY <2>3, SetInTurn DEF R, S
<1> HIDE DEF offer, names
<1>5. ASSUME NEW t, IsTarget(t), Links(t, config.services), ToldOnly(t, config.services)
      PROVE  IsTarget(Joined(t)) /\ Links(Joined(t), offer)
  <2> DEFINE rest == LeaveOut(names, ToSet(t.names))
  <2>1. IsSeq(t.names)
    BY <1>5 DEF IsTarget
  <2>2. IsSeq(rest)
    BY <1>4, LeaveOutParts
  <2> HIDE DEF rest
  <2>3. IsSeq(t.names \o rest) /\ Parts(t.names \o rest) = Parts(t.names) \cup Parts(rest)
    BY ONLY <2>1, <2>2, ConcatParts
  <2>4. IsSeq(all(t)) /\ Parts(t.names) \subseteq Parts(all(t))
    BY <2>3 DEF rest
  <2> HIDE DEF all
  <2>5. ToSet(all(t)) = Parts(all(t))
    BY <2>4, SeqParts
  <2>6. some(t) \subseteq Parts(all(t))
    BY <2>5
  <2> DEFINE u == Changed(t)
             a == all(t)
             s == some(t)
             ticked == t.ticked \cup IdsNamed(offer, s)
             name == IF t.name = NoName THEN q.cluster ELSE t.name
  <2>7. IsJoined(u, t, name, a, ticked)
    BY DEF IsJoined
  <2> HIDE DEF u, name, ticked, a
  <2>8. IsTarget(u) /\ u.names = a /\ u.ticked = ticked /\ u.overrides = t.overrides
    <3>1. IsSeq(a)
      BY <2>4 DEF a
    <3> QED BY ONLY <1>5, <2>7, <3>1, JoinedIs
  <2> HIDE DEF s, some
  <2>9. Links(u, offer) /\ Links(t, offer)
    BY ONLY <1>2, <1>3, <1>5, <2>4, <2>6, <2>8, JoinedLinks DEF a, s, ticked
  <2> QED BY <1>5, <2>8, <2>9 DEF u
<1> HIDE DEF Joined, all, some, Changed
<1>6. /\ DOMAIN old = 1..Len(old) /\ Len(old) \in Nat
      /\ \A i \in 1..Len(old) : /\ DOMAIN old[i].targets = 1..Len(old[i].targets)
                                /\ Len(old[i].targets) \in Nat
      /\ \A i \in 1..Len(old) : \A j \in 1..Len(old[i].targets) :
            IsTarget(old[i].targets[j]) /\ old[i].targets[j] \in TargetsIn(old)
  <2>1. IsSeq(old) /\ \A i \in 1..Len(old) : IsSeq(old[i].targets)
    BY <1>2, TargetsOfForm DEF IsEnvironment, IsForm
  <2> QED BY <1>2, <2>1, SeqParts, TargetsOfForm
<1>7. \A i \in 1..Len(old) : \A j \in 1..Len(old[i].targets) : T[i][j] = Joined(old[i].targets[j])
  BY <1>6
<1>8. \A t \in TargetsIn(old) : IsTarget(t) /\ Links(t, config.services) /\ ToldOnly(t, config.services)
  BY FineTargets DEF Fine
<1>9. ChangedLists(config, T)
  <2>1. \A i \in 1..Len(old) : T[i] = [j \in 1..Len(old[i].targets) |-> T[i][j]]
    BY <1>6
  <2>2. \A i \in 1..Len(old) : \A j \in 1..Len(old[i].targets) : IsTarget(T[i][j])
    BY <1>5, <1>6, <1>7, <1>8
  <2> QED BY <2>1, <2>2 DEF ChangedLists
<1> HIDE DEF T, envs
<1>10. /\ IsSeq(envs) /\ Len(envs) = Len(old) /\ \A e \in Parts(envs) : IsEnvironment(e)
       /\ \A t \in TargetsIn(envs) : ChangedFrom(t, config, T)
  BY <1>2, <1>9, TargetsChanged DEF envs
<1>11. \A t \in TargetsIn(envs) : Links(t, offer)
  BY <1>5, <1>7, <1>8, <1>10 DEF ChangedFrom
<1>12. d = [name |-> config.name, hierarchy |-> config.hierarchy, services |-> offer, environments |-> envs]
  <2>1. config = [name |-> config.name, hierarchy |-> config.hierarchy, services |-> config.services,
                  environments |-> config.environments]
    BY <1>2 DEF IsForm
  <2> DEFINE c == config
  <2>2. DOMAIN c = {"name", "hierarchy", "services", "environments"}
    BY <2>1
  <2> HIDE DEF c
  <2>3. [c EXCEPT !.services = offer, !.environments = envs]
          = [name |-> c.name, hierarchy |-> c.hierarchy, services |-> offer, environments |-> envs]
    <3> DEFINE x == [c EXCEPT !.services = offer, !.environments = envs]
    <3>1. x = [f \in {"name", "hierarchy", "services", "environments"} |->
                 IF f = "services" THEN offer ELSE IF f = "environments" THEN envs ELSE c[f]]
      BY <2>2
    <3> HIDE DEF x
    <3>2. x = [name |-> c.name, hierarchy |-> c.hierarchy, services |-> offer, environments |-> envs]
      BY <3>1
    <3> QED BY <3>2 DEF x
  <2> QED BY ONLY <1>1, <2>3 DEF c
<1> HIDE DEF old
<1>13. d.services = offer /\ d.environments = envs /\ IsForm(d)
  <2>1. d.services = offer /\ d.environments = envs /\ d.name = config.name /\ d.hierarchy = config.hierarchy
    BY ONLY <1>12
  <2> QED BY ONLY <1>3, <1>10, <1>12, <2>1 DEF IsForm
<1>14. Suits(d, m)
  <2>1. m # "workspace" => Len(old) \in {0, 1}
    BY DEF Good, Ready, Suits, old
  <2> QED BY <1>10, <1>13, <2>1 DEF Suits
<1> QED BY ONLY <1>3, <1>11, <1>13, <1>14 DEF Ready

(* Two forms that say the same: ids, secrets, and what a request leaves out,*)
(* aside.                                                                   *)
Says(o) == [name |-> o.name, fields |-> o.fields]
SameService(s, x, m) ==
  /\ s.provider = x.provider /\ s.own = x.own /\ s.conn = x.conn
  /\ m # "service" => s.name = x.name
  /\ m = "workspace" => s.resource = x.resource
SameTarget(t, u, m) ==
  /\ t.name = u.name /\ t.type = u.type /\ t.address = u.address /\ t.names = u.names
  /\ t.login \ Withheld(m) = u.login \ Withheld(m)
  /\ {Says(o) : o \in t.overrides} = {Says(o) : o \in u.overrides}
  /\ m = "workspace" => t.profile = u.profile
SameEnvironment(e, f, m) ==
  /\ e.name = f.name /\ Len(e.targets) = Len(f.targets)
  /\ \A j \in 1..Len(f.targets) : SameTarget(e.targets[j], f.targets[j], m)
SameForm(c, d, m) ==
  /\ c.hierarchy = d.hierarchy /\ (m = "workspace" => c.name = d.name)
  /\ Len(c.services) = Len(d.services)
  /\ \A i \in 1..Len(d.services) : SameService(c.services[i], d.services[i], m)
  /\ Len(c.environments) = Len(d.environments)
  /\ \A i \in 1..Len(d.environments) : SameEnvironment(c.environments[i], d.environments[i], m)

(* A target as it is read: a target's links are those its names make. *)
Reading(u, t, id, q) ==
  u = [[t EXCEPT !.ticked = IdsNamed(q, ToSet(t.names)),
                 !.overrides = {[o EXCEPT !.of = IdsNamed(q, {o.name})] : o \in t.overrides}]
         EXCEPT !.id = id]

OverrideAs(n, o, of) == n = [o EXCEPT !.of = of]

LEMMA OverrideRead ==
  ASSUME NEW o, IsOverride(o), NEW of, NEW n, OverrideAs(n, o, of)
  PROVE  IsOverride(n) /\ n.name = o.name /\ n.of = of /\ n.fields = o.fields
<1>1. o = [name |-> o.name, fields |-> o.fields, of |-> o.of]
  BY DEF IsOverride
<1>2. n = [name |-> o.name, fields |-> o.fields, of |-> of]
  BY <1>1 DEF OverrideAs
<1> QED BY ONLY <1>2 DEF IsOverride

LEMMA ReadingIs ==
  ASSUME NEW q, IsSeq(q), Apart(q), NEW t, IsTarget(t), NEW id, NEW u, Reading(u, t, id, q)
  PROVE  /\ IsTarget(u) /\ Links(u, q) /\ ToldOnly(u, q) /\ (Bare(t) => Bare(u))
         /\ SameTarget(u, t, mode)
<1> DEFINE ticked == IdsNamed(q, ToSet(t.names))
           overrides == {[o EXCEPT !.of = IdsNamed(q, {o.name})] : o \in t.overrides}
           v == [t EXCEPT !.ticked = ticked, !.overrides = overrides]
<1>1. t = [f \in TargetFields |-> t[f]] /\ IsSeq(t.names) /\ \A o \in t.overrides : IsOverride(o)
  BY IsTargetFields
<1>2. DOMAIN t = TargetFields
  BY <1>1
<1>3. u = [v EXCEPT !.id = id]
  BY DEF Reading
<1>4. \A o \in overrides : IsOverride(o) /\ \E x \in t.overrides :
         o.name = x.name /\ o.fields = x.fields /\ o.of = IdsNamed(q, {x.name})
  <2> SUFFICES ASSUME NEW o \in overrides
               PROVE  IsOverride(o) /\ \E x \in t.overrides :
                        o.name = x.name /\ o.fields = x.fields /\ o.of = IdsNamed(q, {x.name})
    OBVIOUS
  <2>1. PICK x \in t.overrides : o = [x EXCEPT !.of = IdsNamed(q, {x.name})]
    OBVIOUS
  <2> DEFINE of == IdsNamed(q, {x.name})
  <2>2. IsOverride(x) /\ OverrideAs(o, x, of)
    BY <1>1, <2>1 DEF OverrideAs
  <2> HIDE DEF of
  <2>3. IsOverride(o) /\ o.name = x.name /\ o.of = of /\ o.fields = x.fields
    BY ONLY <2>2, OverrideRead
  <2> QED BY <2>3 DEF of
<1>5. \A x \in t.overrides : \E o \in overrides : o.name = x.name /\ o.fields = x.fields
  <2> SUFFICES ASSUME NEW x \in t.overrides
               PROVE  \E o \in overrides : o.name = x.name /\ o.fields = x.fields
    OBVIOUS
  <2> DEFINE of == IdsNamed(q, {x.name})
             n  == [x EXCEPT !.of = of]
  <2>1. n \in overrides
    OBVIOUS
  <2>2. IsOverride(x) /\ OverrideAs(n, x, of)
    BY <1>1 DEF OverrideAs
  <2> HIDE DEF n, of, overrides
  <2>3. n.name = x.name /\ n.fields = x.fields
    BY ONLY <2>2, OverrideRead
  <2> QED BY <2>1, <2>3
<1>6. ticked \subseteq Told(q) /\ \A n : IdsNamed(q, {n}) \subseteq Told(q)
  BY DEF IdsNamed
<1>7. t.names = <<>> => ticked = {}
  <2> DEFINE n == t.names
  <2>2. IsSeq(n)
    BY <1>1
  <2> HIDE DEF n
  <2>4. ToSet(n) = Parts(n)
    BY <2>2, SeqParts
  <2>3. n = <<>> => ToSet(n) = {}
    BY ONLY <2>4, EmptyParts
  <2>1. t.names = <<>> => ToSet(t.names) = {}
    BY <2>3 DEF n
  <2> QED BY <2>1 DEF IdsNamed
<1>8. t.overrides = {} => overrides = {}
  OBVIOUS
<1>9. \A s \in Parts(q) : s.id \in ticked => s.name \in Parts(t.names)
  BY <1>1, IdsNamedAre, SeqParts
<1>10. \A s \in Parts(q) : \A n : s.id \in IdsNamed(q, {n}) => n = s.name
  BY IdsNamedAre
<1> HIDE DEF ticked, overrides, v
<1>11. v = [f \in TargetFields |-> IF f = "ticked" THEN ticked ELSE IF f = "overrides" THEN overrides ELSE t[f]]
  BY <1>2 DEF v, TargetFields
<1>12. DOMAIN v = TargetFields
  BY <1>11
<1>13. u = [f \in TargetFields |-> IF f = "id" THEN id ELSE v[f]]
  BY ONLY <1>3, <1>12 DEF TargetFields
<1>14. /\ u = [f \in TargetFields |-> u[f]] /\ u.ticked = ticked /\ u.overrides = overrides
       /\ u.name = t.name /\ u.type = t.type /\ u.address = t.address /\ u.login = t.login
       /\ u.names = t.names /\ u.profile = t.profile
  BY ONLY <1>11, <1>13 DEF TargetFields
<1>15. IsTarget(u)
  BY <1>1, <1>4, <1>14, IsTargetFields
<1>16. Links(u, q)
  <2>1. ASSUME NEW s \in Parts(q), NEW o \in u.overrides, s.id \in o.of PROVE o.name = s.name
    BY <1>4, <1>10, <1>14, <2>1
  <2> QED BY <1>9, <1>14, <2>1 DEF Links
<1>17. ToldOnly(u, q)
  BY <1>4, <1>6, <1>14 DEF ToldOnly
<1>18. Bare(t) => Bare(u)
  BY <1>7, <1>8, <1>14 DEF Bare
<1>19. {Says(o) : o \in u.overrides} = {Says(o) : o \in t.overrides}
  <2>1. \A o \in u.overrides : \E x \in t.overrides : Says(o) = Says(x)
    BY <1>4, <1>14 DEF Says
  <2>2. \A x \in t.overrides : \E o \in u.overrides : Says(o) = Says(x)
    BY <1>5, <1>14 DEF Says
  <2> QED BY ONLY <2>1, <2>2
<1>20. SameTarget(u, t, mode)
  BY <1>14, <1>19 DEF SameTarget
<1> QED BY <1>15, <1>16, <1>17, <1>18, <1>20

LEMMA ServicesRead ==
  ASSUME NEW q, IsSeq(q), \A s \in Parts(q) : IsService(s),
         NEW r, r = [i \in DOMAIN q |-> [q[i] EXCEPT !.id = i]]
  PROVE  /\ IsSeq(r) /\ Apart(r) /\ Len(r) = Len(q) /\ \A s \in Parts(r) : IsService(s)
         /\ \A i \in 1..Len(q) : SameService(r[i], q[i], mode)
<1>1. Len(q) \in Nat /\ DOMAIN q = 1..Len(q)
  BY SeqParts
<1>2. ASSUME NEW s, IsService(s), NEW id, NEW x, x = [s EXCEPT !.id = id]
      PROVE  IsService(x) /\ x.id = id /\ SameService(x, s, mode)
  <2>1. s = [id |-> s.id, name |-> s.name, provider |-> s.provider, resource |-> s.resource,
             own |-> s.own, conn |-> s.conn]
    BY <1>2 DEF IsService
  <2>2. DOMAIN s = ServiceFields
    BY ONLY <2>1 DEF ServiceFields
  <2>3. x = [f \in ServiceFields |-> IF f = "id" THEN id ELSE s[f]]
    BY ONLY <1>2, <2>2 DEF ServiceFields
  <2> QED BY ONLY <2>3 DEF IsService, ServiceFields, SameService
<1>3. \A i \in 1..Len(q) : IsService(r[i]) /\ r[i].id = i /\ SameService(r[i], q[i], mode)
  <2>1. \A i \in 1..Len(q) : r[i] = [q[i] EXCEPT !.id = i] /\ IsService(q[i])
    BY <1>1 DEF Parts
  <2> QED BY <1>2, <2>1
<1>4. r = [i \in 1..Len(q) |-> r[i]]
  BY <1>1
<1>5. IsSeq(r) /\ Len(r) = Len(q)
  BY ONLY <1>1, <1>4, FunctionIsSeq
<1>6. Apart(r) /\ \A s \in Parts(r) : IsService(s)
  BY ONLY <1>3, <1>5 DEF Apart, Parts
<1> QED BY <1>3, <1>5, <1>6

(* An environment as it is read. *)
EnvironmentReading(f, e, i, q) ==
  /\ f = [id |-> i, name |-> e.name, targets |-> f.targets]
  /\ f.targets = [j \in 1..Len(e.targets) |-> f.targets[j]]
  /\ \A j \in 1..Len(e.targets) : Reading(f.targets[j], e.targets[j], <<i, j>>, q)

LEMMA EnvironmentRead ==
  ASSUME NEW q, IsSeq(q), Apart(q), NEW e, IsEnvironment(e), NEW i, NEW f, EnvironmentReading(f, e, i, q)
  PROVE  /\ IsEnvironment(f) /\ SameEnvironment(f, e, mode)
         /\ \A u \in Parts(f.targets) : \E t \in Parts(e.targets) :
              Links(u, q) /\ ToldOnly(u, q) /\ (Bare(t) => Bare(u))
<1>1. /\ Len(e.targets) \in Nat /\ \A t \in Parts(e.targets) : IsTarget(t)
      /\ \A j \in 1..Len(e.targets) : e.targets[j] \in Parts(e.targets)
  <2>1. IsSeq(e.targets)
    BY DEF IsEnvironment
  <2> QED BY <2>1, SeqParts, PartsAre DEF IsEnvironment
<1>2. IsSeq(f.targets) /\ Len(f.targets) = Len(e.targets)
  <2> DEFINE n == Len(e.targets)
             g == f.targets
  <2>1. n \in Nat /\ g = [j \in 1..n |-> g[j]]
    BY <1>1 DEF EnvironmentReading
  <2> HIDE DEF n, g
  <2>2. IsSeq(g) /\ Len(g) = n
    BY ONLY <2>1, FunctionIsSeq
  <2> QED BY <2>2 DEF g, n
<1>3. ASSUME NEW j \in 1..Len(e.targets)
      PROVE  LET u == f.targets[j] t == e.targets[j]
             IN  /\ IsTarget(u) /\ Links(u, q) /\ ToldOnly(u, q) /\ (Bare(t) => Bare(u))
                 /\ SameTarget(u, t, mode)
  <2> DEFINE u == f.targets[j]
             t == e.targets[j]
             id == <<i, j>>
  <2>1. IsTarget(t) /\ Reading(u, t, id, q)
    BY <1>1 DEF EnvironmentReading
  <2> HIDE DEF u, t, id
  <2>2. /\ IsTarget(u) /\ Links(u, q) /\ ToldOnly(u, q) /\ (Bare(t) => Bare(u))
        /\ SameTarget(u, t, mode)
    BY <2>1, ReadingIs
  <2> QED BY <2>2 DEF u, t
<1>4. \A u \in Parts(f.targets) : \E j \in 1..Len(e.targets) : u = f.targets[j]
  BY <1>2 DEF Parts
<1>5. IsEnvironment(f)
  <2>1. \A u \in Parts(f.targets) : IsTarget(u)
    BY <1>3, <1>4
  <2>2. f.id = i /\ f.name = e.name
    BY DEF EnvironmentReading
  <2>3. f = [id |-> f.id, name |-> f.name, targets |-> f.targets]
    BY <2>2 DEF EnvironmentReading
  <2> QED BY <1>2, <2>1, <2>3 DEF IsEnvironment
<1>6. SameEnvironment(f, e, mode)
  <2>1. f.name = e.name
    BY DEF EnvironmentReading
  <2> QED BY <1>2, <1>3, <2>1 DEF SameEnvironment
<1> QED BY <1>1, <1>3, <1>4, <1>5, <1>6

LEMMA EnvironmentsRead ==
  ASSUME NEW q, IsSeq(q), Apart(q), NEW old, IsSeq(old), \A e \in Parts(old) : IsEnvironment(e),
         NEW new, new = [i \in 1..Len(old) |-> new[i]],
         \A i \in 1..Len(old) : EnvironmentReading(new[i], old[i], i, q)
  PROVE  /\ IsSeq(new) /\ Len(new) = Len(old) /\ \A e \in Parts(new) : IsEnvironment(e)
         /\ \A i \in 1..Len(old) : SameEnvironment(new[i], old[i], mode)
         /\ \A u \in TargetsIn(new) : \E t \in TargetsIn(old) :
              Links(u, q) /\ ToldOnly(u, q) /\ (Bare(t) => Bare(u))
<1>1. Len(old) \in Nat /\ \A i \in 1..Len(old) : old[i] \in Parts(old) /\ IsEnvironment(old[i])
  BY SeqParts, PartsAre
<1>2. IsSeq(new) /\ Len(new) = Len(old)
  BY ONLY <1>1, new = [i \in 1..Len(old) |-> new[i]], FunctionIsSeq
<1>3. \A i \in 1..Len(old) :
        /\ IsEnvironment(new[i]) /\ SameEnvironment(new[i], old[i], mode)
        /\ \A u \in Parts(new[i].targets) : \E t \in Parts(old[i].targets) :
             Links(u, q) /\ ToldOnly(u, q) /\ (Bare(t) => Bare(u))
  BY <1>1, EnvironmentRead
<1>4. \A e \in Parts(new) : \E i \in 1..Len(old) : e = new[i]
  BY <1>2 DEF Parts
<1>5. ASSUME NEW u \in TargetsIn(new)
      PROVE  \E t \in TargetsIn(old) : Links(u, q) /\ ToldOnly(u, q) /\ (Bare(t) => Bare(u))
  <2>1. PICK e \in Parts(new) : u \in Parts(e.targets)
    BY DEF TargetsIn
  <2>2. PICK i \in 1..Len(old) : e = new[i]
    BY <1>4
  <2>3. PICK t \in Parts(old[i].targets) : Links(u, q) /\ ToldOnly(u, q) /\ (Bare(t) => Bare(u))
    BY <1>3, <2>1, <2>2
  <2>4. t \in TargetsIn(old)
    BY <1>1, <2>3 DEF TargetsIn
  <2> QED BY <2>3, <2>4
<1> QED BY <1>2, <1>3, <1>4, <1>5

(* parseWorkspaceYaml. *)
LEMMA ReadGood ==
  ASSUME NEW c, IsForm(c), NEW m, Suits(c, m), NEW d, d = Read(c)
  PROVE  Good(d, m) /\ SameForm(d, c, mode) /\ d.name = c.name
<1> DEFINE offer == [i \in DOMAIN c.services |-> [c.services[i] EXCEPT !.id = i]]
           Linked(t) == [t EXCEPT !.ticked = IdsNamed(offer, ToSet(t.names)),
                          !.overrides = {[o EXCEPT !.of = IdsNamed(offer, {o.name})] : o \in t.overrides}]
           old  == c.environments
           envs == [i \in DOMAIN old |-> [old[i] EXCEPT !.targets =
                      [j \in DOMAIN old[i].targets |-> Linked(old[i].targets[j])]]]
           new  == [i \in DOMAIN envs |->
                      [envs[i] EXCEPT !.id = i,
                                      !.targets = [j \in DOMAIN envs[i].targets |->
                                                     [envs[i].targets[j] EXCEPT !.id = <<i, j>>]]]]
<1>1. d = [c EXCEPT !.services = offer, !.environments = new]
  BY DEF Read, MapTargets
<1>2. /\ IsSeq(c.services) /\ IsSeq(old) /\ \A e \in Parts(old) : IsEnvironment(e)
      /\ \A s \in Parts(c.services) : IsService(s)
  BY DEF IsForm
<1>3. /\ IsSeq(offer) /\ Apart(offer) /\ Len(offer) = Len(c.services)
      /\ \A s \in Parts(offer) : IsService(s)
      /\ \A i \in 1..Len(c.services) : SameService(offer[i], c.services[i], mode)
  <2> DEFINE q == c.services
             r == offer
  <2>1. r = [i \in DOMAIN q |-> [q[i] EXCEPT !.id = i]]
    OBVIOUS
  <2> HIDE DEF q, r
  <2>2. IsSeq(q) /\ \A s \in Parts(q) : IsService(s)
    BY <1>2 DEF q
  <2>3. /\ IsSeq(r) /\ Apart(r) /\ Len(r) = Len(q) /\ \A s \in Parts(r) : IsService(s)
        /\ \A i \in 1..Len(q) : SameService(r[i], q[i], mode)
    BY ONLY <2>1, <2>2, ServicesRead
  <2> QED BY <2>3 DEF q, r
<1> HIDE DEF offer
<1>4. DOMAIN old = 1..Len(old) /\ Len(old) \in Nat
  BY <1>2, SeqParts
<1>5. ASSUME NEW i \in 1..Len(old)
      PROVE  EnvironmentReading(new[i], old[i], i, offer)
  <2> DEFINE e == old[i]
             f == new[i]
             L == [j \in DOMAIN e.targets |-> Linked(e.targets[j])]
             g == [e EXCEPT !.targets = L]
             I == [j \in DOMAIN L |-> [L[j] EXCEPT !.id = <<i, j>>]]
  <2>1. IsEnvironment(e)
    BY <1>2, PartsAre
  <2>2. e = [id |-> e.id, name |-> e.name, targets |-> e.targets] /\ IsSeq(e.targets)
    BY <2>1 DEF IsEnvironment
  <2>3. DOMAIN e.targets = 1..Len(e.targets)
    BY ONLY <2>2, SeqParts
  <2>4. envs[i] = g /\ f = [g EXCEPT !.id = i, !.targets = [j \in DOMAIN g.targets |->
                                                              [g.targets[j] EXCEPT !.id = <<i, j>>]]]
    BY <1>4, ZenonT(40)
  <2>5. \A j \in 1..Len(e.targets) : Reading(I[j], e.targets[j], <<i, j>>, offer)
    BY <2>3, ZenonT(40) DEF Reading
  <2>6. I = [j \in 1..Len(e.targets) |-> I[j]]
    BY <2>3
  <2> HIDE DEF L, e, f, envs, new, Linked
  <2>7. g = [id |-> e.id, name |-> e.name, targets |-> L]
    BY ONLY <2>2
  <2> HIDE DEF g
  <2>8. g.targets = L
    BY ONLY <2>7
  <2>9. f = [g EXCEPT !.id = i, !.targets = I]
    BY ONLY <2>4, <2>8
  <2> HIDE DEF I
  <2>10. f = [id |-> i, name |-> e.name, targets |-> I]
    BY ONLY <2>7, <2>9
  <2>11. f.targets = I /\ f = [id |-> i, name |-> e.name, targets |-> f.targets]
    BY ONLY <2>10
  <2>12. EnvironmentReading(f, e, i, offer)
    BY ONLY <2>5, <2>6, <2>11 DEF EnvironmentReading
  <2> QED BY <2>12 DEF e, f
<1>6. new = [i \in 1..Len(old) |-> new[i]]
  BY <1>4
<1> HIDE DEF new
<1>7. /\ IsSeq(new) /\ Len(new) = Len(old) /\ \A e \in Parts(new) : IsEnvironment(e)
      /\ \A i \in 1..Len(old) : SameEnvironment(new[i], old[i], mode)
      /\ \A u \in TargetsIn(new) : \E t \in TargetsIn(old) :
           Links(u, offer) /\ ToldOnly(u, offer) /\ (Bare(t) => Bare(u))
  <2> HIDE DEF old
  <2> QED BY <1>2, <1>3, <1>5, <1>6, EnvironmentsRead
<1>8. d = [name |-> c.name, hierarchy |-> c.hierarchy, services |-> offer, environments |-> new]
  <2>1. DOMAIN c = {"name", "hierarchy", "services", "environments"}
    <3>1. c = [name |-> c.name, hierarchy |-> c.hierarchy, services |-> c.services, environments |-> c.environments]
      BY DEF IsForm
    <3> QED BY <3>1
  <2>2. d = [f \in {"name", "hierarchy", "services", "environments"} |->
               IF f = "services" THEN offer ELSE IF f = "environments" THEN new ELSE c[f]]
    BY ONLY <1>1, <2>1
  <2> QED BY ONLY <2>2
<1>9. d.services = offer /\ d.environments = new /\ d.name = c.name /\ d.hierarchy = c.hierarchy
  BY ONLY <1>8
<1>10. IsForm(d)
  BY ONLY <1>3, <1>7, <1>8, <1>9 DEF IsForm
<1>11. Suits(d, m)
  <2>1. /\ m # "workspace" => Len(old) \in {0, 1}
        /\ m = "service" => \A t \in TargetsIn(old) : Bare(t)
    BY DEF Suits
  <2> QED BY ONLY <1>7, <1>9, <2>1 DEF Suits
<1>12. Good(d, m)
  BY ONLY <1>3, <1>7, <1>9, <1>10, <1>11 DEF Good, Ready
<1>13. SameForm(d, c, mode)
  BY ONLY <1>3, <1>7, <1>9 DEF SameForm, old
<1> QED BY <1>9, <1>12, <1>13

(* The selector of a card that is shown may choose a profile. *)
AlikeLists(c, T) ==
  \A i \in 1..Len(c.environments) :
    /\ T[i] = [j \in 1..Len(c.environments[i].targets) |-> T[i][j]]
    /\ \A j \in 1..Len(c.environments[i].targets) : Alike(T[i][j], c.environments[i].targets[j])

LEMMA AlikeTargetsGood ==
  ASSUME NEW c, NEW m, Good(c, m), NEW T, AlikeLists(c, T),
         NEW d, d = [c EXCEPT !.environments = WithAll(c.environments, T)]
  PROVE  Good(d, m)
<1> DEFINE envs == WithAll(c.environments, T)
<1>1. IsForm(c)
  BY DEF Good, Ready
<1>2. ChangedLists(c, T)
  BY DEF AlikeLists, ChangedLists, Alike
<1>3. d = [c EXCEPT !.environments = envs]
  OBVIOUS
<1> HIDE DEF envs
<1>4. /\ IsSeq(envs) /\ Len(envs) = Len(c.environments) /\ \A e \in Parts(envs) : IsEnvironment(e)
      /\ \A t \in TargetsIn(envs) : ChangedFrom(t, c, T)
  BY <1>1, <1>2, TargetsChanged DEF envs
<1>5. IsForm(d) /\ d.services = c.services /\ d.environments = envs
  BY ONLY <1>1, <1>3, <1>4, WithEnvironments
<1>6. ASSUME NEW u \in TargetsIn(envs)
      PROVE  Fine(u, c.services, m) /\ ToldOnly(u, c.services)
  <2>1. PICK i \in 1..Len(c.environments) : \E j \in 1..Len(c.environments[i].targets) :
          u = T[i][j] /\ c.environments[i].targets[j] \in TargetsIn(c.environments)
    BY <1>4 DEF ChangedFrom
  <2>2. PICK j \in 1..Len(c.environments[i].targets) :
          u = T[i][j] /\ c.environments[i].targets[j] \in TargetsIn(c.environments)
    BY <2>1
  <2> DEFINE t == c.environments[i].targets[j]
  <2>3. Alike(u, t)
    BY <2>2 DEF AlikeLists
  <2>4. Fine(t, c.services, m) /\ ToldOnly(t, c.services)
    BY <2>2, FineTargets
  <2> HIDE DEF t
  <2>5. Fine(u, c.services, m)
    BY <2>3, <2>4, AlikeIsFine
  <2>6. ToldOnly(u, c.services)
    BY <2>3, <2>4 DEF Alike, ToldOnly
  <2> QED BY <2>5, <2>6
<1>7. Suits(d, m)
  <2>1. m # "workspace" => Len(c.environments) \in {0, 1}
    BY DEF Good, Ready, Suits
  <2> QED BY <1>4, <1>5, <1>6, <2>1 DEF Suits, Fine
<1>8. Apart(c.services)
  BY DEF Good, Ready
<1> QED BY <1>5, <1>6, <1>7, <1>8 DEF Good, Ready, Fine

LEMMA ListsOfForm ==
  ASSUME NEW c, IsForm(c)
  PROVE  /\ DOMAIN c.environments = 1..Len(c.environments) /\ Len(c.environments) \in Nat
         /\ \A i \in 1..Len(c.environments) :
              /\ DOMAIN c.environments[i].targets = 1..Len(c.environments[i].targets)
              /\ Len(c.environments[i].targets) \in Nat
              /\ \A j \in 1..Len(c.environments[i].targets) :
                   /\ IsTarget(c.environments[i].targets[j])
                   /\ c.environments[i].targets[j] \in TargetsIn(c.environments)
<1>1. IsSeq(c.environments) /\ \A i \in 1..Len(c.environments) : IsSeq(c.environments[i].targets)
  BY TargetsOfForm DEF IsEnvironment, IsForm
<1> QED BY <1>1, SeqParts, TargetsOfForm

LEMMA MountedGood ==
  ASSUME NEW c, Good(c, mode), NEW d, d = Mounted(c)
  PROVE  Good(d, mode)
<1>1. CASE mode # "service"
  BY <1>1 DEF Mounted
<1>2. CASE mode = "service"
  <2> DEFINE old == c.environments
             T == [i \in DOMAIN old |-> [j \in DOMAIN old[i].targets |-> AutoSelected(old[i].targets[j])]]
  <2>1. d = [c EXCEPT !.environments = WithAll(old, T)]
    BY <1>2 DEF Mounted, MapTargets, WithAll
  <2>2. IsForm(c)
    BY DEF Good, Ready
  <2>3. \A i \in 1..Len(old) : T[i] = [j \in 1..Len(old[i].targets) |-> T[i][j]]
    BY <2>2, ListsOfForm
  <2>4. \A i \in 1..Len(old) : \A j \in 1..Len(old[i].targets) : T[i][j] = AutoSelected(old[i].targets[j])
    BY <2>2, ListsOfForm
  <2>5. \A i \in 1..Len(old) : \A j \in 1..Len(old[i].targets) : Alike(T[i][j], old[i].targets[j])
    BY <2>2, <2>4, ListsOfForm, AutoAlike
  <2> HIDE DEF T
  <2>6. AlikeLists(c, T)
    BY <2>3, <2>5 DEF AlikeLists
  <2> QED BY <2>1, <2>6, AlikeTargetsGood
<1> QED BY <1>1, <1>2

LEMMA ShownGood ==
  ASSUME NEW c, NEW m, Good(c, m), NEW shows,
         NEW d,
         d = [c EXCEPT !.environments = MapTargets(c.environments,
                LAMBDA t : IF shows \/ t.id = openTarget
                           THEN IF Untouched(t) THEN WithProfile(t, FirstProfile) ELSE t
                           ELSE t)]
  PROVE  Good(d, m)
<1> DEFINE Showing(t) == IF shows \/ t.id = openTarget
                       THEN IF Untouched(t) THEN WithProfile(t, FirstProfile) ELSE t
                       ELSE t
           old == c.environments
           T == [i \in DOMAIN old |-> [j \in DOMAIN old[i].targets |-> Showing(old[i].targets[j])]]
<1>1. d = [c EXCEPT !.environments = WithAll(old, T)]
  BY DEF MapTargets, WithAll
<1>0. Good(c, m)
  OBVIOUS
<1>2. IsForm(c)
  BY ONLY <1>0 DEF Good, Ready
<1>3. \A i \in 1..Len(old) : T[i] = [j \in 1..Len(old[i].targets) |-> T[i][j]]
  BY <1>2, ListsOfForm, ZenonT(40)
<1>4. \A i \in 1..Len(old) : \A j \in 1..Len(old[i].targets) : T[i][j] = Showing(old[i].targets[j])
  BY <1>2, ListsOfForm
<1>5. \A t : IsTarget(t) => Alike(Showing(t), t)
  BY SelfAlike, ProfileAlike
<1> HIDE DEF T, Showing
<1>6. \A i \in 1..Len(old) : \A j \in 1..Len(old[i].targets) : Alike(T[i][j], old[i].targets[j])
  BY <1>2, <1>4, <1>5, ListsOfForm
<1>7. AlikeLists(c, T)
  BY <1>3, <1>6 DEF AlikeLists
<1> QED BY ONLY <1>0, <1>1, <1>7, AlikeTargetsGood DEF old

LEMMA OneInTurn ==
  ASSUME NEW x
  PROVE  IsSeq(<<x>>) /\ Parts(<<x>>) = {x} /\ Len(<<x>>) = 1 /\ Apart(<<x>>)
<1>1. <<x>> \in Seq({x}) /\ Len(<<x>>) = 1 /\ \A i \in 1..1 : <<x>>[i] = x
  OBVIOUS
<1> DEFINE q == <<x>>
<1> HIDE DEF q
<1>2. q \in Seq({x}) /\ Len(q) = 1 /\ \A i \in 1..1 : q[i] = x
  BY <1>1 DEF q
<1>3. IsSeq(q)
  BY <1>2 DEF IsSeq
<1>4. Parts(q) = {x} /\ Apart(q)
  BY <1>2 DEF Parts, Apart
<1> QED BY <1>2, <1>3, <1>4 DEF q

LEMMA FormIs ==
  ASSUME NEW c, NEW name, NEW order, NEW q, NEW envs,
         c = [name |-> name, hierarchy |-> order, services |-> q, environments |-> envs],
         IsSeq(q), \A s \in Parts(q) : IsService(s),
         IsSeq(envs), \A e \in Parts(envs) : IsEnvironment(e)
  PROVE  IsForm(c) /\ c.services = q /\ c.environments = envs /\ c.name = name /\ c.hierarchy = order
<1>1. c.services = q /\ c.environments = envs /\ c.name = name /\ c.hierarchy = order
  BY ONLY c = [name |-> name, hierarchy |-> order, services |-> q, environments |-> envs]
<1> QED BY <1>1 DEF IsForm

(* A form that has one environment, with the targets that are given. *)
LEMMA FormOfOne ==
  ASSUME NEW c, NEW name, NEW order, NEW q, NEW e, NEW m,
         c = [name |-> name, hierarchy |-> order, services |-> q, environments |-> <<e>>],
         IsSeq(q), \A s \in Parts(q) : IsService(s), IsEnvironment(e),
         m = "service" => \A t \in Parts(e.targets) : Bare(t)
  PROVE  IsForm(c) /\ Suits(c, m) /\ c.services = q /\ TargetsIn(c.environments) = Parts(e.targets)
<1>1. IsSeq(<<e>>) /\ Parts(<<e>>) = {e} /\ Len(<<e>>) = 1
  BY OneInTurn
<1> DEFINE envs == <<e>>
<1>2. c = [name |-> name, hierarchy |-> order, services |-> q, environments |-> envs]
  OBVIOUS
<1> HIDE DEF envs
<1>3. IsForm(c) /\ c.services = q /\ c.environments = envs
  BY ONLY <1>1, <1>2, IsSeq(q), \A s \in Parts(q) : IsService(s), IsEnvironment(e), FormIs DEF envs
<1>4. TargetsIn(c.environments) = Parts(e.targets)
  BY <1>1, <1>3 DEF TargetsIn, envs
<1>5. Suits(c, m)
  BY <1>1, <1>3, <1>4 DEF Suits, envs
<1> QED BY <1>3, <1>4, <1>5

LEMMA EmptyLinks ==
  ASSUME NEW t, Bare(t), NEW q
  PROVE  Links(t, q) /\ ToldOnly(t, q)
BY DEF Bare, Links, ToldOnly

LEMMA InitialGood ==
  ASSUME NEW m \in {"workspace", "environment", "service"}, NEW d, d = initialConfig(m)
  PROVE  Good(d, m)
<1>1. CASE m = "workspace"
  <2>1. d = [name |-> NoName, hierarchy |-> "default", services |-> <<>>, environments |-> <<>>]
    BY <1>1 DEF initialConfig, emptyConfig
  <2>2. IsForm(d) /\ d.services = <<>> /\ d.environments = <<>>
    BY <2>1, EmptyParts, FormIs
  <2>3. TargetsIn(<<>>) = {} /\ Apart(<<>>)
    BY EmptyParts DEF TargetsIn, Apart
  <2> QED BY <1>1, <2>2, <2>3 DEF Good, Ready, Suits
<1>2. CASE m = "environment"
  <2> DEFINE e == NewEnvironment(1, <<>>)
  <2>1. d = [name |-> NoName, hierarchy |-> "default", services |-> <<>>, environments |-> <<e>>]
    BY <1>2 DEF initialConfig, emptyConfig
  <2>2. IsEnvironment(e) /\ Parts(e.targets) = {}
    BY EmptyParts, NewEnvironmentIs
  <2> HIDE DEF e
  <2>3. IsForm(d) /\ Suits(d, m) /\ d.services = <<>> /\ TargetsIn(d.environments) = {}
    BY <2>1, <2>2, EmptyParts, FormOfOne
  <2>4. Apart(<<>>)
    BY EmptyParts DEF Apart
  <2> QED BY <2>3, <2>4 DEF Good, Ready
<1>3. CASE m = "service"
  <2> DEFINE t == NewTarget(<<1, 1>>)
             ts == <<t>>
             e == NewEnvironment(1, ts)
             s == NewService(1)
             q == <<s>>
  <2>1. d = [name |-> NoName, hierarchy |-> "default", services |-> q, environments |-> <<e>>]
    BY <1>3 DEF initialConfig, emptyConfig
  <2>2. IsService(s)
    BY NewServiceIs
  <2>3. IsTarget(t) /\ Bare(t)
    <3>1. IsTarget(t)
      BY NewTargetFine DEF Fine
    <3>2. Bare(t)
      BY DEF Bare, NewTarget
    <3> QED BY <3>1, <3>2
  <2> HIDE DEF t, s
  <2>4. IsSeq(ts) /\ Parts(ts) = {t} /\ IsSeq(q) /\ Parts(q) = {s} /\ Apart(q)
    BY OneInTurn
  <2> HIDE DEF ts, q
  <2>5. IsEnvironment(e) /\ e.targets = ts
    BY <2>3, <2>4, NewEnvironmentIs
  <2> HIDE DEF e
  <2>6. \A x \in Parts(e.targets) : Bare(x)
    BY <2>3, <2>4, <2>5
  <2>7. IsForm(d) /\ Suits(d, m) /\ d.services = q /\ TargetsIn(d.environments) = Parts(e.targets)
    BY <2>1, <2>2, <2>4, <2>5, <2>6, FormOfOne
  <2>8. \A x \in TargetsIn(d.environments) : Links(x, d.services) /\ ToldOnly(x, d.services)
    BY <2>6, <2>7, EmptyLinks
  <2> QED BY <2>4, <2>7, <2>8 DEF Good, Ready
<1> QED BY <1>1, <1>2, <1>3

LEMMA SampleGood ==
  ASSUME NEW k, NEW m, (k = "service") <=> (m = "service"), NEW d, d = Sample(k)
  PROVE  Good(d, m)
<1> DEFINE n  == CHOOSE n \in Names : TRUE
           o  == CHOOSE x \in Names \ {n} : TRUE
           s1 == [NewService(1) EXCEPT !.name = n, !.conn = "typed"]
           s2 == [NewService(2) EXCEPT !.name = o, !.provider = "s3", !.own = TRUE]
           t  == [NewTarget(<<1, 1>>) EXCEPT !.name = n, !.type = "ssh", !.address = TRUE,
                                             !.login = {"secret"}]
           u  == [t EXCEPT !.names = <<n>>]
           e  == NewEnvironment(1, <<t>>)
           f  == [NewEnvironment(1, <<u>>) EXCEPT !.name = IF k = "workspace" THEN n ELSE NoName]
           c  == [name |-> n, hierarchy |-> "default", services |-> <<s1>>, environments |-> <<e>>]
           g  == [name |-> n, hierarchy |-> "default", services |-> <<s1, s2>>, environments |-> <<f>>]
<1>1. d = Read(IF k = "service" THEN c ELSE g)
  BY DEF Sample
<1>2. IsService(s1) /\ IsService(s2)
  <2> HIDE DEF n, o
  <2>1. \A id : NewService(id) = [id |-> id, name |-> NoName, provider |-> "file", resource |-> NoResource,
                                          own |-> FALSE, conn |-> ""]
    BY DEF NewService
  <2>2. \A id : DOMAIN NewService(id) = ServiceFields
    BY ONLY <2>1 DEF ServiceFields
  <2> DEFINE x == NewService(1)
             y == NewService(2)
  <2>3. DOMAIN x = ServiceFields /\ DOMAIN y = ServiceFields
    BY <2>2
  <2>4. s1 = [x EXCEPT !.name = n, !.conn = "typed"] /\ s2 = [y EXCEPT !.name = o, !.provider = "s3", !.own = TRUE]
    OBVIOUS
  <2> HIDE DEF x, y, s1, s2
  <2>5. s1 = [i \in ServiceFields |-> IF i = "name" THEN n ELSE IF i = "conn" THEN "typed" ELSE x[i]]
    BY ONLY <2>3, <2>4 DEF ServiceFields
  <2>6. s2 = [i \in ServiceFields |-> IF i = "name" THEN o ELSE IF i = "provider" THEN "s3"
                                      ELSE IF i = "own" THEN TRUE ELSE y[i]]
    BY ONLY <2>3, <2>4 DEF ServiceFields
  <2>7. IsService(s1)
    BY ONLY <2>5 DEF IsService, ServiceFields
  <2>8. IsService(s2)
    BY ONLY <2>6 DEF IsService, ServiceFields
  <2> QED BY <2>7, <2>8
<1>3. IsTarget(t) /\ Bare(t) /\ IsTarget(u)
  <2> DEFINE v == NewTarget(<<1, 1>>)
  <2>1. v = [id |-> <<1, 1>>, name |-> NoName, type |-> "kubernetes", profile |-> NoProfile,
             address |-> FALSE, login |-> {}, names |-> <<>>, overrides |-> {}, ticked |-> {}]
    BY DEF NewTarget
  <2>2. DOMAIN v = TargetFields
    BY <2>1 DEF TargetFields
  <2>3. v.names = <<>> /\ v.overrides = {} /\ v.ticked = {}
    BY <2>1
  <2> HIDE DEF v, n
  <2>4. t = [h \in TargetFields |-> IF h = "name" THEN n ELSE IF h = "type" THEN "ssh"
                                    ELSE IF h = "address" THEN TRUE
                                    ELSE IF h = "login" THEN {"secret"} ELSE v[h]]
    BY ONLY <2>2 DEF TargetFields, t, v
  <2> DEFINE ns == <<n>>
  <2>5. u = [t EXCEPT !.names = ns]
    OBVIOUS
  <2>6. IsSeq(ns)
    BY OneInTurn
  <2> HIDE DEF t, u, ns
  <2>7. t = [h \in TargetFields |-> t[h]] /\ t.names = <<>> /\ t.overrides = {} /\ t.ticked = {}
    BY ONLY <2>3, <2>4 DEF TargetFields
  <2>8. DOMAIN t = TargetFields
    BY <2>7
  <2>9. u = [h \in TargetFields |-> IF h = "names" THEN ns ELSE t[h]]
    BY ONLY <2>5, <2>8 DEF TargetFields
  <2>10. u = [h \in TargetFields |-> u[h]] /\ u.names = ns /\ u.overrides = {}
    BY ONLY <2>7, <2>9 DEF TargetFields
  <2>11. IsTarget(u)
    BY <2>6, <2>10, IsTargetFields
  <2>12. IsTarget(t)
    BY <2>7, EmptyParts, IsTargetFields
  <2> QED BY <2>7, <2>11, <2>12 DEF Bare
<1> HIDE DEF s1, s2, t, u, n, o
<1>4. IsEnvironment(e) /\ Parts(e.targets) = {t}
  <2> DEFINE ts == <<t>>
  <2>1. IsSeq(ts) /\ Parts(ts) = {t}
    BY OneInTurn
  <2> HIDE DEF ts
  <2>2. IsEnvironment(NewEnvironment(1, ts)) /\ NewEnvironment(1, ts).targets = ts
    BY <1>3, <2>1, NewEnvironmentIs
  <2> QED BY <2>1, <2>2 DEF ts
<1>5. IsEnvironment(f)
  <2> DEFINE us == <<u>>
             h == NewEnvironment(1, us)
             name == IF k = "workspace" THEN n ELSE NoName
  <2>1. IsSeq(us) /\ Parts(us) = {u}
    BY OneInTurn
  <2>2. f = [h EXCEPT !.name = name]
    OBVIOUS
  <2> HIDE DEF us, name, f
  <2>3. h = [id |-> 1, name |-> NoName, targets |-> us]
    BY DEF NewEnvironment
  <2>4. f = [id |-> 1, name |-> name, targets |-> us]
    BY ONLY <2>2, <2>3
  <2>5. f.targets = us /\ f = [id |-> f.id, name |-> f.name, targets |-> f.targets]
    BY ONLY <2>4
  <2> QED BY <1>3, <2>1, <2>5 DEF IsEnvironment
<1> HIDE DEF e, f
<1>6. IsForm(c) /\ Suits(c, "service")
  <2> DEFINE q == <<s1>>
  <2>1. IsSeq(q) /\ Parts(q) = {s1}
    BY OneInTurn
  <2>2. c = [name |-> n, hierarchy |-> "default", services |-> q, environments |-> <<e>>]
    OBVIOUS
  <2> HIDE DEF q, c
  <2> QED BY <1>2, <1>3, <1>4, <2>1, <2>2, FormOfOne
<1>7. m # "service" => IsForm(g) /\ Suits(g, m)
  <2> DEFINE q == <<s1, s2>>
  <2>1. q \in Seq({s1, s2}) /\ Len(q) = 2 /\ q[1] = s1 /\ q[2] = s2
    OBVIOUS
  <2>2. g = [name |-> n, hierarchy |-> "default", services |-> q, environments |-> <<f>>]
    OBVIOUS
  <2> HIDE DEF q, g
  <2>3. IsSeq(q) /\ \A s \in Parts(q) : IsService(s)
    BY <1>2, <2>1 DEF IsSeq, Parts
  <2> QED BY <1>5, <2>2, <2>3, FormOfOne
<1> HIDE DEF c, g
<1>8. CASE m = "service"
  BY <1>1, <1>6, <1>8, ReadGood
<1>9. CASE m # "service"
  BY <1>1, <1>7, <1>9, ReadGood
<1> QED BY <1>8, <1>9

(* What is written of a form that has every name. *)
NamedParts(c, m) ==
  /\ m = "workspace" => c.name # NoName
  /\ \A i \in 1..Len(c.services) : c.services[i].name # NoName
  /\ m = "workspace" => \A i \in 1..Len(c.environments) : c.environments[i].name # NoName
  /\ \A i \in 1..Len(c.environments) : \A j \in 1..Len(c.environments[i].targets) :
       /\ c.environments[i].targets[j].name # NoName
       /\ NoName \notin Parts(c.environments[i].targets[j].names)

LEMMA NamedIs ==
  ASSUME NEW c, IsForm(c), Named(c)
  PROVE  NamedParts(c, mode)
<1>1. /\ TargetsOf(c) = TargetsIn(c.environments) /\ ToSet(c.services) = Parts(c.services)
      /\ \A i \in 1..Len(c.environments) : \A j \in 1..Len(c.environments[i].targets) :
           /\ c.environments[i].targets[j] \in TargetsIn(c.environments)
           /\ IsTarget(c.environments[i].targets[j])
  BY TargetsOfForm
<1>2. ToSet(c.environments) = Parts(c.environments)
  BY SeqParts DEF IsForm
<1>3. \A t \in TargetsIn(c.environments) : t.name # NoName /\ NoName \notin ToSet(t.names)
  BY <1>1 DEF Named
<1>4. \A t : IsTarget(t) => ToSet(t.names) = Parts(t.names)
  BY SeqParts DEF IsTarget
<1>5. \A i \in 1..Len(c.services) : c.services[i].name # NoName
  BY <1>1 DEF Named, Parts
<1>6. mode = "workspace" => \A i \in 1..Len(c.environments) : c.environments[i].name # NoName
  BY <1>2 DEF Named, Parts
<1>7. mode = "workspace" => c.name # NoName
  BY DEF Named
<1> QED BY <1>1, <1>3, <1>4, <1>5, <1>6, <1>7 DEF NamedParts

LEMMA SelfSame ==
  ASSUME NEW c PROVE SameForm(c, c, mode)
BY DEF SameForm, SameService, SameEnvironment, SameTarget

LEMMA SameAgain ==
  ASSUME NEW c, NEW d, NEW e, SameForm(c, d, mode), SameForm(d, e, mode)
  PROVE  SameForm(c, e, mode)
<1>1. ASSUME NEW i \in 1..Len(e.services)
      PROVE  SameService(c.services[i], e.services[i], mode)
  <2>1. SameService(c.services[i], d.services[i], mode) /\ SameService(d.services[i], e.services[i], mode)
    BY DEF SameForm
  <2> QED BY ONLY <2>1 DEF SameService
<1>2. \A t, u, v : SameTarget(t, u, mode) /\ SameTarget(u, v, mode) => SameTarget(t, v, mode)
  BY DEF SameTarget
<1>3. \A f, g, h : SameEnvironment(f, g, mode) /\ SameEnvironment(g, h, mode) => SameEnvironment(f, h, mode)
  BY <1>2 DEF SameEnvironment
<1>4. ASSUME NEW i \in 1..Len(e.environments)
      PROVE  SameEnvironment(c.environments[i], e.environments[i], mode)
  <2>1. /\ SameEnvironment(c.environments[i], d.environments[i], mode)
        /\ SameEnvironment(d.environments[i], e.environments[i], mode)
    BY DEF SameForm
  <2> QED BY ONLY <1>3, <2>1
<1>5. /\ c.hierarchy = e.hierarchy /\ (mode = "workspace" => c.name = e.name)
      /\ Len(c.services) = Len(e.services) /\ Len(c.environments) = Len(e.environments)
  BY DEF SameForm
<1> QED BY <1>1, <1>4, <1>5 DEF SameForm

LEMMA EmittedIs ==
  ASSUME NEW t, IsTarget(t), NEW u, u = emitTarget(t)
  PROVE  /\ IsTarget(u)
         /\ t.name # NoName /\ NoName \notin Parts(t.names) => SameTarget(u, t, mode)
<1> DEFINE name  == OrUnnamed(t.name)
           names == LeaveOut(t.names, {NoName})
<1>1. t = [f \in TargetFields |-> t[f]] /\ IsSeq(t.names) /\ \A o \in t.overrides : IsOverride(o)
  BY IsTargetFields
<1>2. DOMAIN t = TargetFields
  BY <1>1
<1>3. u = [t EXCEPT !.name = name, !.names = names]
  BY DEF emitTarget
<1>4. IsSeq(names) /\ (NoName \notin Parts(t.names) => names = t.names)
  BY <1>1, LeaveOutParts
<1>5. t.name # NoName => name = t.name
  BY DEF OrUnnamed
<1> HIDE DEF name, names
<1>6. u = [f \in TargetFields |-> IF f = "name" THEN name ELSE IF f = "names" THEN names ELSE t[f]]
  BY ONLY <1>2, <1>3 DEF TargetFields
<1>7. /\ u = [f \in TargetFields |-> u[f]] /\ u.name = name /\ u.names = names /\ u.type = t.type
      /\ u.address = t.address /\ u.login = t.login /\ u.overrides = t.overrides /\ u.profile = t.profile
  BY ONLY <1>6 DEF TargetFields
<1>8. IsTarget(u)
  BY <1>1, <1>4, <1>7, IsTargetFields
<1>9. t.name # NoName /\ NoName \notin Parts(t.names) => SameTarget(u, t, mode)
  BY ONLY <1>4, <1>5, <1>7 DEF SameTarget
<1> QED BY <1>8, <1>9

LEMMA UnprofiledIs ==
  ASSUME NEW t, IsTarget(t), NEW u, u = [t EXCEPT !.profile = NoProfile]
  PROVE  IsTarget(u) /\ Alike(u, t) /\ (mode # "workspace" => SameTarget(u, t, mode))
<1>1. t = [f \in TargetFields |-> t[f]] /\ IsSeq(t.names) /\ \A o \in t.overrides : IsOverride(o)
  BY IsTargetFields
<1>2. DOMAIN t = TargetFields
  BY <1>1
<1>3. u = [f \in TargetFields |-> IF f = "profile" THEN NoProfile ELSE t[f]]
  BY ONLY <1>2, u = [t EXCEPT !.profile = NoProfile] DEF TargetFields
<1>4. /\ u = [f \in TargetFields |-> u[f]] /\ u.name = t.name /\ u.names = t.names /\ u.type = t.type
      /\ u.address = t.address /\ u.login = t.login /\ u.overrides = t.overrides /\ u.ticked = t.ticked
  BY ONLY <1>3 DEF TargetFields
<1>5. IsTarget(u)
  BY <1>1, <1>4, IsTargetFields
<1> QED BY <1>4, <1>5 DEF Alike, SameTarget

(* Services and environments that are changed in their place. *)
LEMMA ServicesChanged ==
  ASSUME NEW q, IsSeq(q), NEW r, r = [i \in 1..Len(q) |-> r[i]], \A i \in 1..Len(q) : IsService(r[i])
  PROVE  IsSeq(r) /\ Len(r) = Len(q) /\ \A s \in Parts(r) : IsService(s)
<1>1. Len(q) \in Nat
  BY SeqParts
<1>2. IsSeq(r) /\ Len(r) = Len(q)
  BY ONLY <1>1, r = [i \in 1..Len(q) |-> r[i]], FunctionIsSeq
<1> QED BY <1>2 DEF Parts

LEMMA ServiceSetName ==
  ASSUME NEW s, IsService(s), NEW name, NEW x, x = [s EXCEPT !.name = name]
  PROVE  IsService(x) /\ (name = s.name => SameService(x, s, mode))
<1>1. s = [id |-> s.id, name |-> s.name, provider |-> s.provider, resource |-> s.resource,
           own |-> s.own, conn |-> s.conn]
  BY DEF IsService
<1>2. DOMAIN s = ServiceFields
  BY ONLY <1>1 DEF ServiceFields
<1>3. x = [f \in ServiceFields |-> IF f = "name" THEN name ELSE s[f]]
  BY ONLY <1>2, x = [s EXCEPT !.name = name] DEF ServiceFields
<1>4. IsService(x) /\ x.name = name /\ x.provider = s.provider /\ x.resource = s.resource
      /\ x.own = s.own /\ x.conn = s.conn
  BY ONLY <1>3 DEF IsService, ServiceFields
<1> QED BY ONLY <1>4 DEF SameService

LEMMA ServiceSetResource ==
  ASSUME NEW s, IsService(s), NEW x, x = [s EXCEPT !.resource = NoResource]
  PROVE  IsService(x) /\ (mode # "workspace" => SameService(x, s, mode))
<1>1. s = [id |-> s.id, name |-> s.name, provider |-> s.provider, resource |-> s.resource,
           own |-> s.own, conn |-> s.conn]
  BY DEF IsService
<1>2. DOMAIN s = ServiceFields
  BY ONLY <1>1 DEF ServiceFields
<1>3. x = [f \in ServiceFields |-> IF f = "resource" THEN NoResource ELSE s[f]]
  BY ONLY <1>2, x = [s EXCEPT !.resource = NoResource] DEF ServiceFields
<1>4. IsService(x) /\ x.name = s.name /\ x.provider = s.provider /\ x.own = s.own /\ x.conn = s.conn
  BY ONLY <1>3 DEF IsService, ServiceFields
<1> QED BY ONLY <1>4 DEF SameService

NamedTargets(e) ==
  \A j \in 1..Len(e.targets) : e.targets[j].name # NoName /\ NoName \notin Parts(e.targets[j].names)

(* An environment whose targets are changed and that is named. *)
LEMMA EnvironmentChanged ==
  ASSUME NEW e, IsEnvironment(e), NEW name, NEW L, NEW f,
         f = [id |-> e.id, name |-> name, targets |-> L],
         L = [j \in 1..Len(e.targets) |-> L[j]], \A j \in 1..Len(e.targets) : IsTarget(L[j])
  PROVE  /\ IsEnvironment(f)
         /\ name = e.name /\ (\A j \in 1..Len(e.targets) : SameTarget(L[j], e.targets[j], mode))
              => SameEnvironment(f, e, mode)
<1>1. Len(e.targets) \in Nat
  BY SeqParts DEF IsEnvironment
<1>2. IsSeq(L) /\ Len(L) = Len(e.targets)
  BY ONLY <1>1, L = [j \in 1..Len(e.targets) |-> L[j]], FunctionIsSeq
<1>3. f.id = e.id /\ f.name = name /\ f.targets = L
  BY ONLY f = [id |-> e.id, name |-> name, targets |-> L]
<1>4. f = [id |-> f.id, name |-> f.name, targets |-> f.targets]
  BY <1>3
<1>5. \A t \in Parts(L) : IsTarget(t)
  BY <1>2 DEF Parts
<1>6. IsEnvironment(f)
  BY ONLY <1>2, <1>3, <1>4, <1>5 DEF IsEnvironment
<1> QED BY <1>2, <1>3, <1>6 DEF SameEnvironment

(* generateYaml.ts. *)
LEMMA WorkspaceWritten ==
  ASSUME NEW c, IsForm(c), mode = "workspace", NEW d, d = generateWorkspaceYaml(c)
  PROVE  IsForm(d) /\ (NamedParts(c, mode) => SameForm(d, c, mode))
<1> DEFINE q    == c.services
           old  == c.environments
           T    == [i \in DOMAIN old |-> [j \in DOMAIN old[i].targets |-> emitTarget(old[i].targets[j])]]
           envs == WithAll(old, T)
           r    == [i \in DOMAIN q |-> [q[i] EXCEPT !.name = OrUnnamed(q[i].name)]]
           new  == [i \in DOMAIN envs |-> [envs[i] EXCEPT !.name = OrUnnamed(envs[i].name)]]
<1>1. d = [c EXCEPT !.name = OrUnnamed(c.name), !.services = r, !.environments = new]
  BY DEF generateWorkspaceYaml, MapTargets, WithAll
<1>2. /\ DOMAIN old = 1..Len(old) /\ Len(old) \in Nat /\ IsSeq(old)
      /\ \A i \in 1..Len(old) : IsEnvironment(old[i])
      /\ \A i \in 1..Len(old) : /\ DOMAIN old[i].targets = 1..Len(old[i].targets)
                                /\ \A j \in 1..Len(old[i].targets) : IsTarget(old[i].targets[j])
  <2>1. IsSeq(old)
    BY DEF IsForm
  <2>2. \A i \in 1..Len(old) : IsEnvironment(old[i])
    BY TargetsOfForm
  <2> QED BY <2>1, <2>2, ListsOfForm
<1>3. /\ DOMAIN q = 1..Len(q) /\ IsSeq(q) /\ \A i \in 1..Len(q) : IsService(q[i])
  <2>1. IsSeq(q) /\ \A s \in Parts(q) : IsService(s)
    BY DEF IsForm
  <2> QED BY <2>1, SeqParts, PartsAre
<1>4. \A i \in 1..Len(q) : IsService(r[i]) /\ (q[i].name # NoName => SameService(r[i], q[i], mode))
  <2>1. \A i \in 1..Len(q) : r[i] = [q[i] EXCEPT !.name = OrUnnamed(q[i].name)]
    BY <1>3
  <2>2. \A i \in 1..Len(q) : q[i].name # NoName => OrUnnamed(q[i].name) = q[i].name
    BY DEF OrUnnamed
  <2> QED BY <1>3, <2>1, <2>2, ServiceSetName
<1>5. r = [i \in 1..Len(q) |-> r[i]]
  BY <1>3
<1> HIDE DEF r
<1>6. IsSeq(r) /\ Len(r) = Len(q) /\ \A s \in Parts(r) : IsService(s)
  <2> HIDE DEF q
  <2> QED BY <1>3, <1>4, <1>5, ServicesChanged
<1>7. \A i \in 1..Len(old) :
        /\ T[i] = [j \in 1..Len(old[i].targets) |-> T[i][j]]
        /\ \A j \in 1..Len(old[i].targets) : T[i][j] = emitTarget(old[i].targets[j])
  BY <1>2
<1> HIDE DEF T
<1>8. \A i \in 1..Len(old) : \A j \in 1..Len(old[i].targets) :
        /\ IsTarget(T[i][j])
        /\ old[i].targets[j].name # NoName /\ NoName \notin Parts(old[i].targets[j].names)
             => SameTarget(T[i][j], old[i].targets[j], mode)
  BY <1>2, <1>7, EmittedIs
<1>9. ASSUME NEW i \in 1..Len(old)
      PROVE  new[i] = [id |-> old[i].id, name |-> OrUnnamed(old[i].name), targets |-> T[i]]
  <2> DEFINE e == old[i]
             g == envs[i]
             L == T[i]
  <2>1. e = [id |-> e.id, name |-> e.name, targets |-> e.targets]
    BY <1>2 DEF IsEnvironment
  <2>2. g = [e EXCEPT !.targets = L]
    BY <1>2 DEF WithAll
  <2>3. new[i] = [g EXCEPT !.name = OrUnnamed(g.name)]
    BY <1>2 DEF WithAll
  <2> HIDE DEF e, g, L, new, envs
  <2>4. g = [id |-> e.id, name |-> e.name, targets |-> L]
    BY ONLY <2>1, <2>2
  <2>5. g.name = e.name
    BY ONLY <2>4
  <2> DEFINE n == OrUnnamed(e.name)
  <2>6. new[i] = [g EXCEPT !.name = n]
    BY ONLY <2>3, <2>5
  <2> HIDE DEF n
  <2>7. new[i] = [id |-> e.id, name |-> n, targets |-> L]
    BY ONLY <2>4, <2>6
  <2> QED BY <2>7 DEF e, L, n
<1>10. new = [i \in 1..Len(old) |-> new[i]]
  BY <1>2 DEF WithAll
<1> HIDE DEF new, envs
<1>11. ASSUME NEW i \in 1..Len(old)
       PROVE  /\ IsEnvironment(new[i])
              /\ old[i].name # NoName /\ NamedTargets(old[i]) => SameEnvironment(new[i], old[i], mode)
  <2> DEFINE e == old[i]
             L == T[i]
             f == new[i]
             name == OrUnnamed(e.name)
  <2>1. IsEnvironment(e)
    BY <1>2
  <2>2. f = [id |-> e.id, name |-> name, targets |-> L]
    BY <1>9
  <2>3. /\ L = [j \in 1..Len(e.targets) |-> L[j]] /\ \A j \in 1..Len(e.targets) : IsTarget(L[j])
    BY <1>7, <1>8
  <2>4. NamedTargets(e) => \A j \in 1..Len(e.targets) : SameTarget(L[j], e.targets[j], mode)
    BY <1>8 DEF NamedTargets
  <2>5. e.name # NoName => name = e.name
    BY DEF OrUnnamed
  <2> HIDE DEF e, L, f, name
  <2>6. /\ IsEnvironment(f)
        /\ name = e.name /\ (\A j \in 1..Len(e.targets) : SameTarget(L[j], e.targets[j], mode))
             => SameEnvironment(f, e, mode)
    BY ONLY <2>1, <2>2, <2>3, EnvironmentChanged
  <2> QED BY <2>4, <2>5, <2>6 DEF e, f
<1>12. IsSeq(new) /\ Len(new) = Len(old) /\ \A e \in Parts(new) : IsEnvironment(e)
  <2> HIDE DEF old
  <2>1. IsSeq(new) /\ Len(new) = Len(old)
    BY ONLY <1>2, <1>10, FunctionIsSeq
  <2> QED BY <1>11, <2>1 DEF Parts
<1>13. d = [name |-> OrUnnamed(c.name), hierarchy |-> c.hierarchy, services |-> r, environments |-> new]
  <2> DEFINE n == OrUnnamed(c.name)
  <2>1. DOMAIN c = {"name", "hierarchy", "services", "environments"}
    <3>1. c = [name |-> c.name, hierarchy |-> c.hierarchy, services |-> c.services, environments |-> c.environments]
      BY DEF IsForm
    <3> QED BY <3>1
  <2>2. d = [c EXCEPT !.name = n, !.services = r, !.environments = new]
    BY <1>1
  <2> HIDE DEF n
  <2>3. d = [f \in {"name", "hierarchy", "services", "environments"} |->
               IF f = "name" THEN n ELSE IF f = "services" THEN r
               ELSE IF f = "environments" THEN new ELSE c[f]]
    BY ONLY <2>1, <2>2
  <2>4. d = [name |-> n, hierarchy |-> c.hierarchy, services |-> r, environments |-> new]
    BY ONLY <2>3
  <2> QED BY <2>4 DEF n
<1>14. IsForm(d) /\ d.services = r /\ d.environments = new /\ d.name = OrUnnamed(c.name)
       /\ d.hierarchy = c.hierarchy
  BY ONLY <1>6, <1>12, <1>13, FormIs
<1>15. ASSUME NamedParts(c, mode) PROVE SameForm(d, c, mode)
  <2>1. d.name = c.name
    BY <1>14, <1>15 DEF NamedParts, OrUnnamed
  <2>2. \A i \in 1..Len(q) : SameService(r[i], q[i], mode)
    BY <1>4, <1>15 DEF NamedParts
  <2>3. \A i \in 1..Len(old) : SameEnvironment(new[i], old[i], mode)
    BY <1>11, <1>15 DEF NamedParts, NamedTargets
  <2> QED BY ONLY <1>6, <1>12, <1>14, <2>1, <2>2, <2>3 DEF SameForm, q, old
<1> QED BY <1>14, <1>15

(* The bodies of the requests in App.tsx. *)
LEMMA BodyWritten ==
  ASSUME NEW c, IsForm(c), Suits(c, mode), mode # "workspace", NEW d, d = Body(c)
  PROVE  IsForm(d) /\ Suits(d, mode) /\ SameForm(d, c, mode)
<1> DEFINE q    == c.services
           old  == c.environments
           some == IF old = <<>> THEN <<>> ELSE <<old[1]>>
           T    == [i \in DOMAIN old |-> [j \in DOMAIN old[i].targets |->
                                            [old[i].targets[j] EXCEPT !.profile = NoProfile]]]
           envs == WithAll(old, T)
           r    == [i \in DOMAIN q |-> [q[i] EXCEPT !.resource = NoResource]]
<1>1. IsSeq(old) /\ Len(old) \in {0, 1}
  BY DEF IsForm, Suits
<1>2. some = old
  <2> DEFINE o == old
  <2> HIDE DEF o
  <2>1. IsSeq(o) /\ Len(o) \in {0, 1}
    BY <1>1 DEF o
  <2>2. Len(o) = 0 <=> o = <<>>
    BY <2>1, SeqParts
  <2>3. CASE Len(o) = 1
    <3>1. o = [i \in 1..1 |-> o[i]]
      BY <2>1, <2>3, SeqParts
    <3>2. <<o[1]>> = [i \in 1..1 |-> o[i]]
      OBVIOUS
    <3>3. o = <<o[1]>>
      BY ONLY <3>1, <3>2
    <3>4. o # <<>>
      BY <2>2, <2>3
    <3>5. (IF o = <<>> THEN <<>> ELSE <<o[1]>>) = <<o[1]>>
      BY ONLY <3>4
    <3> QED BY ONLY <3>3, <3>5 DEF o
  <2>4. CASE Len(o) = 0
    <3>1. o = <<>>
      BY <2>2, <2>4
    <3> QED BY ONLY <3>1 DEF o
  <2> QED BY <2>1, <2>3, <2>4
<1>3. d = [c EXCEPT !.services = r, !.environments = envs]
  <2>1. d = [c EXCEPT !.services = r,
                      !.environments = [i \in DOMAIN some |-> [some[i] EXCEPT !.targets =
                         [j \in DOMAIN some[i].targets |-> [some[i].targets[j] EXCEPT !.profile = NoProfile]]]]]
    BY DEF Body, MapTargets
  <2> HIDE DEF some, r
  <2>2. d = [c EXCEPT !.services = r,
                      !.environments = [i \in DOMAIN old |-> [old[i] EXCEPT !.targets =
                         [j \in DOMAIN old[i].targets |-> [old[i].targets[j] EXCEPT !.profile = NoProfile]]]]]
    BY ONLY <1>2, <2>1
  <2>3. [i \in DOMAIN old |-> [old[i] EXCEPT !.targets =
                         [j \in DOMAIN old[i].targets |-> [old[i].targets[j] EXCEPT !.profile = NoProfile]]]]
          = envs
    BY DEF WithAll
  <2> HIDE DEF envs
  <2> QED BY ONLY <2>2, <2>3
<1> HIDE DEF some
<1>4. /\ DOMAIN q = 1..Len(q) /\ IsSeq(q) /\ \A i \in 1..Len(q) : IsService(q[i])
  <2>1. IsSeq(q) /\ \A s \in Parts(q) : IsService(s)
    BY DEF IsForm
  <2> QED BY <2>1, SeqParts, PartsAre
<1>5. \A i \in 1..Len(q) : IsService(r[i]) /\ SameService(r[i], q[i], mode)
  <2>1. \A i \in 1..Len(q) : r[i] = [q[i] EXCEPT !.resource = NoResource]
    BY <1>4
  <2> QED BY <1>4, <2>1, ServiceSetResource
<1>6. r = [i \in 1..Len(q) |-> r[i]]
  BY <1>4
<1> HIDE DEF r
<1>7. IsSeq(r) /\ Len(r) = Len(q) /\ \A s \in Parts(r) : IsService(s)
  <2> HIDE DEF q
  <2> QED BY <1>4, <1>5, <1>6, ServicesChanged
<1>8. \A i \in 1..Len(old) :
        /\ T[i] = [j \in 1..Len(old[i].targets) |-> T[i][j]]
        /\ \A j \in 1..Len(old[i].targets) : T[i][j] = [old[i].targets[j] EXCEPT !.profile = NoProfile]
  BY ListsOfForm
<1> HIDE DEF T
<1>9. \A i \in 1..Len(old) : \A j \in 1..Len(old[i].targets) :
        /\ IsTarget(T[i][j]) /\ Alike(T[i][j], old[i].targets[j]) /\ SameTarget(T[i][j], old[i].targets[j], mode)
  <2> SUFFICES ASSUME NEW i \in 1..Len(old), NEW j \in 1..Len(old[i].targets)
               PROVE  IsTarget(T[i][j]) /\ Alike(T[i][j], old[i].targets[j]) /\ SameTarget(T[i][j], old[i].targets[j], mode)
    OBVIOUS
  <2> DEFINE t == old[i].targets[j]
             u == T[i][j]
  <2>1. IsTarget(t)
    BY ListsOfForm
  <2>2. u = [t EXCEPT !.profile = NoProfile]
    BY <1>8
  <2> HIDE DEF t, u
  <2>3. IsTarget(u) /\ Alike(u, t) /\ (mode # "workspace" => SameTarget(u, t, mode))
    BY ONLY <2>1, <2>2, UnprofiledIs
  <2> QED BY <2>3 DEF t, u
<1>10. ChangedLists(c, T)
  BY <1>8, <1>9 DEF ChangedLists
<1> HIDE DEF envs
<1>11. /\ IsSeq(envs) /\ Len(envs) = Len(old) /\ \A e \in Parts(envs) : IsEnvironment(e)
       /\ \A i \in 1..Len(envs) :
            /\ envs[i] = [id |-> old[i].id, name |-> old[i].name, targets |-> T[i]]
            /\ IsSeq(T[i]) /\ Len(T[i]) = Len(old[i].targets)
       /\ \A t \in TargetsIn(envs) : ChangedFrom(t, c, T)
  <2>1. IsForm(c)
    OBVIOUS
  <2>2. envs = WithAll(c.environments, T)
    BY DEF envs
  <2> HIDE DEF T
  <2>3. /\ IsSeq(envs) /\ Len(envs) = Len(c.environments) /\ \A e \in Parts(envs) : IsEnvironment(e)
        /\ \A i \in 1..Len(envs) :
             /\ envs[i] = [id |-> c.environments[i].id, name |-> c.environments[i].name, targets |-> T[i]]
             /\ IsSeq(T[i]) /\ Len(T[i]) = Len(c.environments[i].targets)
        /\ \A t \in TargetsIn(envs) : ChangedFrom(t, c, T)
    BY ONLY <1>10, <2>1, <2>2, TargetsChanged
  <2> QED BY ONLY <2>3 DEF old
<1>12. d = [name |-> c.name, hierarchy |-> c.hierarchy, services |-> r, environments |-> envs]
  <2>1. DOMAIN c = {"name", "hierarchy", "services", "environments"}
    <3>1. c = [name |-> c.name, hierarchy |-> c.hierarchy, services |-> c.services, environments |-> c.environments]
      BY DEF IsForm
    <3> QED BY <3>1
  <2>3. d = [f \in {"name", "hierarchy", "services", "environments"} |->
               IF f = "services" THEN r ELSE IF f = "environments" THEN envs ELSE c[f]]
    BY ONLY <1>3, <2>1
  <2> QED BY ONLY <2>3
<1>13. IsForm(d) /\ d.services = r /\ d.environments = envs /\ d.name = c.name /\ d.hierarchy = c.hierarchy
  BY ONLY <1>7, <1>11, <1>12, FormIs
<1>14. ASSUME mode = "service", NEW u \in TargetsIn(envs) PROVE Bare(u)
  <2>1. \A t \in TargetsIn(old) : Bare(t)
    BY <1>14 DEF Suits
  <2>2. PICK i \in 1..Len(old) : \E j \in 1..Len(old[i].targets) : u = T[i][j] /\ old[i].targets[j] \in TargetsIn(old)
    BY <1>11 DEF ChangedFrom
  <2>3. PICK j \in 1..Len(old[i].targets) : u = T[i][j] /\ old[i].targets[j] \in TargetsIn(old)
    BY <2>2
  <2>4. Alike(u, old[i].targets[j]) /\ Bare(old[i].targets[j])
    BY <1>9, <2>1, <2>3
  <2> QED BY ONLY <2>4 DEF Alike, Bare
<1>15. Suits(d, mode)
  BY <1>1, <1>11, <1>13, <1>14 DEF Suits
<1>16. \A i \in 1..Len(old) : SameEnvironment(envs[i], old[i], mode)
  <2> SUFFICES ASSUME NEW i \in 1..Len(old) PROVE SameEnvironment(envs[i], old[i], mode)
    OBVIOUS
  <2>2. /\ envs[i] = [id |-> old[i].id, name |-> old[i].name, targets |-> T[i]]
        /\ Len(T[i]) = Len(old[i].targets)
    BY <1>11
  <2>1. envs[i].name = old[i].name /\ envs[i].targets = T[i] /\ Len(T[i]) = Len(old[i].targets)
    BY ONLY <2>2
  <2> QED BY <1>9, <2>1 DEF SameEnvironment
<1>17. SameForm(d, c, mode)
  BY ONLY <1>5, <1>7, <1>11, <1>13, <1>16, mode # "workspace" DEF SameForm, q, old
<1> QED BY <1>13, <1>15, <1>17

(* Logins that are changed in their place, in what the form does not show. *)
LoginSet(u, t) ==
  \E login : u = [t EXCEPT !.login = login] /\ login \ Withheld(mode) = t.login \ Withheld(mode)
LoginLists(c, T) ==
  \A i \in 1..Len(c.environments) :
    /\ T[i] = [j \in 1..Len(c.environments[i].targets) |-> T[i][j]]
    /\ \A j \in 1..Len(c.environments[i].targets) : LoginSet(T[i][j], c.environments[i].targets[j])

LEMMA LoginSetIs ==
  ASSUME NEW t, IsTarget(t), NEW u, LoginSet(u, t)
  PROVE  IsTarget(u) /\ Alike(u, t) /\ SameTarget(u, t, mode)
<1>1. t = [f \in TargetFields |-> t[f]] /\ IsSeq(t.names) /\ \A o \in t.overrides : IsOverride(o)
  BY IsTargetFields
<1>2. DOMAIN t = TargetFields
  BY <1>1
<1>3. PICK login : u = [t EXCEPT !.login = login] /\ login \ Withheld(mode) = t.login \ Withheld(mode)
  BY DEF LoginSet
<1>4. u = [f \in TargetFields |-> IF f = "login" THEN login ELSE t[f]]
  BY ONLY <1>2, <1>3 DEF TargetFields
<1>5. /\ u = [f \in TargetFields |-> u[f]] /\ u.name = t.name /\ u.names = t.names /\ u.type = t.type
      /\ u.address = t.address /\ u.login = login /\ u.overrides = t.overrides /\ u.ticked = t.ticked
      /\ u.profile = t.profile
  BY ONLY <1>4 DEF TargetFields
<1>6. IsTarget(u)
  BY <1>1, <1>5, IsTargetFields
<1> QED BY <1>3, <1>5, <1>6 DEF Alike, SameTarget

LEMMA LoginsChanged ==
  ASSUME NEW c, IsForm(c), Suits(c, mode), NEW T, LoginLists(c, T),
         NEW d, d = [c EXCEPT !.environments = WithAll(c.environments, T)]
  PROVE  IsForm(d) /\ Suits(d, mode) /\ SameForm(d, c, mode)
<1> DEFINE old  == c.environments
           envs == WithAll(c.environments, T)
<1>1. \A i \in 1..Len(old) : \A j \in 1..Len(old[i].targets) :
        IsTarget(T[i][j]) /\ Alike(T[i][j], old[i].targets[j]) /\ SameTarget(T[i][j], old[i].targets[j], mode)
  BY ListsOfForm, LoginSetIs DEF LoginLists
<1>2. ChangedLists(c, T)
  BY <1>1 DEF LoginLists, ChangedLists
<1>3. d = [c EXCEPT !.environments = envs]
  OBVIOUS
<1> HIDE DEF envs
<1>4. /\ IsSeq(envs) /\ Len(envs) = Len(old) /\ \A e \in Parts(envs) : IsEnvironment(e)
      /\ \A i \in 1..Len(envs) :
           /\ envs[i] = [id |-> old[i].id, name |-> old[i].name, targets |-> T[i]]
           /\ IsSeq(T[i]) /\ Len(T[i]) = Len(old[i].targets)
      /\ \A t \in TargetsIn(envs) : ChangedFrom(t, c, T)
  BY <1>2, TargetsChanged DEF envs
<1>5. /\ IsForm(d) /\ d.services = c.services /\ d.environments = envs /\ d.name = c.name
      /\ d.hierarchy = c.hierarchy
  BY ONLY IsForm(c), <1>3, <1>4, WithEnvironments
<1>6. ASSUME mode = "service", NEW u \in TargetsIn(envs) PROVE Bare(u)
  <2>1. \A t \in TargetsIn(old) : Bare(t)
    BY <1>6 DEF Suits
  <2>2. PICK i \in 1..Len(old) : \E j \in 1..Len(old[i].targets) : u = T[i][j] /\ old[i].targets[j] \in TargetsIn(old)
    BY <1>4 DEF ChangedFrom
  <2>3. PICK j \in 1..Len(old[i].targets) : u = T[i][j] /\ old[i].targets[j] \in TargetsIn(old)
    BY <2>2
  <2>4. Alike(u, old[i].targets[j]) /\ Bare(old[i].targets[j])
    BY <1>1, <2>1, <2>3
  <2> QED BY ONLY <2>4 DEF Alike, Bare
<1>7. Suits(d, mode)
  BY <1>4, <1>5, <1>6 DEF Suits
<1>8. \A i \in 1..Len(old) : SameEnvironment(envs[i], old[i], mode)
  <2> SUFFICES ASSUME NEW i \in 1..Len(old) PROVE SameEnvironment(envs[i], old[i], mode)
    OBVIOUS
  <2>1. /\ envs[i] = [id |-> old[i].id, name |-> old[i].name, targets |-> T[i]]
        /\ Len(T[i]) = Len(old[i].targets)
    BY <1>4
  <2>2. envs[i].name = old[i].name /\ envs[i].targets = T[i] /\ Len(T[i]) = Len(old[i].targets)
    BY ONLY <2>1
  <2> QED BY <1>1, <2>2 DEF SameEnvironment
<1>9. \A i \in 1..Len(c.services) : SameService(c.services[i], c.services[i], mode)
  BY DEF SameService
<1>10. SameForm(d, c, mode)
  BY ONLY <1>4, <1>5, <1>8, <1>9 DEF SameForm, old
<1> QED BY <1>5, <1>7, <1>10

LEMMA PreservedIs ==
  ASSUME NEW c, IsForm(c), Suits(c, mode), mode = "workspace", NEW o,
         NEW d, d = preserveSensitiveTargetFields(c, o)
  PROVE  IsForm(d) /\ Suits(d, mode) /\ SameForm(d, c, mode)
<1> DEFINE had == c.environments
           T == [i \in DOMAIN had |-> [j \in DOMAIN had[i].targets |-> Refilled(o, had[i], had[i].targets[j])]]
<1>1. d = [c EXCEPT !.environments = WithAll(had, T)]
  <2>1. d = [c EXCEPT !.environments = [i \in DOMAIN had |-> [had[i] EXCEPT !.targets =
                        [j \in DOMAIN had[i].targets |-> Refilled(o, had[i], had[i].targets[j])]]]]
    BY ONLY d = preserveSensitiveTargetFields(c, o) DEF preserveSensitiveTargetFields
  <2> HIDE DEF had
  <2>2. WithAll(had, T) = [i \in DOMAIN had |-> [had[i] EXCEPT !.targets =
                             [j \in DOMAIN had[i].targets |-> Refilled(o, had[i], had[i].targets[j])]]]
    BY ONLY DEF WithAll
  <2> HIDE DEF T
  <2> QED BY ONLY <2>1, <2>2
<1>2. /\ \A i \in 1..Len(had) : T[i] = [j \in 1..Len(had[i].targets) |-> T[i][j]]
      /\ \A i \in 1..Len(had) : \A j \in 1..Len(had[i].targets) :
            T[i][j] = Refilled(o, had[i], had[i].targets[j]) /\ IsTarget(had[i].targets[j])
  BY ListsOfForm
<1> HIDE DEF T
<1>3. ASSUME NEW e, NEW t, IsTarget(t) PROVE LoginSet(Refilled(o, e, t), t)
  <2>1. CASE t.profile # NoProfile
    <3>1. t = [t EXCEPT !.login = t.login]
      <4>1. t = [f \in TargetFields |-> t[f]]
        BY <1>3, IsTargetFields
      <4> QED BY ONLY <4>1
    <3> QED BY <2>1, <3>1 DEF LoginSet, Refilled
  <2>2. CASE t.profile = NoProfile
    <3> DEFINE login == t.login \cup (OldLogin(o, e, t) \cap {"secret", "cert"})
    <3>1. login \ {"secret", "cert"} = t.login \ {"secret", "cert"}
      OBVIOUS
    <3>2. Refilled(o, e, t) = [t EXCEPT !.login = login]
      BY <2>2 DEF Refilled
    <3> HIDE DEF login
    <3> QED BY <3>1, <3>2, mode = "workspace" DEF LoginSet, Withheld
  <2> QED BY <2>1, <2>2
<1>4. LoginLists(c, T)
  <2>1. \A i \in 1..Len(had) : \A j \in 1..Len(had[i].targets) : LoginSet(T[i][j], had[i].targets[j])
    <3> SUFFICES ASSUME NEW i \in 1..Len(had), NEW j \in 1..Len(had[i].targets)
                 PROVE  LoginSet(T[i][j], had[i].targets[j])
      OBVIOUS
    <3> DEFINE t == had[i].targets[j]
               e == had[i]
    <3>1. IsTarget(t) /\ T[i][j] = Refilled(o, e, t)
      BY <1>2
    <3> HIDE DEF t, e
    <3>2. LoginSet(T[i][j], t)
      BY ONLY <1>3, <3>1
    <3> QED BY <3>2 DEF t
  <2> QED BY <1>2, <2>1 DEF LoginLists
<1> QED BY ONLY IsForm(c), Suits(c, mode), <1>1, <1>4, LoginsChanged DEF had

(* What the server keeps, and gives back. *)
LEMMA StoredIs ==
  ASSUME NEW c, IsForm(c), Suits(c, mode), NEW name, NEW d,
         NEW old,
         d = IF name = NoName THEN Written(c)
             ELSE IF mode = "workspace" THEN preserveSensitiveTargetFields(Written(c), old)
             ELSE [Written(c) EXCEPT !.name = name]
  PROVE  IsForm(d) /\ Suits(d, mode) /\ (NamedParts(c, mode) => SameForm(d, c, mode))
<1>1. CASE mode = "workspace"
  <2> DEFINE w == Written(c)
  <2>1. w = generateWorkspaceYaml(c)
    BY <1>1 DEF Written
  <2>2. d = w \/ d = preserveSensitiveTargetFields(w, old)
    BY <1>1
  <2> HIDE DEF w
  <2>3. IsForm(w) /\ (NamedParts(c, mode) => SameForm(w, c, mode))
    BY ONLY <1>1, <2>1, IsForm(c), WorkspaceWritten
  <2>4. Suits(w, mode)
    BY <1>1 DEF Suits
  <2>5. IsForm(d) /\ Suits(d, mode) /\ SameForm(d, w, mode)
    <3>1. CASE d = w
      BY <2>3, <2>4, <3>1, SelfSame
    <3>2. CASE d = preserveSensitiveTargetFields(w, old)
      BY ONLY <1>1, <2>3, <2>4, <3>2, PreservedIs
    <3> QED BY <2>2, <3>1, <3>2
  <2> QED BY ONLY <2>3, <2>5, SameAgain
<1>2. CASE mode # "workspace"
  <2> DEFINE b == Body(c)
  <2>1. Written(c) = b
    BY <1>2 DEF Written
  <2>2. IsForm(b) /\ Suits(b, mode) /\ SameForm(b, c, mode)
    BY <1>2, BodyWritten
  <2> HIDE DEF b
  <2>3. CASE d = b
    BY <2>2, <2>3
  <2>4. CASE d # b
    <3>1. d = [b EXCEPT !.name = name]
      BY <1>2, <2>1, <2>4
    <3>2. b = [name |-> b.name, hierarchy |-> b.hierarchy, services |-> b.services,
               environments |-> b.environments]
      BY <2>2 DEF IsForm
    <3>3. d = [name |-> name, hierarchy |-> b.hierarchy, services |-> b.services,
               environments |-> b.environments]
      BY ONLY <3>1, <3>2
    <3>4. d.hierarchy = b.hierarchy /\ d.services = b.services /\ d.environments = b.environments
      BY ONLY <3>3
    <3>5. d = [name |-> d.name, hierarchy |-> d.hierarchy, services |-> d.services,
               environments |-> d.environments]
      BY ONLY <3>3
    <3>6. IsForm(d)
      BY ONLY <2>2, <3>4, <3>5 DEF IsForm
    <3> QED BY ONLY <1>2, <2>2, <3>4, <3>6 DEF Suits, SameForm
  <2> QED BY <2>3, <2>4
<1> QED BY <1>1, <1>2

LEMMA BlankedIs ==
  ASSUME NEW c, IsForm(c), Suits(c, mode),
         NEW d, d = [c EXCEPT !.environments = MapTargets(c.environments, Blanked)]
  PROVE  IsForm(d) /\ Suits(d, mode) /\ SameForm(d, c, mode)
<1> DEFINE old == c.environments
           T == [i \in DOMAIN old |-> [j \in DOMAIN old[i].targets |-> Blanked(old[i].targets[j])]]
<1>1. d = [c EXCEPT !.environments = WithAll(old, T)]
  BY DEF MapTargets, WithAll
<1>2. /\ \A i \in 1..Len(old) : T[i] = [j \in 1..Len(old[i].targets) |-> T[i][j]]
      /\ \A i \in 1..Len(old) : \A j \in 1..Len(old[i].targets) : T[i][j] = Blanked(old[i].targets[j])
  BY ListsOfForm
<1> HIDE DEF T
<1>3. ASSUME NEW t PROVE LoginSet(Blanked(t), t)
  <2> DEFINE login == t.login \ {"secret"}
  <2>1. login \ Withheld(mode) = t.login \ Withheld(mode)
    BY DEF Withheld
  <2>2. Blanked(t) = [t EXCEPT !.login = login]
    BY DEF Blanked
  <2> HIDE DEF login
  <2> QED BY <2>1, <2>2 DEF LoginSet
<1>4. LoginLists(c, T)
  BY <1>2, <1>3 DEF LoginLists
<1> QED BY <1>1, <1>4, LoginsChanged

LEMMA ExportedIs ==
  ASSUME NEW c, IsForm(c), Suits(c, mode), NEW d, d = Exported(c)
  PROVE  IsForm(d) /\ Suits(d, mode)
<1>1. CASE d = [c EXCEPT !.environments = MapTargets(c.environments, Blanked)]
  BY <1>1, BlankedIs
<1>2. CASE d = [c EXCEPT !.environments = <<>>]
  <2> DEFINE envs == <<>>
  <2>1. d = [c EXCEPT !.environments = envs]
    BY <1>2
  <2>2. IsSeq(envs) /\ Parts(envs) = {} /\ Len(envs) = 0
    BY EmptyParts
  <2> HIDE DEF envs
  <2>3. IsForm(d) /\ d.environments = envs
    BY <2>1, <2>2, WithEnvironments
  <2>4. TargetsIn(envs) = {}
    BY <2>2 DEF TargetsIn
  <2> QED BY <2>2, <2>3, <2>4 DEF Suits
<1> QED BY <1>1, <1>2 DEF Exported

LEMMA ExportedKeeps ==
  ASSUME NEW c, IsForm(c), NEW d, IsForm(d), Suits(d, mode), SameForm(d, c, mode), NamedParts(c, mode)
  PROVE  SameForm(Exported(d), d, mode)
<1>0. SameForm([d EXCEPT !.environments = MapTargets(d.environments, Blanked)], d, mode)
  BY BlankedIs
<1> SUFFICES ASSUME mode = "service", TargetsOf(d) # {},
                    d.environments[1].targets[1].name = NoName
             PROVE  FALSE
  BY <1>0 DEF Exported
<1>1. TargetsIn(d.environments) # {}
  BY TargetsOfForm
<1>2. PICK e \in Parts(d.environments) : \E t : t \in Parts(e.targets)
  BY <1>1 DEF TargetsIn
<1>3. PICK i \in 1..Len(d.environments) : d.environments[i] = e
  BY <1>2 DEF Parts
<1>4. i = 1 /\ 1 \in 1..Len(c.environments) /\ Len(d.environments) = Len(c.environments)
  <2>1. Len(d.environments) \in {0, 1}
    BY DEF Suits
  <2> QED BY <1>3, <2>1 DEF SameForm
<1> DEFINE ts == d.environments[1].targets
<1>5. IsSeq(ts) /\ Parts(ts) # {}
  BY <1>2, <1>3, <1>4, TargetsOfForm DEF IsEnvironment
<1>6. Len(ts) \in Nat /\ Len(ts) # 0
  <2> HIDE DEF ts
  <2> QED BY <1>5, SeqParts DEF Parts
<1>7. 1 \in 1..Len(ts)
  <2> HIDE DEF ts
  <2> QED BY <1>6
<1>8. SameEnvironment(d.environments[1], c.environments[1], mode)
  BY <1>4 DEF SameForm
<1>9. 1 \in 1..Len(c.environments[1].targets) /\ ts[1].name = c.environments[1].targets[1].name
  BY <1>7, <1>8 DEF SameEnvironment, SameTarget
<1>10. c.environments[1].targets[1].name # NoName
  BY <1>4, <1>9 DEF NamedParts
<1> QED BY <1>9, <1>10

(* Forms that say the same have the same contents. *)
PlainService(s) == [s EXCEPT !.id = 0]
SourcelessService(s) ==
  [[s EXCEPT !.resource = NoResource, !.name = IF mode = "service" THEN NoName ELSE s.name] EXCEPT !.id = 0]
PlainTarget(t) ==
  [t EXCEPT !.id = 0, !.ticked = {}, !.login = t.login \ Withheld(mode),
            !.overrides = {[name |-> o.name, fields |-> o.fields] : o \in t.overrides}]
LoginlessTarget(t) == PlainTarget([t EXCEPT !.profile = NoProfile])

LEMMA SameServices ==
  ASSUME NEW s, IsService(s), NEW x, IsService(x), SameService(s, x, mode)
  PROVE  /\ mode = "workspace" => PlainService(s) = PlainService(x)
         /\ mode # "workspace" => SourcelessService(s) = SourcelessService(x)
<1>1. s = [id |-> s.id, name |-> s.name, provider |-> s.provider, resource |-> s.resource,
           own |-> s.own, conn |-> s.conn]
  BY DEF IsService
<1>2. x = [id |-> x.id, name |-> x.name, provider |-> x.provider, resource |-> x.resource,
           own |-> x.own, conn |-> x.conn]
  BY DEF IsService
<1>3. DOMAIN s = ServiceFields
  BY ONLY <1>1 DEF ServiceFields
<1>4. DOMAIN x = ServiceFields
  BY ONLY <1>2 DEF ServiceFields
<1>5. s.provider = x.provider /\ s.own = x.own /\ s.conn = x.conn
      /\ (mode # "service" => s.name = x.name) /\ (mode = "workspace" => s.resource = x.resource)
  BY DEF SameService
<1>6. \A y : DOMAIN y = ServiceFields =>
        PlainService(y) = [f \in ServiceFields |-> IF f = "id" THEN 0 ELSE y[f]]
  BY DEF ServiceFields, PlainService
<1>7. ASSUME mode = "workspace" PROVE PlainService(s) = PlainService(x)
  <2>1. \A f \in ServiceFields \ {"id"} : s[f] = x[f]
    BY <1>5, <1>7 DEF ServiceFields
  <2>2. [f \in ServiceFields |-> IF f = "id" THEN 0 ELSE s[f]]
          = [f \in ServiceFields |-> IF f = "id" THEN 0 ELSE x[f]]
    BY ONLY <2>1
  <2> QED BY ONLY <1>3, <1>4, <1>6, <2>2
<1>8. ASSUME NEW y, DOMAIN y = ServiceFields
      PROVE  SourcelessService(y) = [f \in ServiceFields |->
                IF f = "id" THEN 0 ELSE IF f = "resource" THEN NoResource
                ELSE IF f = "name" /\ mode = "service" THEN NoName ELSE y[f]]
  <2> DEFINE n == IF mode = "service" THEN NoName ELSE y.name
             z == [y EXCEPT !.resource = NoResource, !.name = n]
  <2>1. z = [f \in ServiceFields |-> IF f = "resource" THEN NoResource ELSE IF f = "name" THEN n ELSE y[f]]
    <3> HIDE DEF n
    <3> QED BY <1>8 DEF ServiceFields
  <2>2. SourcelessService(y) = [z EXCEPT !.id = 0]
    BY DEF SourcelessService
  <2> HIDE DEF z
  <2>3. DOMAIN z = ServiceFields
    BY <2>1
  <2>4. [z EXCEPT !.id = 0] = [f \in ServiceFields |-> IF f = "id" THEN 0 ELSE z[f]]
    BY <2>3 DEF ServiceFields
  <2>5. \A f \in ServiceFields : (IF f = "id" THEN 0 ELSE z[f])
            = IF f = "id" THEN 0 ELSE IF f = "resource" THEN NoResource
              ELSE IF f = "name" /\ mode = "service" THEN NoName ELSE y[f]
    BY ONLY <2>1 DEF ServiceFields
  <2> QED BY ONLY <2>2, <2>4, <2>5
<1>9. ASSUME mode # "workspace" PROVE SourcelessService(s) = SourcelessService(x)
  <2>1. \A f \in ServiceFields \ {"id", "resource", "name"} : s[f] = x[f]
    BY <1>5 DEF ServiceFields
  <2>2. mode # "service" => s["name"] = x["name"]
    BY <1>5
  <2>3. [f \in ServiceFields |-> IF f = "id" THEN 0 ELSE IF f = "resource" THEN NoResource
                                 ELSE IF f = "name" /\ mode = "service" THEN NoName ELSE s[f]]
          = [f \in ServiceFields |-> IF f = "id" THEN 0 ELSE IF f = "resource" THEN NoResource
                                     ELSE IF f = "name" /\ mode = "service" THEN NoName ELSE x[f]]
    BY ONLY <2>1, <2>2
  <2> QED BY ONLY <1>3, <1>4, <1>8, <2>3
<1> QED BY <1>7, <1>9

PlainFields(t, said, login) ==
  [f \in TargetFields |-> IF f = "id" THEN 0 ELSE IF f = "ticked" THEN {}
                          ELSE IF f = "login" THEN login ELSE IF f = "overrides" THEN said ELSE t[f]]

LEMMA SameTargets ==
  ASSUME NEW t, IsTarget(t), NEW u, IsTarget(u), SameTarget(t, u, mode)
  PROVE  /\ mode = "workspace" => PlainTarget(t) = PlainTarget(u)
         /\ mode # "workspace" => LoginlessTarget(t) = LoginlessTarget(u)
<1>1. DOMAIN t = TargetFields /\ DOMAIN u = TargetFields
  <2>1. t = [f \in TargetFields |-> t[f]] /\ u = [f \in TargetFields |-> u[f]]
    BY IsTargetFields
  <2> QED BY <2>1
<1> DEFINE said(y) == {[name |-> o.name, fields |-> o.fields] : o \in y.overrides}
<1>2. said(t) = said(u)
  BY DEF SameTarget, Says
<1>3. ASSUME NEW y, DOMAIN y = TargetFields
      PROVE  PlainTarget(y) = PlainFields(y, said(y), y.login \ Withheld(mode))
  <2> DEFINE s == said(y)
             l == y.login \ Withheld(mode)
  <2>1. PlainTarget(y) = [y EXCEPT !.id = 0, !.ticked = {}, !.login = l, !.overrides = s]
    BY DEF PlainTarget
  <2> HIDE DEF s, l
  <2>2. PlainTarget(y) = PlainFields(y, s, l)
    BY ONLY <1>3, <2>1 DEF TargetFields, PlainFields
  <2> QED BY ONLY <2>2 DEF s, l
<1>4. /\ t.name = u.name /\ t.type = u.type /\ t.address = u.address /\ t.names = u.names
      /\ t.login \ Withheld(mode) = u.login \ Withheld(mode)
      /\ (mode = "workspace" => t.profile = u.profile)
  BY DEF SameTarget
<1>5. ASSUME mode = "workspace" PROVE PlainTarget(t) = PlainTarget(u)
  <2> DEFINE a == said(t)
             b == said(u)
             l == t.login \ Withheld(mode)
             k == u.login \ Withheld(mode)
  <2>1. a = b /\ l = k
    BY <1>2, <1>4
  <2> HIDE DEF a, b, l, k
  <2>2. \A f \in TargetFields \ {"id", "ticked", "login", "overrides"} : t[f] = u[f]
    BY <1>4, <1>5 DEF TargetFields
  <2>3. PlainFields(t, a, l) = PlainFields(u, b, k)
    BY ONLY <2>1, <2>2 DEF PlainFields
  <2> QED BY ONLY <1>1, <1>3, <2>3 DEF a, b, l, k
<1>6. ASSUME mode # "workspace" PROVE LoginlessTarget(t) = LoginlessTarget(u)
  <2> DEFINE v == [t EXCEPT !.profile = NoProfile]
             w == [u EXCEPT !.profile = NoProfile]
  <2>1. v = [f \in TargetFields |-> IF f = "profile" THEN NoProfile ELSE t[f]]
    BY <1>1 DEF TargetFields
  <2>2. w = [f \in TargetFields |-> IF f = "profile" THEN NoProfile ELSE u[f]]
    BY <1>1 DEF TargetFields
  <2>3. LoginlessTarget(t) = PlainTarget(v) /\ LoginlessTarget(u) = PlainTarget(w)
    BY DEF LoginlessTarget
  <2> HIDE DEF v, w
  <2>4. DOMAIN v = TargetFields /\ DOMAIN w = TargetFields
    BY <2>1, <2>2
  <2>5. v.overrides = t.overrides /\ w.overrides = u.overrides /\ v.login = t.login /\ w.login = u.login
    BY ONLY <2>1, <2>2 DEF TargetFields
  <2> DEFINE a == said(v)
             b == said(w)
             l == v.login \ Withheld(mode)
             k == w.login \ Withheld(mode)
  <2>6. a = b /\ l = k
    BY <1>2, <1>4, <2>5
  <2> HIDE DEF a, b, l, k
  <2>7. \A f \in TargetFields \ {"id", "ticked", "login", "overrides"} : v[f] = w[f]
    BY ONLY <1>4, <2>1, <2>2 DEF TargetFields
  <2>8. PlainFields(v, a, l) = PlainFields(w, b, k)
    BY ONLY <2>6, <2>7 DEF PlainFields
  <2>9. PlainTarget(v) = PlainTarget(w)
    BY ONLY <1>3, <2>4, <2>8 DEF a, b, l, k
  <2> QED BY ONLY <2>3, <2>9
<1> QED BY <1>5, <1>6

LEMMA ListsSame ==
  ASSUME NEW c, IsForm(c), NEW d, IsForm(d), SameForm(c, d, mode)
  PROVE  /\ DOMAIN c.services = DOMAIN d.services /\ DOMAIN c.environments = DOMAIN d.environments
         /\ \A i \in DOMAIN d.services :
              IsService(c.services[i]) /\ IsService(d.services[i]) /\ SameService(c.services[i], d.services[i], mode)
         /\ \A i \in DOMAIN d.environments :
              /\ c.environments[i].name = d.environments[i].name
              /\ DOMAIN c.environments[i].targets = DOMAIN d.environments[i].targets
              /\ \A j \in DOMAIN d.environments[i].targets :
                   /\ IsTarget(c.environments[i].targets[j]) /\ IsTarget(d.environments[i].targets[j])
                   /\ SameTarget(c.environments[i].targets[j], d.environments[i].targets[j], mode)
<1>1. ASSUME NEW x, IsForm(x)
      PROVE  DOMAIN x.services = 1..Len(x.services) /\ \A i \in 1..Len(x.services) : IsService(x.services[i])
  <2>1. IsSeq(x.services) /\ \A s \in Parts(x.services) : IsService(s)
    BY <1>1 DEF IsForm
  <2> QED BY <2>1, SeqParts, PartsAre
<1>2. /\ Len(c.services) = Len(d.services)
      /\ \A i \in 1..Len(d.services) : SameService(c.services[i], d.services[i], mode)
  BY DEF SameForm
<1>3. /\ DOMAIN c.services = DOMAIN d.services
      /\ \A i \in DOMAIN d.services :
           IsService(c.services[i]) /\ IsService(d.services[i]) /\ SameService(c.services[i], d.services[i], mode)
  BY <1>1, <1>2
<1>4. /\ Len(c.environments) = Len(d.environments)
      /\ \A i \in 1..Len(d.environments) : SameEnvironment(c.environments[i], d.environments[i], mode)
  BY DEF SameForm
<1>5. DOMAIN c.environments = 1..Len(d.environments) /\ DOMAIN d.environments = 1..Len(d.environments)
  BY <1>4, ListsOfForm
<1>6. ASSUME NEW i \in 1..Len(d.environments)
      PROVE  /\ c.environments[i].name = d.environments[i].name
             /\ DOMAIN c.environments[i].targets = DOMAIN d.environments[i].targets
             /\ \A j \in DOMAIN d.environments[i].targets :
                  /\ IsTarget(c.environments[i].targets[j]) /\ IsTarget(d.environments[i].targets[j])
                  /\ SameTarget(c.environments[i].targets[j], d.environments[i].targets[j], mode)
  <2>1. SameEnvironment(c.environments[i], d.environments[i], mode)
    BY <1>4
  <2>2. /\ DOMAIN c.environments[i].targets = 1..Len(c.environments[i].targets)
        /\ DOMAIN d.environments[i].targets = 1..Len(d.environments[i].targets)
        /\ \A j \in 1..Len(c.environments[i].targets) : IsTarget(c.environments[i].targets[j])
        /\ \A j \in 1..Len(d.environments[i].targets) : IsTarget(d.environments[i].targets[j])
    BY <1>4, ListsOfForm
  <2> QED BY <2>1, <2>2 DEF SameEnvironment
<1> QED BY <1>3, <1>5, <1>6

PlainContents(c) ==
  [c EXCEPT !.name = IF mode = "workspace" THEN c.name ELSE NoName,
            !.services = [i \in DOMAIN c.services |-> PlainService(c.services[i])],
            !.environments = [i \in DOMAIN c.environments |->
               [name |-> c.environments[i].name,
                targets |-> [j \in DOMAIN c.environments[i].targets |-> PlainTarget(c.environments[i].targets[j])]]]]
SentContents(c) ==
  [c EXCEPT !.name = IF mode = "workspace" THEN c.name ELSE NoName,
            !.services = [i \in DOMAIN c.services |-> SourcelessService(c.services[i])],
            !.environments = [i \in DOMAIN c.environments |->
               [name |-> c.environments[i].name,
                targets |-> [j \in DOMAIN c.environments[i].targets |->
                               LoginlessTarget(c.environments[i].targets[j])]]]]

Filled(c, name, offer, environments) ==
  [c EXCEPT !.name = name, !.services = offer, !.environments = environments]

LEMMA FilledSame ==
  ASSUME NEW c, IsForm(c), NEW d, IsForm(d), c.hierarchy = d.hierarchy, NEW n, NEW q, NEW envs
  PROVE  Filled(c, n, q, envs) = Filled(d, n, q, envs)
<1> DEFINE F == {"name", "hierarchy", "services", "environments"}
<1>1. ASSUME NEW x, IsForm(x)
      PROVE  Filled(x, n, q, envs)
               = [name |-> n, hierarchy |-> x.hierarchy, services |-> q, environments |-> envs]
  <2>1. x = [name |-> x.name, hierarchy |-> x.hierarchy, services |-> x.services, environments |-> x.environments]
    BY <1>1 DEF IsForm
  <2>2. DOMAIN x = F
    BY ONLY <2>1
  <2> DEFINE y == [x EXCEPT !.name = n, !.services = q, !.environments = envs]
  <2>3. y = [f \in F |-> IF f = "name" THEN n ELSE IF f = "services" THEN q
                         ELSE IF f = "environments" THEN envs ELSE x[f]]
    BY ONLY <2>2
  <2> HIDE DEF y
  <2>4. y = [name |-> n, hierarchy |-> x.hierarchy, services |-> q, environments |-> envs]
    BY ONLY <2>3
  <2> QED BY <2>4 DEF y, Filled
<1> QED BY <1>1

LEMMA ContentsSame ==
  ASSUME NEW c, IsForm(c), NEW d, IsForm(d), SameForm(c, d, mode)
  PROVE  IF mode = "workspace" THEN PlainContents(c) = PlainContents(d) ELSE SentContents(c) = SentContents(d)
<1>1. /\ c.hierarchy = d.hierarchy
      /\ (IF mode = "workspace" THEN c.name ELSE NoName) = (IF mode = "workspace" THEN d.name ELSE NoName)
  BY DEF SameForm
<1>2. CASE mode = "workspace"
  <2> DEFINE S(x) == [i \in DOMAIN x.services |-> PlainService(x.services[i])]
             L(x, i) == [j \in DOMAIN x.environments[i].targets |-> PlainTarget(x.environments[i].targets[j])]
             E(x) == [i \in DOMAIN x.environments |-> [name |-> x.environments[i].name, targets |-> L(x, i)]]
             n(x) == IF mode = "workspace" THEN x.name ELSE NoName
  <2>1. S(c) = S(d)
    BY <1>2, ListsSame, SameServices
  <2>2. \A i \in DOMAIN d.environments : L(c, i) = L(d, i)
    BY <1>2, ListsSame, SameTargets
  <2>3. E(c) = E(d)
    <3>1. /\ DOMAIN c.environments = DOMAIN d.environments
          /\ \A i \in DOMAIN d.environments : c.environments[i].name = d.environments[i].name
      BY ListsSame
    <3> HIDE DEF L
    <3> QED BY ONLY <2>2, <3>1
  <2>4. PlainContents(c) = Filled(c, n(c), S(c), E(c))
    BY DEF PlainContents, Filled
  <2>5. PlainContents(d) = Filled(d, n(d), S(d), E(d))
    BY DEF PlainContents, Filled
  <2> HIDE DEF S, E, n
  <2>6. n(c) = n(d)
    BY <1>1 DEF n
  <2> DEFINE m == n(d)
             q == S(d)
             e == E(d)
  <2>8. PlainContents(c) = Filled(c, m, q, e)
    BY ONLY <2>1, <2>3, <2>4, <2>6
  <2>9. PlainContents(d) = Filled(d, m, q, e)
    BY ONLY <2>5
  <2> HIDE DEF m, q, e
  <2>10. PlainContents(c) = PlainContents(d)
    BY <1>1, <2>8, <2>9, FilledSame
  <2> QED BY ONLY <1>2, <2>10
<1>3. CASE mode # "workspace"
  <2> DEFINE S(x) == [i \in DOMAIN x.services |-> SourcelessService(x.services[i])]
             L(x, i) == [j \in DOMAIN x.environments[i].targets |-> LoginlessTarget(x.environments[i].targets[j])]
             E(x) == [i \in DOMAIN x.environments |-> [name |-> x.environments[i].name, targets |-> L(x, i)]]
             n(x) == IF mode = "workspace" THEN x.name ELSE NoName
  <2>1. S(c) = S(d)
    BY <1>3, ListsSame, SameServices
  <2>2. \A i \in DOMAIN d.environments : L(c, i) = L(d, i)
    BY <1>3, ListsSame, SameTargets
  <2>3. E(c) = E(d)
    <3>1. /\ DOMAIN c.environments = DOMAIN d.environments
          /\ \A i \in DOMAIN d.environments : c.environments[i].name = d.environments[i].name
      BY ListsSame
    <3> HIDE DEF L
    <3> QED BY ONLY <2>2, <3>1
  <2>4. SentContents(c) = Filled(c, n(c), S(c), E(c))
    BY DEF SentContents, Filled
  <2>5. SentContents(d) = Filled(d, n(d), S(d), E(d))
    BY DEF SentContents, Filled
  <2> HIDE DEF S, E, n
  <2>6. n(c) = n(d)
    BY <1>1 DEF n
  <2> DEFINE m == n(d)
             q == S(d)
             e == E(d)
  <2>8. SentContents(c) = Filled(c, m, q, e)
    BY ONLY <2>1, <2>3, <2>4, <2>6
  <2>9. SentContents(d) = Filled(d, m, q, e)
    BY ONLY <2>5
  <2> HIDE DEF m, q, e
  <2>10. SentContents(c) = SentContents(d)
    BY <1>1, <2>8, <2>9, FilledSame
  <2> QED BY ONLY <1>3, <2>10
<1> QED BY <1>2, <1>3

LEMMA ReopenedIs ==
  ASSUME IsForm(config),
         fresh => IsForm(kept) /\ (NamedParts(kept, mode) => SameForm(config, kept, mode))
  PROVE  SavedIsReopened
<1> SUFFICES ASSUME fresh, Named(kept), IsForm(kept), SameForm(config, kept, mode)
             PROVE  SavedIsReopened
  BY NamedIs DEF SavedIsReopened
<1>1. CASE mode = "workspace"
  <2>1. PlainContents(config) = PlainContents(kept)
    BY <1>1, ContentsSame
  <2> QED BY <1>1, <2>1 DEF SavedIsReopened, Contents, PlainContents, PlainService, PlainTarget
<1>2. CASE mode # "workspace"
  <2>1. SentContents(config) = SentContents(kept)
    BY <1>2, ContentsSame
  <2> QED BY <1>2, <2>1 DEF SavedIsReopened, Contents, SentContents, SourcelessService,
                            LoginlessTarget, PlainTarget
<1> QED BY <1>1, <1>2

(* What the importer asks for. *)
IsQuestion(q) ==
  /\ q = [for |-> q.for, cluster |-> q.cluster, namespace |-> q.namespace, chosen |-> q.chosen,
          names |-> q.names, at |-> q.at]
  /\ q.for \in {"namespaces", "workloads", "connecting"} /\ IsFiniteSet(q.chosen)
  /\ q.for = "workloads" => q.namespace \in DOMAIN Workloads
AreQuestions(q) == IsSeq(q) /\ \A x \in Parts(q) : IsQuestion(x)
AskedInv ==
  /\ AreQuestions(questions) /\ IsFiniteSet(chosen) /\ workloads \in DOMAIN Workloads \cup {Nowhere}

LEMMA RemoveAtParts ==
  ASSUME NEW q, IsSeq(q), NEW i \in 1..Len(q), NEW r, r = RemoveAt(q, i)
  PROVE  IsSeq(r) /\ Parts(r) \subseteq Parts(q)
<1> DEFINE S == Parts(q)
           a == SubSeq(q, 1, i - 1)
           b == SubSeq(q, i + 1, Len(q))
<1>1. q \in Seq(S)
  BY SeqParts
<1>2. r = a \o b
  BY DEF RemoveAt
<1> HIDE DEF S
<1>3. a \in Seq(S) /\ b \in Seq(S)
  BY <1>1
<1> HIDE DEF a, b
<1>4. r \in Seq(S)
  BY <1>2, <1>3, ConcatProperties
<1>5. IsSeq(r)
  BY <1>4 DEF IsSeq
<1>6. Parts(r) \subseteq S
  BY <1>4 DEF Parts
<1> QED BY <1>5, <1>6 DEF S

LEMMA ConnectionsAre ==
  ASSUME AreQuestions(questions)
  PROVE  /\ AreQuestions(Connections)
         /\ \A q \in Parts(questions) : q.for = "connecting" => q \in Parts(Connections)
<1> DEFINE gone == {q \in ToSet(questions) : q.for # "connecting"}
           r    == Connections
<1>1. IsSeq(questions)
  BY DEF AreQuestions
<1>2. r = LeaveOut(questions, gone)
  BY DEF Connections
<1> HIDE DEF r, gone
<1>3. IsSeq(r) /\ Parts(r) = Parts(questions) \ gone
  BY <1>1, <1>2, LeaveOutParts
<1>4. \A q \in Parts(questions) : q.for = "connecting" => q \in Parts(r)
  BY <1>3 DEF gone
<1>5. AreQuestions(r)
  BY <1>3 DEF AreQuestions
<1> QED BY <1>4, <1>5 DEF r

LEMMA ShowImporterKeeps ==
  ASSUME NEW target, NEW asks, AreQuestions(asks), ShowImporter(target, asks)
  PROVE  AskedInv' /\ importing' = target /\ questions' = asks
<1>1. IsFiniteSet({})
  BY FS_EmptySet
<1>2. questions' = asks /\ chosen' = {} /\ workloads' = Nowhere /\ importing' = target
  BY DEF ShowImporter
<1> QED BY <1>1, <1>2 DEF AskedInv, AreQuestions

LEMMA AskingKeeps ==
  ASSUME AskedInv, NEW for \in {"namespaces", "workloads", "connecting"}, NEW c, NEW ns, NEW known,
         for = "workloads" => ns \in DOMAIN Workloads,
         ask(for, c, ns, known)
  PROVE  AreQuestions(questions')
<1> DEFINE x == Question(for, c, ns, known)
<1>1. questions' = Append(questions, x)
  BY DEF ask
<1>2. IsQuestion(x)
  <2>1. x = [for |-> for, cluster |-> c, namespace |-> ns, chosen |-> chosen, names |-> known, at |-> importing]
    BY DEF Question
  <2> HIDE DEF x
  <2> QED BY <2>1 DEF IsQuestion, AskedInv
<1> HIDE DEF x
<1>3. IsSeq(Append(questions, x)) /\ Parts(Append(questions, x)) = Parts(questions) \cup {x}
  BY AppendParts DEF AskedInv, AreQuestions
<1> QED BY <1>1, <1>2, <1>3 DEF AskedInv, AreQuestions

(* A namespace has finitely many workloads, as a response of the server does. *)
WorkloadsAreFinite == \A ns \in DOMAIN Workloads : IsFiniteSet(Workloads[ns])

LEMMA ImporterKeeps ==
  ASSUME WorkloadsAreFinite, AskedInv, NEW known, ImporterStep(known)
  PROVE  AskedInv' /\ importing' = importing
<1>1. /\ AreQuestions(questions) /\ IsFiniteSet(chosen) /\ workloads \in DOMAIN Workloads \cup {Nowhere}
      /\ IsFiniteSet({}) /\ IsFiniteSet(Listed)
  <2>1. IsFiniteSet({})
    BY FS_EmptySet
  <2>2. Listed = {} \/ (workloads # Nowhere /\ Listed = Workloads[workloads])
    BY DEF Listed
  <2> QED BY <2>1, <2>2 DEF AskedInv, WorkloadsAreFinite
<1>2. ASSUME NEW c \in Clusters, handleResourceChange(c)
      PROVE  AskedInv' /\ importing' = importing
  <2>1. /\ chosen' = {} /\ workloads' = Nowhere /\ importing' = importing
        /\ ask("namespaces", c, Nowhere, {})
    BY <1>2 DEF handleResourceChange
  <2>2. AreQuestions(questions')
    BY <2>1, AskingKeeps
  <2> QED BY <1>1, <2>1, <2>2 DEF AskedInv, AreQuestions
<1>3. ASSUME NEW ns \in Namespaces, handleNamespaceChange(ns)
      PROVE  AskedInv' /\ importing' = importing
  <2>1. /\ chosen' = {} /\ workloads' = Nowhere /\ importing' = importing
        /\ ask("workloads", cluster, ns, {})
    BY <1>3 DEF handleNamespaceChange
  <2>2. ns \in DOMAIN Workloads
    BY DEF Namespaces
  <2>3. AreQuestions(questions')
    BY <2>1, <2>2, AskingKeeps
  <2> QED BY <1>1, <2>1, <2>3 DEF AskedInv, AreQuestions
<1>4. ASSUME NEW w \in Listed, toggleWorkload(w)
      PROVE  AskedInv' /\ importing' = importing
  <2>1. /\ chosen' = (IF w \in chosen THEN chosen \ {w} ELSE chosen \cup {w})
        /\ importing' = importing /\ workloads' = workloads /\ questions' = questions
    BY <1>4 DEF toggleWorkload
  <2>2. IsFiniteSet(chosen \ {w}) /\ IsFiniteSet(chosen \cup {w})
    BY <1>1, FS_RemoveElement, FS_AddElement
  <2> QED BY <1>1, <2>1, <2>2 DEF AskedInv, AreQuestions
<1>5. ASSUME SelectAll
      PROVE  AskedInv' /\ importing' = importing
  <2>1. /\ chosen' = {} \/ chosen' = Listed
        /\ importing' = importing /\ workloads' = workloads /\ questions' = questions
    BY <1>5 DEF SelectAll
  <2> QED BY <1>1, <2>1 DEF AskedInv, AreQuestions
<1>6. ASSUME handleConnect(known)
      PROVE  AskedInv' /\ importing' = importing
  <2>1. /\ ask("connecting", cluster, namespace, known)
        /\ importing' = importing /\ workloads' = workloads /\ chosen' = chosen
    BY <1>6 DEF handleConnect, choices
  <2>2. AreQuestions(questions')
    BY <2>1, AskingKeeps
  <2> QED BY <1>1, <2>1, <2>2 DEF AskedInv, AreQuestions
<1>7. ASSUME NEW i \in 1..Len(questions), Answered(i)
      PROVE  AreQuestions(questions') /\ IsQuestion(questions[i])
  <2> DEFINE r == RemoveAt(questions, i)
  <2>1. questions' = r
    BY <1>7 DEF Answered
  <2>2. IsSeq(questions) /\ IsQuestion(questions[i])
    BY <1>1 DEF AreQuestions, Parts
  <2>3. IsSeq(r) /\ Parts(r) \subseteq Parts(questions)
    BY <2>2, RemoveAtParts
  <2> HIDE DEF r
  <2> QED BY <1>1, <2>1, <2>2, <2>3 DEF AreQuestions
<1>8. ASSUME NEW i \in 1..Len(questions), NEW ok \in BOOLEAN, AnswerList(i, ok)
      PROVE  AskedInv' /\ importing' = importing
  <2>1. /\ Answered(i) /\ questions[i].for # "connecting" /\ importing' = importing /\ chosen' = chosen
        /\ workloads' = workloads \/ (questions[i].for # "namespaces" /\ workloads' = questions[i].namespace)
    BY <1>8 DEF AnswerList
  <2>2. AreQuestions(questions') /\ IsQuestion(questions[i])
    BY <1>7, <2>1
  <2>3. workloads' \in DOMAIN Workloads \cup {Nowhere}
    BY <1>1, <2>1, <2>2 DEF IsQuestion
  <2> QED BY <1>1, <2>1, <2>2, <2>3 DEF AskedInv, AreQuestions
<1>9. ASSUME NEW i \in 1..Len(questions), AnswerConnectFails(i)
      PROVE  AskedInv' /\ importing' = importing
  <2>1. Answered(i) /\ importing' = importing /\ chosen' = chosen /\ workloads' = workloads
    BY <1>9 DEF AnswerConnectFails, choices
  <2>2. AreQuestions(questions')
    BY <1>7, <2>1
  <2> QED BY <1>1, <2>1, <2>2 DEF AskedInv, AreQuestions
<1> QED BY <1>2, <1>3, <1>4, <1>5, <1>6, <1>8, <1>9 DEF ImporterStep

AreFilled(q) == IsSeq(q) /\ \A s \in Parts(q) : IsService(s)
AsKept(c, k, m) == IsForm(k) /\ (NamedParts(k, m) => SameForm(c, k, m))
FormInv ==
  /\ mode \in {"workspace", "environment", "service"} /\ Good(config, mode) /\ AskedInv
  /\ AreFilled(filling)
  /\ mode = "service" => filling = <<>> /\ importing = Nowhere /\ questions = <<>>
  /\ phase \in {"loading", "left"} =>
       IsForm(stored) /\ Suits(stored, mode) /\ filling = <<>> /\ AsKept(stored, kept, mode)
  /\ phase = "saving" => IsForm(sent) /\ Suits(sent, mode)
  /\ fresh => AsKept(config, kept, mode)

LEMMA FormInitially ==
  ASSUME BuilderInit
  PROVE  FormInv
<1>1. /\ mode \in {"workspace", "environment", "service"} /\ phase \in {"loading", "editing"}
      /\ stored = (IF phase = "loading" THEN Sample(mode) ELSE NoForm)
      /\ kept = stored /\ fresh = FALSE /\ config = initialConfig(mode)
      /\ filling = <<>> /\ ImporterClosed
  BY DEF BuilderInit
<1>2. Good(config, mode)
  BY <1>1, InitialGood
<1>3. AskedInv /\ importing = Nowhere /\ questions = <<>>
  <2>1. importing = Nowhere /\ workloads = Nowhere /\ chosen = {} /\ questions = <<>>
    BY <1>1 DEF ImporterClosed
  <2>2. AreQuestions(<<>>)
    BY EmptyParts DEF AreQuestions
  <2> QED BY <2>1, <2>2, FS_EmptySet DEF AskedInv
<1>4. phase = "loading" => IsForm(stored) /\ Suits(stored, mode) /\ AsKept(stored, kept, mode)
  <2>1. ASSUME phase = "loading" PROVE Good(stored, mode)
    BY <1>1, <2>1, SampleGood
  <2> QED BY <1>1, <2>1, SelfSame DEF Good, Ready, AsKept
<1>5. AreFilled(filling)
  BY <1>1, EmptyParts DEF AreFilled
<1> QED BY <1>1, <1>2, <1>3, <1>4, <1>5 DEF FormInv

LEMMA PutKeeps ==
  ASSUME FormInv, NEW c, Ready(c, mode), Put(c), mode' = mode, phase' = phase,
         phase \notin {"loading", "left"}, sent' = sent, AreFilled(filling'),
         mode = "service" => filling' = <<>> /\ importing' = Nowhere /\ questions' = <<>>, AskedInv'
  PROVE  FormInv'
<1>1. config' = Recall(c) /\ fresh' = FALSE
  BY DEF Put
<1>2. Good(config', mode)
  BY <1>1, RecallKeeps
<1> QED BY <1>1, <1>2 DEF FormInv

LEMMA EditKeeps ==
  ASSUME FormInv, NEW c, Ready(c, mode), Edit(c), UNCHANGED filling, UNCHANGED others
  PROVE  FormInv'
<1>1. /\ phase = "editing" /\ Put(c) /\ filling' = filling /\ mode' = mode /\ phase' = phase
      /\ sent' = sent /\ importing' = importing /\ questions' = questions /\ chosen' = chosen
      /\ workloads' = workloads
  BY DEF Edit, others, importerVars
<1>2. AskedInv'
  BY <1>1 DEF FormInv, AskedInv
<1> QED BY <1>1, <1>2, PutKeeps DEF FormInv

LEMMA OnlyKeeps ==
  ASSUME FormInv, NEW c, Ready(c, mode), Only(c)
  PROVE  FormInv'
<1>1. Edit(c) /\ filling' = filling /\ UNCHANGED others
  BY DEF Only
<1> QED BY <1>1, EditKeeps

LEMMA FormIsGood ==
  ASSUME FormInv
  PROVE  /\ Good(config, mode) /\ IsForm(config) /\ Apart(config.services)
         /\ ToSet(config.services) = Parts(config.services)
         /\ ToSet(config.environments) = Parts(config.environments)
         /\ \A s \in Parts(config.services) : IsService(s)
         /\ \A e \in Parts(config.environments) : ToSet(e.targets) = Parts(e.targets)
<1>1. Good(config, mode) /\ IsForm(config) /\ Apart(config.services)
  BY DEF FormInv, Good, Ready
<1>2. \A e \in Parts(config.environments) : IsSeq(e.targets)
  BY <1>1 DEF IsForm, IsEnvironment
<1> QED BY <1>1, <1>2, SeqParts DEF IsForm

(* A service is added, removed, copied or changed. *)
LEMMA ServicesKeep ==
  ASSUME FormInv, addService \/ \E s \in ToSet(config.services) :
                                          removeService(s) \/ cloneService(s)
  PROVE  FormInv'
<1>1. /\ Good(config, mode) /\ ToSet(config.services) = Parts(config.services) /\ IsSeq(filling)
  BY FormIsGood DEF FormInv, AreFilled
<1>2. CASE addService
  <2> DEFINE c == [config EXCEPT !.services = Append(@, NewService(FreshService))]
  <2>1. Only(c)
    BY <1>2 DEF addService, FreshService
  <2>2. Ready(c, mode)
    BY <1>1, AddServiceReady
  <2> HIDE DEF c
  <2> QED BY <2>1, <2>2, OnlyKeeps
<1>3. ASSUME NEW s \in Parts(config.services), removeService(s)
      PROVE  FormInv'
  <2> DEFINE c == [config EXCEPT !.services = LeaveOut(@, {s})]
  <2>1. Only(c)
    BY <1>3 DEF removeService
  <2>2. Ready(c, mode)
    BY <1>1, RemoveServiceReady
  <2> HIDE DEF c
  <2> QED BY <2>1, <2>2, OnlyKeeps
<1>4. ASSUME NEW s \in Parts(config.services), cloneService(s)
      PROVE  FormInv'
  <2> DEFINE name == Copied(s.name)
             c == [config EXCEPT !.services = InsertAt(@, At(@, s.id) + 1,
                                                [s EXCEPT !.id = FreshService, !.name = name])]
  <2>1. Only(c)
    BY <1>4 DEF cloneService, FreshService
  <2> HIDE DEF name
  <2>2. Ready(c, mode)
    BY <1>1, CloneServiceReady
  <2> HIDE DEF c
  <2> QED BY <2>1, <2>2, OnlyKeeps
<1> QED BY <1>1, <1>2, <1>3, <1>4

LEMMA ServiceSet ==
  ASSUME NEW s, IsService(s), NEW x, DOMAIN x = ServiceFields, x = [f \in ServiceFields |-> x[f]], x.id = s.id
  PROVE  IsService(x) /\ x.id = s.id
<1>1. x = [id |-> x.id, name |-> x.name, provider |-> x.provider, resource |-> x.resource,
           own |-> x.own, conn |-> x.conn]
  BY DEF ServiceFields
<1> QED BY <1>1 DEF IsService

LEMMA UpdateKeeps ==
  ASSUME FormInv, NEW s \in Parts(config.services), NEW x, IsService(x), x.id = s.id,
         updateService(s.id, x)
  PROVE  FormInv'
<1> DEFINE c == ServiceUpdated(config, s.id, x)
<1>1. Only(c)
  BY DEF updateService
<1>2. Ready(c, mode)
  BY FormIsGood, ServiceUpdatedReady
<1> HIDE DEF c
<1> QED BY <1>1, <1>2, OnlyKeeps

LEMMA SetServiceKeeps ==
  ASSUME FormInv, NEW s \in Parts(config.services), SetService(s)
  PROVE  FormInv'
<1>1. IsService(s)
  BY FormIsGood
<1>2. DOMAIN s = ServiceFields /\ s = [f \in ServiceFields |-> s[f]]
  BY <1>1 DEF IsService, ServiceFields
<1>3. ASSUME NEW x, IsService(x), x.id = s.id, updateService(s.id, x)
      PROVE  FormInv'
  BY <1>3, UpdateKeeps
<1>4. \A n : LET x == [s EXCEPT !.name = n] IN IsService(x) /\ x.id = s.id
  BY ONLY <1>1, <1>2 DEF IsService, ServiceFields
<1>5. ASSUME NEW p
      PROVE  LET x == [s EXCEPT !.provider = p, !.own = FALSE, !.conn = ""] IN IsService(x) /\ x.id = s.id
  <2> DEFINE x == [s EXCEPT !.provider = p, !.own = FALSE, !.conn = ""]
  <2>1. x = [f \in ServiceFields |-> IF f = "provider" THEN p ELSE IF f = "own" THEN FALSE
                                     ELSE IF f = "conn" THEN "" ELSE s[f]]
    BY ONLY <1>2 DEF ServiceFields
  <2> HIDE DEF x
  <2>2. DOMAIN x = ServiceFields /\ x = [f \in ServiceFields |-> x[f]] /\ x.id = s.id
    BY ONLY <2>1 DEF ServiceFields
  <2> QED BY <1>1, <2>2, ServiceSet DEF x
<1>6. LET x == [s EXCEPT !.own = ~s.own] IN IsService(x) /\ x.id = s.id
  BY ONLY <1>1, <1>2 DEF IsService, ServiceFields
<1>7. \A k : LET x == [s EXCEPT !.conn = k] IN IsService(x) /\ x.id = s.id
  BY ONLY <1>1, <1>2 DEF IsService, ServiceFields
<1>8. LET x == [s EXCEPT !.resource = NoResource, !.own = FALSE, !.conn = ""] IN IsService(x) /\ x.id = s.id
  <2> DEFINE x == [s EXCEPT !.resource = NoResource, !.own = FALSE, !.conn = ""]
  <2>1. x = [f \in ServiceFields |-> IF f = "resource" THEN NoResource ELSE IF f = "own" THEN FALSE
                                     ELSE IF f = "conn" THEN "" ELSE s[f]]
    BY ONLY <1>2 DEF ServiceFields
  <2> HIDE DEF x
  <2>2. DOMAIN x = ServiceFields /\ x = [f \in ServiceFields |-> x[f]] /\ x.id = s.id
    BY ONLY <2>1 DEF ServiceFields
  <2> QED BY <1>1, <2>2, ServiceSet DEF x
<1>9. \/ \E n : updateService(s.id, [s EXCEPT !.name = n])
      \/ \E p : updateService(s.id, [s EXCEPT !.provider = p, !.own = FALSE, !.conn = ""])
      \/ updateService(s.id, [s EXCEPT !.own = ~s.own])
      \/ \E k : updateService(s.id, [s EXCEPT !.conn = k])
      \/ updateService(s.id, [s EXCEPT !.resource = NoResource, !.own = FALSE, !.conn = ""])
  BY DEF SetService
<1>10. ASSUME NEW n, updateService(s.id, [s EXCEPT !.name = n]) PROVE FormInv'
  BY <1>3, <1>4, <1>10
<1>11. ASSUME NEW p, updateService(s.id, [s EXCEPT !.provider = p, !.own = FALSE, !.conn = ""])
       PROVE  FormInv'
  BY <1>3, <1>5, <1>11
<1>12. ASSUME NEW k, updateService(s.id, [s EXCEPT !.conn = k]) PROVE FormInv'
  BY <1>3, <1>7, <1>12
<1> QED BY <1>3, <1>6, <1>8, <1>9, <1>10, <1>11, <1>12

(* What is brought back for a service is put in its place, if it is there. *)
Fetched(x, s, r, k) == x = [s EXCEPT !.resource = r, !.conn = k]

LEMMA FillingIs ==
  ASSUME NEW s, IsService(s), NEW r, NEW k, NEW x, Fetched(x, s, r, k)
  PROVE  IsService(x) /\ x.id = s.id
<1>1. DOMAIN s = ServiceFields
  BY DEF IsService, ServiceFields
<1>2. x = [f \in ServiceFields |-> IF f = "resource" THEN r ELSE IF f = "conn" THEN k ELSE s[f]]
  BY ONLY <1>1, Fetched(x, s, r, k) DEF ServiceFields, Fetched
<1>3. DOMAIN x = ServiceFields /\ x = [f \in ServiceFields |-> x[f]] /\ x.id = s.id
  BY ONLY <1>2 DEF ServiceFields
<1> QED BY ONLY <1>3, IsService(s), ServiceSet

LEMMA SelectKept ==
  ASSUME FormInv, NEW s \in Parts(config.services), handleResourceSelect(s)
  PROVE  FormInv'
<1> DEFINE q == Append(filling, s)
<1>1. /\ filling' = q /\ mode # "service" /\ phase = "editing" /\ mode' = mode /\ phase' = phase
      /\ config' = config /\ fresh' = fresh /\ kept' = kept /\ chosen' = chosen /\ workloads' = workloads
      /\ questions' = questions
  BY DEF handleResourceSelect, importerVars
<1>2. AskedInv' /\ IsService(s)
  BY <1>1, FormIsGood DEF FormInv, AskedInv
<1>3. AreFilled(q)
  <2>1. IsSeq(filling) /\ \A x \in Parts(filling) : IsService(x)
    BY DEF FormInv, AreFilled
  <2>2. IsSeq(q) /\ Parts(q) = Parts(filling) \cup {s}
    BY <2>1, AppendParts
  <2> HIDE DEF q
  <2> QED BY <1>2, <2>1, <2>2 DEF AreFilled
<1> HIDE DEF q
<1> QED BY <1>1, <1>2, <1>3 DEF FormInv

LEMMA ResourceAnswered ==
  ASSUME FormInv, NEW i \in 1..Len(filling), NEW ok \in BOOLEAN, AnswerResource(i, ok)
  PROVE  FormInv'
<1> DEFINE left == RemoveAt(filling, i)
           asked == filling[i]
<1>1. /\ filling' = left /\ mode' = mode /\ phase' = phase /\ sent' = sent
      /\ stored' = stored /\ importing' = importing /\ questions' = questions /\ chosen' = chosen
      /\ workloads' = workloads
  BY DEF AnswerResource, others, importerVars
<1>2. IsSeq(filling) /\ \A x \in Parts(filling) : IsService(x)
  BY DEF FormInv, AreFilled
<1>3. IsService(asked) /\ filling # <<>>
  BY <1>2, SeqParts DEF Parts
<1>4. AreFilled(left)
  <2>1. IsSeq(left) /\ Parts(left) \subseteq Parts(filling)
    BY <1>2, RemoveAtParts
  <2> HIDE DEF left
  <2> QED BY <1>2, <2>1 DEF AreFilled
<1> HIDE DEF left
<1>5. AskedInv' /\ phase \notin {"loading", "left"} /\ mode # "service"
  BY <1>1, <1>3 DEF FormInv, AskedInv
<1>6. CASE ok /\ Has(config.services, asked.id)
  <2> DEFINE svc == [asked EXCEPT !.resource = Resource, !.conn = "fetched"]
             c   == ServiceUpdated(config, asked.id, svc)
  <2>1. Put(c)
    BY <1>6 DEF AnswerResource
  <2> HIDE DEF asked
  <2>2. IsService(svc) /\ svc.id = asked.id
    <3>1. Fetched(svc, asked, Resource, "fetched")
      BY DEF Fetched
    <3> HIDE DEF svc
    <3> QED BY <1>3, <3>1, FillingIs
  <2>3. PICK x \in Parts(config.services) : x.id = asked.id
    <3>1. \E k \in DOMAIN config.services : config.services[k].id = asked.id
      BY <1>6 DEF Has
    <3>2. IsSeq(config.services)
      BY FormIsGood DEF IsForm
    <3> QED BY <3>1, <3>2, SeqParts DEF Parts
  <2> HIDE DEF svc
  <2>4. Ready(c, mode)
    BY <2>2, <2>3, FormIsGood, ServiceUpdatedReady
  <2> HIDE DEF c
  <2> QED BY <1>1, <1>4, <1>5, <2>1, <2>4, PutKeeps
<1>7. CASE ~(ok /\ Has(config.services, asked.id))
  <2>1. config' = config /\ fresh' = fresh /\ kept' = kept
    BY <1>7 DEF AnswerResource
  <2> QED BY <1>1, <1>4, <1>5, <2>1 DEF FormInv
<1> QED BY <1>6, <1>7

(* An environment of a workspace is added, removed, copied or renamed. *)
LEMMA EnvironmentsKeep ==
  ASSUME FormInv, \/ addEnvironment
                  \/ \E e \in Parts(config.environments) :
                       \/ removeEnvironment(e) \/ cloneEnvironment(e)
                       \/ \E n \in Names \cup {NoName} : RenameEnvironment(e, n)
  PROVE  FormInv'
<1>1. mode = "workspace" /\ Good(config, "workspace")
  <2>1. mode = "workspace"
    BY DEF addEnvironment, removeEnvironment, cloneEnvironment, RenameEnvironment
  <2> QED BY <2>1, FormIsGood
<1>2. ASSUME NEW envs, SetEnvironments(envs), Ready([config EXCEPT !.environments = envs], "workspace")
      PROVE  FormInv'
  <2> DEFINE c == [config EXCEPT !.environments = envs]
  <2>1. Only(c)
    BY <1>2 DEF SetEnvironments
  <2>2. Ready(c, mode)
    BY <1>1, <1>2
  <2> HIDE DEF c
  <2> QED BY <2>1, <2>2, OnlyKeeps
<1>3. CASE addEnvironment
  <2> DEFINE id   == Fresh(EnvironmentIds)
             envs == Append(config.environments, NewEnvironment(id, <<>>))
  <2>1. SetEnvironments(envs)
    BY <1>3 DEF addEnvironment
  <2> HIDE DEF id
  <2>2. Ready([config EXCEPT !.environments = envs], "workspace")
    BY <1>1, AddEnvironmentReady
  <2> HIDE DEF envs
  <2> QED BY <1>2, <2>1, <2>2
<1>4. ASSUME NEW e \in Parts(config.environments), removeEnvironment(e)
      PROVE  FormInv'
  <2> DEFINE envs == LeaveOut(config.environments, {e})
  <2>1. SetEnvironments(envs)
    BY <1>4 DEF removeEnvironment
  <2>2. Ready([config EXCEPT !.environments = envs], "workspace")
    BY <1>1, RemoveEnvironmentReady
  <2> HIDE DEF envs
  <2> QED BY <1>2, <2>1, <2>2
<1>5. ASSUME NEW e \in Parts(config.environments), cloneEnvironment(e)
      PROVE  FormInv'
  <2> DEFINE id   == Fresh(EnvironmentIds)
             name == Copied(e.name)
             twin == [e EXCEPT !.id = id, !.name = name,
                               !.targets = [j \in DOMAIN @ |-> [@[j] EXCEPT !.id = <<id, j>>]]]
             envs == InsertAt(config.environments, At(config.environments, e.id) + 1, twin)
  <2>1. SetEnvironments(envs)
    BY <1>5 DEF cloneEnvironment
  <2> HIDE DEF id, name
  <2>2. IsEnvironment(twin) /\ \A t \in Parts(twin.targets) : Fine(t, config.services, "workspace")
    BY <1>1, TwinIsFine
  <2> HIDE DEF twin
  <2>3. Ready([config EXCEPT !.environments = envs], "workspace")
    BY <1>1, <2>2, CloneEnvironmentReady
  <2> HIDE DEF envs
  <2> QED BY <1>2, <2>1, <2>3
<1>6. ASSUME NEW e \in Parts(config.environments), NEW n, RenameEnvironment(e, n)
      PROVE  FormInv'
  <2> DEFINE envs == [config.environments EXCEPT ![At(config.environments, e.id)].name = n]
  <2>1. SetEnvironments(envs)
    BY <1>6 DEF RenameEnvironment
  <2>2. Ready([config EXCEPT !.environments = envs], "workspace")
    BY <1>1, RenameEnvironmentReady
  <2> HIDE DEF envs
  <2> QED BY <1>2, <2>1, <2>2
<1> QED BY <1>3, <1>4, <1>5, <1>6

(* A target is added, removed, copied or changed by its card. *)
LEMMA SetTargetsKeeps ==
  ASSUME FormInv, NEW e \in Parts(config.environments), NEW targets, NEW open,
         SetTargets(e, targets, open),
         Ready([config EXCEPT !.environments[At(config.environments, e.id)].targets = targets], mode)
  PROVE  FormInv'
<1> DEFINE c == [config EXCEPT !.environments[At(config.environments, e.id)].targets = targets]
<1>1. Edit(c) /\ UNCHANGED filling /\ UNCHANGED others
  BY DEF SetTargets
<1>2. Ready(c, mode)
  OBVIOUS
<1> HIDE DEF c
<1> QED BY <1>1, <1>2, EditKeeps

LEMMA TargetsKeep ==
  ASSUME FormInv, NEW e \in Parts(config.environments),
         \/ addTarget(e)
         \/ \E t \in Parts(e.targets) : removeTarget(e, t) \/ cloneTarget(e, t)
  PROVE  FormInv'
<1>1. Good(config, mode)
  BY FormIsGood
<1>2. CASE addTarget(e)
  <2> DEFINE id == FreshTarget(e)
             L  == Append(e.targets, NewTarget(id))
  <2>1. SetTargets(e, L, id)
    BY <1>2 DEF addTarget
  <2> HIDE DEF id
  <2>2. Ready([config EXCEPT !.environments[At(config.environments, e.id)].targets = L], mode)
    BY <1>1, AddTargetReady
  <2> HIDE DEF L
  <2> QED BY <2>1, <2>2, SetTargetsKeeps
<1>3. ASSUME NEW t \in Parts(e.targets), removeTarget(e, t)
      PROVE  FormInv'
  <2> DEFINE L == LeaveOut(e.targets, {t})
  <2>1. SetTargets(e, L, openTarget)
    BY <1>3 DEF removeTarget
  <2>2. Ready([config EXCEPT !.environments[At(config.environments, e.id)].targets = L], mode)
    BY <1>1, RemoveTargetReady
  <2> HIDE DEF L
  <2> QED BY <2>1, <2>2, SetTargetsKeeps
<1>4. ASSUME NEW t \in Parts(e.targets), cloneTarget(e, t)
      PROVE  FormInv'
  <2> DEFINE id   == FreshTarget(e)
             name == Copied(t.name)
             y    == [t EXCEPT !.id = id, !.name = name]
             x    == AutoSelected(y)
             L    == InsertAt(e.targets, At(e.targets, t.id) + 1, x)
  <2>1. SetTargets(e, L, id)
    BY <1>4 DEF cloneTarget
  <2>2. Fine(t, config.services, mode) /\ IsTarget(t)
    BY <1>1, EnvironmentsOf
  <2> HIDE DEF id, name
  <2>3. Alike(y, t)
    <3>1. DOMAIN t = TargetFields
      BY <2>2 DEF IsTarget, TargetFields
    <3>2. y = [f \in TargetFields |-> IF f = "id" THEN id ELSE IF f = "name" THEN name ELSE t[f]]
      BY ONLY <3>1 DEF TargetFields, y
    <3> HIDE DEF y
    <3>3. /\ DOMAIN y = DOMAIN t /\ y = [f \in DOMAIN y |-> y[f]]
          /\ y.names = t.names /\ y.overrides = t.overrides /\ y.ticked = t.ticked
      BY ONLY <3>1, <3>2 DEF TargetFields
    <3> QED BY <2>2, <3>3, CardAlike
  <2> HIDE DEF y
  <2>4. Alike(x, y)
    BY <2>3, AutoAlike DEF Alike
  <2> HIDE DEF x
  <2>5. Fine(x, config.services, mode)
    BY <2>2, <2>3, <2>4, AlikeAgain, AlikeIsFine
  <2>6. Ready([config EXCEPT !.environments[At(config.environments, e.id)].targets = L], mode)
    BY <1>1, <2>5, CloneTargetReady
  <2> HIDE DEF L
  <2> QED BY <2>1, <2>6, SetTargetsKeeps
<1> QED BY <1>2, <1>3, <1>4

LEMMA TargetSet ==
  ASSUME FormInv, NEW e \in Parts(config.environments), NEW t \in Parts(e.targets), SetTarget(e, t)
  PROVE  FormInv'
<1>1. Good(config, mode) /\ ToSet(config.services) = Parts(config.services)
  BY FormIsGood
<1>2. Fine(t, config.services, mode) /\ IsTarget(t) /\ Links(t, config.services) /\ ToldOnly(t, config.services)
  BY <1>1, EnvironmentsOf
<1>3. PICK new \in FieldsOf(t) \cup (IF mode = "service" THEN {}
                    ELSE WithOverride(t) \cup {Ticked(t, s) : s \in Offered}) :
        SetTargets(e, [e.targets EXCEPT ![At(e.targets, t.id)] = new], openTarget)
  BY DEF SetTarget
<1>4. Fine(new, config.services, mode)
  <2>1. CASE new \in FieldsOf(t)
    BY <1>2, <2>1, FieldsAlike, AlikeIsFine
  <2>2. CASE mode # "service" /\ new \in WithOverride(t)
    <3>1. PICK name \in ToSet(t.names), field \in {"one", "other"}, filled \in BOOLEAN :
            new = Overridden(t, name, field, filled)
      BY <2>2 DEF WithOverride
    <3> QED BY <1>1, <1>2, <2>2, <3>1, OverriddenFine
  <2>3. ASSUME mode # "service", NEW s \in Offered, new = Ticked(t, s)
        PROVE  Fine(new, config.services, mode)
    <3>1. s \in Parts(config.services)
      BY <1>1 DEF Offered
    <3> QED BY <1>1, <1>2, <2>3, <3>1, TickedFine
  <2> QED BY <1>3, <2>1, <2>2, <2>3
<1> DEFINE L == [e.targets EXCEPT ![At(e.targets, t.id)] = new]
<1>5. Ready([config EXCEPT !.environments[At(config.environments, e.id)].targets = L], mode)
  BY <1>1, <1>4, SetTargetReady
<1> HIDE DEF L
<1> QED BY <1>3, <1>5, SetTargetsKeeps DEF L

(* Unfolding a card changes its target where it is. *)
LEMMA TargetPlaced ==
  ASSUME NEW c, NEW m, Good(c, m), NEW a \in 1..Len(c.environments), NEW b, NEW x, Fine(x, c.services, m),
         NEW d, d = [c EXCEPT !.environments[a].targets[b] = x]
  PROVE  Ready(d, m)
<1> DEFINE old == c.environments[a].targets
           new == [old EXCEPT ![b] = x]
<1>1. c.environments[a] \in Parts(c.environments)
  BY DEF Parts
<1>2. IsSeq(old) /\ \A t \in Parts(old) : Fine(t, c.services, m)
  BY <1>1, EnvironmentsOf
<1>3. d = [c EXCEPT !.environments[a].targets = new]
  OBVIOUS
<1> HIDE DEF old
<1>4. DOMAIN new = DOMAIN old /\ \A i \in DOMAIN old : new[i] = x \/ new[i] = old[i]
  BY DEF new
<1>5. DOMAIN old = 1..Len(old) /\ Len(old) \in Nat
  BY <1>2, SeqParts
<1>6. IsSeq(new) /\ Len(new) = Len(old)
  <2>1. new = [i \in 1..Len(old) |-> new[i]]
    BY <1>5
  <2> HIDE DEF new
  <2> QED BY <1>5, <2>1, FunctionIsSeq
<1> HIDE DEF new
<1>7. \A t \in Parts(new) : Fine(t, c.services, m)
  BY <1>2, <1>4, <1>5, <1>6 DEF Parts
<1> QED BY <1>3, <1>6, <1>7, OtherTargets

LEMMA UnfoldKeeps ==
  ASSUME FormInv, NEW e \in Parts(config.environments), NEW t \in Parts(e.targets), Unfold(e, t)
  PROVE  FormInv'
<1> DEFINE a == At(config.environments, e.id)
           b == At(e.targets, t.id)
           x == AutoSelected(t)
           c == [config EXCEPT !.environments[a].targets[b] = x]
<1>1. Good(config, mode)
  BY FormIsGood
<1>2. Fine(t, config.services, mode) /\ IsTarget(t)
  BY <1>1, EnvironmentsOf
<1>3. Fine(x, config.services, mode)
  BY <1>2, AutoAlike, AlikeIsFine
<1>4. /\ phase = "editing" /\ filling' = filling /\ mode' = mode /\ phase' = phase
      /\ sent' = sent /\ importing' = importing /\ questions' = questions /\ chosen' = chosen
      /\ workloads' = workloads
  BY DEF Unfold, others, importerVars
<1>5. AskedInv'
  BY <1>4 DEF FormInv, AskedInv
<1>6. CASE x = t
  <2>1. config' = config /\ fresh' = fresh /\ kept' = kept
    BY <1>6 DEF Unfold
  <2> QED BY <1>4, <1>5, <2>1 DEF FormInv
<1>7. CASE x # t
  <2>1. Put(c)
    BY <1>7 DEF Unfold
  <2>2. a \in 1..Len(config.environments)
    BY <1>1, EnvironmentsOf, AtFinds
  <2> HIDE DEF a, b, x
  <2>3. Ready(c, mode)
    BY <1>1, <1>3, <2>2, TargetPlaced
  <2> HIDE DEF c
  <2>4. phase \notin {"loading", "left"}
    BY <1>4
  <2> QED BY <1>4, <1>5, <2>1, <2>3, <2>4, PutKeeps DEF FormInv
<1> QED BY <1>6, <1>7

LEMMA NameKeeps ==
  ASSUME FormInv, NEW name, SetName(name)
  PROVE  FormInv'
<1> DEFINE c == [config EXCEPT !.name = name,
                   !.services = IF mode = "service" /\ @ # <<>> THEN [@ EXCEPT ![1].name = name] ELSE @]
<1>1. Only(c)
  BY DEF SetName
<1>2. Ready(c, mode)
  BY FormIsGood, SetNameReady
<1> HIDE DEF c
<1> QED BY <1>1, <1>2, OnlyKeeps

LEMMA HierarchyKeeps ==
  ASSUME FormInv, SetHierarchy
  PROVE  FormInv'
<1> DEFINE order == IF config.hierarchy = "default" THEN "service-first" ELSE "default"
           c     == [config EXCEPT !.hierarchy = order]
<1>1. Only(c)
  BY DEF SetHierarchy
<1> HIDE DEF order
<1>2. Ready(c, mode)
  BY FormIsGood, SetHierarchyReady
<1> HIDE DEF c
<1> QED BY <1>1, <1>2, OnlyKeeps

LEMMA OnlyServiceKeeps ==
  ASSUME FormInv, SetOnlyService
  PROVE  FormInv'
<1>1. mode = "service" /\ config.services # <<>> /\ Good(config, "service")
  BY FormIsGood DEF SetOnlyService
<1>2. ASSUME NEW c, Only(c), Ready(c, "service") PROVE FormInv'
  BY <1>1, <1>2, OnlyKeeps
<1>3. \/ \E p : Only([config EXCEPT !.services[1].provider = p, !.services[1].own = FALSE,
                                            !.services[1].conn = ""])
      \/ Only([config EXCEPT !.services[1].own = ~@])
      \/ Only([config EXCEPT !.services[1].conn = IF @ = "" THEN "typed" ELSE ""])
  BY DEF SetOnlyService
<1>4. ASSUME NEW p, Only([config EXCEPT !.services[1].provider = p, !.services[1].own = FALSE,
                                                !.services[1].conn = ""])
      PROVE  FormInv'
  <2> DEFINE c == [config EXCEPT !.services[1].provider = p, !.services[1].own = FALSE,
                                 !.services[1].conn = ""]
  <2>1. Only(c) /\ Ready(c, "service")
    BY <1>1, <1>4, SetOnlyProviderReady
  <2> HIDE DEF c
  <2> QED BY <1>2, <2>1
<1>5. ASSUME Only([config EXCEPT !.services[1].own = ~@]) PROVE FormInv'
  <2> DEFINE c == [config EXCEPT !.services[1].own = ~@]
  <2>1. Only(c) /\ Ready(c, "service")
    BY <1>1, <1>5, SetOnlyOwnReady
  <2> HIDE DEF c
  <2> QED BY <1>2, <2>1
<1>6. ASSUME Only([config EXCEPT !.services[1].conn = IF @ = "" THEN "typed" ELSE ""]) PROVE FormInv'
  <2> DEFINE c == [config EXCEPT !.services[1].conn = IF @ = "" THEN "typed" ELSE ""]
  <2>1. Only(c) /\ Ready(c, "service")
    BY <1>1, <1>6, SetOnlyConnectionReady
  <2> HIDE DEF c
  <2> QED BY <1>2, <2>1
<1> QED BY <1>3, <1>4, <1>5, <1>6

LEMMA ImporterShown ==
  ASSUME FormInv, NEW target, NEW asks, AreQuestions(asks), ShowImporter(target, asks),
         mode = "service" => target = Nowhere /\ asks = <<>>,
         UNCHANGED <<mode, config, phase, filling, sent, stored, kept, fresh>>
  PROVE  FormInv'
<1>1. AskedInv' /\ importing' = target /\ questions' = asks
  BY ShowImporterKeeps
<1> QED BY <1>1 DEF FormInv

LEMMA ImporterOpens ==
  ASSUME FormInv, \/ \E t \in TargetsOf(config) : OpenImporter(t)
                  \/ CloseImporter
  PROVE  FormInv'
<1> DEFINE asks == Connections
<1>1. AreQuestions(asks)
  BY ConnectionsAre DEF FormInv, AskedInv
<1>2. PICK target : /\ ShowImporter(target, asks) /\ mode # "service"
                    /\ UNCHANGED <<mode, config, phase, filling, sent, stored, kept, fresh>>
  <2>1. ASSUME NEW t, OpenImporter(t)
        PROVE  /\ ShowImporter(t.id, asks) /\ mode # "service"
               /\ UNCHANGED <<mode, config, phase, filling, sent, stored, kept, fresh>>
    BY <2>1 DEF OpenImporter
  <2>2. ASSUME CloseImporter
        PROVE  /\ ShowImporter(Nowhere, asks) /\ mode # "service"
               /\ UNCHANGED <<mode, config, phase, filling, sent, stored, kept, fresh>>
    BY <2>2 DEF CloseImporter, formVars, FormInv
  <2> QED BY <2>1, <2>2
<1> HIDE DEF asks
<1> QED BY <1>1, <1>2, ImporterShown

LEMMA ImporterStays ==
  ASSUME WorkloadsAreFinite, FormInv, importing # Nowhere, NEW known, ImporterStep(known),
         UNCHANGED formVars
  PROVE  FormInv'
<1>1. AskedInv' /\ importing' = importing
  BY ImporterKeeps DEF FormInv
<1>2. UNCHANGED <<mode, config, phase, filling, sent, stored, kept, fresh>> /\ mode # "service"
  BY DEF formVars, FormInv
<1> QED BY <1>1, <1>2 DEF FormInv

LEMMA ConnectAnswered ==
  ASSUME FormInv, NEW i \in 1..Len(questions), AnswerConnect(i)
  PROVE  FormInv'
<1> DEFINE c == handleResourceConnect(questions[i])
           left == Connections
           asks == RemoveAt(left, 1)
<1>1. /\ questions[i].for = "connecting" /\ phase \in {"editing", "saving"} /\ Put(c)
      /\ ShowImporter(Nowhere, asks) /\ mode' = mode /\ phase' = phase /\ filling' = filling
      /\ sent' = sent
  BY DEF AnswerConnect
<1>2. AreQuestions(questions) /\ IsSeq(questions) /\ IsQuestion(questions[i]) /\ questions[i] \in Parts(questions)
  BY DEF FormInv, AskedInv, AreQuestions, Parts
<1>3. mode # "service"
  <2>1. Len(questions) # 0
    BY <1>2, SeqParts
  <2>2. questions # <<>>
    BY <1>2, <2>1, SeqParts
  <2> QED BY <2>2 DEF FormInv
<1>4. Ready(c, mode)
  <2>1. IsSeq(filling) /\ Good(config, mode)
    BY FormIsGood DEF FormInv, AreFilled
  <2> QED BY <1>2, <1>3, <2>1, ConnectReady DEF IsQuestion
<1> HIDE DEF c
<1>5. AreQuestions(asks)
  <2>1. AreQuestions(left) /\ questions[i] \in Parts(left)
    BY <1>1, <1>2, ConnectionsAre
  <2> HIDE DEF left
  <2>2. IsSeq(left) /\ 1 \in 1..Len(left)
    BY <2>1, SeqParts DEF AreQuestions, Parts
  <2>3. IsSeq(asks) /\ Parts(asks) \subseteq Parts(left)
    BY <2>2, RemoveAtParts
  <2> HIDE DEF asks
  <2> QED BY <2>1, <2>3 DEF AreQuestions
<1> HIDE DEF asks
<1>6. AskedInv'
  BY <1>1, <1>5, ShowImporterKeeps
<1> QED BY <1>1, <1>3, <1>4, <1>6, PutKeeps DEF FormInv

LEMMA LoadAnswered ==
  ASSUME FormInv, NEW ok \in BOOLEAN, AnswerLoad(ok)
  PROVE  FormInv'
<1> DEFINE c == Exported(stored)
           d == Read(c)
<1>1. /\ phase = "loading" /\ phase' = "editing" /\ mode' = mode /\ filling' = filling
      /\ config' = (IF ok THEN Mounted(d) ELSE Mounted(config))
      /\ fresh' => config' = d /\ kept' = kept
      /\ UNCHANGED importerVars
  BY DEF AnswerLoad
<1>2. /\ IsForm(stored) /\ Suits(stored, mode) /\ AsKept(stored, kept, mode) /\ filling = <<>>
      /\ Good(config, mode)
  BY <1>1 DEF FormInv
<1>3. IsForm(c) /\ Suits(c, mode)
  BY <1>2, ExportedIs
<1>4. AsKept(stored, kept, mode) /\ NamedParts(kept, mode) => SameForm(c, stored, mode)
  BY <1>2, ExportedKeeps DEF AsKept
<1> HIDE DEF c
<1>5. Good(d, mode) /\ SameForm(d, c, mode)
  BY <1>3, ReadGood
<1> HIDE DEF d
<1>6. Good(Mounted(d), mode) /\ Good(Mounted(config), mode)
  BY <1>2, <1>5, MountedGood
<1>7. Good(config', mode)
  BY <1>1, <1>6
<1>8. AsKept(d, kept, mode)
  <2>1. ASSUME NamedParts(kept, mode) PROVE SameForm(d, kept, mode)
    <3>1. SameForm(d, c, mode) /\ SameForm(c, stored, mode) /\ SameForm(stored, kept, mode)
      BY <1>2, <1>4, <1>5, <2>1 DEF AsKept
    <3> QED BY ONLY <3>1, SameAgain
  <2> QED BY <1>2, <2>1 DEF AsKept
<1>9. AskedInv' /\ importing' = importing /\ questions' = questions
  BY <1>1 DEF FormInv, AskedInv, importerVars
<1> QED BY <1>1, <1>2, <1>7, <1>8, <1>9 DEF FormInv

LEMMA CredentialsAnswered ==
  ASSUME FormInv, AnswerCredentials
  PROVE  FormInv'
<1> DEFINE shows == mode = "service"
           c == [config EXCEPT !.environments = MapTargets(config.environments,
                  LAMBDA t : IF shows \/ t.id = openTarget
                             THEN IF Untouched(t) THEN WithProfile(t, FirstProfile) ELSE t
                             ELSE t)]
<1>1. /\ phase # "left" /\ mode' = mode /\ phase' = phase /\ filling' = filling /\ sent' = sent
      /\ stored' = stored /\ config' = (IF phase = "loading" THEN config ELSE c)
      /\ fresh' = (fresh /\ config' = config)
      /\ kept' = (IF fresh' \/ phase = "loading" THEN kept ELSE NoForm)
      /\ UNCHANGED importerVars
  BY DEF AnswerCredentials
<1>2. Good(c, mode)
  <2>1. Good(config, mode)
    BY FormIsGood
  <2> QED BY ONLY <2>1, ShownGood DEF MapTargets
<1> HIDE DEF c
<1>3. AskedInv' /\ importing' = importing /\ questions' = questions
  BY <1>1 DEF FormInv, AskedInv, importerVars
<1>4. Good(config', mode)
  BY <1>1, <1>2, FormIsGood
<1>5. fresh' => fresh /\ config' = config /\ kept' = kept
  BY <1>1
<1>6. phase = "loading" => kept' = kept
  BY <1>1
<1> QED BY <1>1, <1>3, <1>4, <1>5, <1>6 DEF FormInv

LEMMA ImportKeeps ==
  ASSUME FormInv, onImport
  PROVE  FormInv'
<1> DEFINE k == IF mode = "service" THEN mode ELSE "workspace"
           c == Sample(k)
           asks == [i \in DOMAIN questions |-> [questions[i] EXCEPT !.at = Nowhere]]
           gone == [i \in DOMAIN filling |-> [filling[i] EXCEPT !.id = 0]]
<1>1. /\ phase = "editing" /\ Put(c) /\ mode' = mode /\ phase' = phase /\ sent' = sent
      /\ filling' = gone
      /\ ShowImporter(Nowhere, asks)
  BY DEF onImport, Edit
<1>2. Ready(c, mode)
  BY SampleGood DEF Good
<1> HIDE DEF c
<1>3. AreFilled(gone) /\ (filling = <<>> => gone = <<>>)
  <2>1. IsSeq(filling) /\ \A i \in 1..Len(filling) : IsService(filling[i])
    BY DEF FormInv, AreFilled, Parts
  <2>2. \A s : IsService(s) => IsService([s EXCEPT !.id = 0])
    BY ONLY DEF IsService
  <2>3. DOMAIN filling = 1..Len(filling) /\ Len(filling) \in Nat
    BY <2>1, SeqParts
  <2>4. gone = [i \in 1..Len(filling) |-> gone[i]] /\ \A i \in 1..Len(filling) : IsService(gone[i])
    BY <2>1, <2>2, <2>3
  <2> HIDE DEF gone
  <2>5. IsSeq(gone) /\ Len(gone) = Len(filling)
    BY <2>3, <2>4, FunctionIsSeq
  <2>6. AreFilled(gone)
    BY <2>4, <2>5 DEF AreFilled, Parts
  <2> QED BY <2>1, <2>5, <2>6, SeqParts
<1> HIDE DEF gone
<1>4. IsSeq(questions) /\ \A i \in 1..Len(questions) : IsQuestion(questions[i])
  BY DEF FormInv, AskedInv, AreQuestions, Parts
<1>5. \A q : IsQuestion(q) => IsQuestion([q EXCEPT !.at = Nowhere])
  BY ONLY DEF IsQuestion
<1>6. IsSeq(asks) /\ Len(asks) = Len(questions) /\ \A i \in 1..Len(questions) : IsQuestion(asks[i])
  <2>1. DOMAIN questions = 1..Len(questions) /\ Len(questions) \in Nat
    BY <1>4, SeqParts
  <2>2. asks = [i \in 1..Len(questions) |-> asks[i]] /\ \A i \in 1..Len(questions) : IsQuestion(asks[i])
    BY <1>4, <1>5, <2>1
  <2> HIDE DEF asks
  <2> QED BY <2>1, <2>2, FunctionIsSeq
<1>7. questions = <<>> => asks = <<>>
  BY <1>4, <1>6, SeqParts
<1> HIDE DEF asks
<1>8. AreQuestions(asks)
  BY <1>6 DEF AreQuestions, Parts
<1>9. AskedInv' /\ importing' = Nowhere /\ questions' = asks
  BY <1>1, <1>8, ShowImporterKeeps
<1>10. mode = "service" => filling' = <<>> /\ importing' = Nowhere /\ questions' = <<>>
  BY <1>1, <1>3, <1>7, <1>9 DEF FormInv
<1>11. AreFilled(filling') /\ phase \notin {"loading", "left"}
  BY <1>1, <1>3
<1> QED BY <1>1, <1>2, <1>9, <1>10, <1>11, PutKeeps

LEMMA SavingKeeps ==
  ASSUME FormInv, saveToServer \/ SaveFails \/ Reopen
  PROVE  FormInv'
<1>1. /\ mode' = mode /\ config' = config /\ filling' = filling /\ stored' = stored
      /\ UNCHANGED importerVars /\ (fresh' => fresh /\ kept' = kept)
      /\ \/ phase' = "saving" /\ sent' = config
         \/ phase' = "editing"
         \/ phase = "left" /\ phase' = "loading" /\ kept' = kept
  BY DEF saveToServer, SaveFails, Reopen
<1>2. AskedInv' /\ importing' = importing /\ questions' = questions
  BY <1>1 DEF FormInv, AskedInv, importerVars
<1>3. IsForm(config) /\ Suits(config, mode)
  BY DEF FormInv, Good, Ready
<1> QED BY <1>1, <1>2, <1>3 DEF FormInv

LEMMA SavedKeeps ==
  ASSUME FormInv, Saved
  PROVE  FormInv'
<1> DEFINE d == Stored
<1>1. /\ phase = "saving" /\ phase' = "left" /\ stored' = d /\ kept' = sent /\ mode' = mode
      /\ config' = initialConfig(mode) /\ filling' = <<>> /\ fresh' = FALSE
      /\ ShowImporter(Nowhere, <<>>)
  BY DEF Saved
<1>2. IsForm(sent) /\ Suits(sent, mode) /\ mode \in {"workspace", "environment", "service"}
  BY <1>1 DEF FormInv
<1>3. Good(config', mode)
  BY <1>1, <1>2, InitialGood
<1>4. IsForm(d) /\ Suits(d, mode) /\ AsKept(d, sent, mode)
  <2>1. d = IF editing = NoName THEN Written(sent)
            ELSE IF mode = "workspace" THEN preserveSensitiveTargetFields(Written(sent), stored)
            ELSE [Written(sent) EXCEPT !.name = editing]
    BY DEF Stored
  <2> HIDE DEF d
  <2> QED BY <1>2, <2>1, StoredIs DEF AsKept
<1> HIDE DEF d
<1>5. AreQuestions(<<>>)
  BY EmptyParts DEF AreQuestions
<1>6. AskedInv' /\ importing' = Nowhere /\ questions' = <<>>
  BY <1>1, <1>5, ShowImporterKeeps
<1>7. AreFilled(filling')
  BY <1>1, EmptyParts DEF AreFilled
<1> QED BY <1>1, <1>2, <1>3, <1>4, <1>6, <1>7 DEF FormInv

LEMMA BuilderKeeps ==
  ASSUME WorkloadsAreFinite, FormInv, BuilderNext
  PROVE  FormInv'
<1>1. /\ ToSet(config.services) = Parts(config.services)
      /\ ToSet(config.environments) = Parts(config.environments)
      /\ \A e \in Parts(config.environments) : ToSet(e.targets) = Parts(e.targets)
  BY FormIsGood
<1>2. ASSUME \/ addService
             \/ \E s \in Parts(config.services) :
                  \/ removeService(s) \/ cloneService(s)
                  \/ SetService(s) \/ handleResourceSelect(s)
             \/ \E i \in 1..Len(filling), ok \in BOOLEAN : AnswerResource(i, ok)
      PROVE  FormInv'
  BY <1>1, <1>2, ServicesKeep, SetServiceKeeps, SelectKept, ResourceAnswered
<1>3. ASSUME \/ addEnvironment
             \/ \E e \in Parts(config.environments) :
                  \/ removeEnvironment(e) \/ cloneEnvironment(e)
                  \/ \E n \in Names \cup {NoName} : RenameEnvironment(e, n)
      PROVE  FormInv'
  BY <1>3, EnvironmentsKeep
<1>4. ASSUME NEW e \in Parts(config.environments),
             \/ addTarget(e)
             \/ \E t \in Parts(e.targets) :
                  \/ removeTarget(e, t) \/ cloneTarget(e, t)
                  \/ Unfold(e, t) \/ SetTarget(e, t)
      PROVE  FormInv'
  BY <1>4, TargetsKeep, UnfoldKeeps, TargetSet
<1>5. ASSUME \/ \E n \in Names \cup {NoName} : SetName(n)
             \/ SetHierarchy \/ SetOnlyService
      PROVE  FormInv'
  BY <1>5, NameKeeps, HierarchyKeeps, OnlyServiceKeeps
<1>6. ASSUME \/ \E t \in TargetsOf(config) : OpenImporter(t)
             \/ CloseImporter
             \/ /\ importing # Nowhere /\ UNCHANGED formVars
                /\ ImporterStep({s.name : s \in ToSet(config.services)})
             \/ \E i \in 1..Len(questions) : AnswerConnect(i)
      PROVE  FormInv'
  BY <1>6, ImporterOpens, ImporterStays, ConnectAnswered
<1>7. ASSUME \/ \E ok \in BOOLEAN : AnswerLoad(ok)
             \/ AnswerCredentials \/ onImport \/ saveToServer
             \/ SaveFails \/ Saved \/ Reopen
      PROVE  FormInv'
  BY <1>7, LoadAnswered, CredentialsAnswered, ImportKeeps, SavingKeeps, SavedKeeps
<1> QED BY <1>1, <1>2, <1>3, <1>4, <1>5, <1>6, <1>7 DEF BuilderNext

LEMMA FormAlways ==
  ASSUME WorkloadsAreFinite
  PROVE  BuilderSpec => []FormInv
<1>1. BuilderInit => FormInv
  BY FormInitially
<1>2. FormInv /\ [BuilderNext]_builderVars => FormInv'
  <2> SUFFICES ASSUME FormInv, [BuilderNext]_builderVars PROVE FormInv'
    OBVIOUS
  <2>1. CASE UNCHANGED builderVars
    BY <2>1 DEF FormInv, AskedInv, builderVars, formVars, importerVars
  <2>2. CASE BuilderNext
    BY <2>2, BuilderKeeps
  <2> QED BY <2>1, <2>2
<1> QED BY <1>1, <1>2, PTL DEF BuilderSpec

-----------------------------------------------------------------------------
LEMMA FormLinks ==
  ASSUME FormInv
  PROVE  LinksFollowRenames
<1>1. Good(config, mode) /\ IsForm(config) /\ ToSet(config.services) = Parts(config.services)
  BY FormIsGood
<1>2. TargetsOf(config) = TargetsIn(config.environments)
  BY <1>1, TargetsOfForm
<1>3. SUFFICES ASSUME NEW t \in TargetsIn(config.environments), NEW s \in Parts(config.services)
               PROVE  /\ s.id \in t.ticked => s.name \in ToSet(t.names)
                      /\ \A o \in t.overrides : s.id \in o.of => o.name = s.name
  BY <1>1, <1>2 DEF LinksFollowRenames
<1>4. Links(t, config.services) /\ ToldOnly(t, config.services) /\ IsTarget(t)
  BY <1>1, FineTargets DEF Fine
<1>5. ToSet(t.names) = Parts(t.names)
  BY <1>4, SeqParts DEF IsTarget
<1> QED BY <1>4, <1>5 DEF Links, ToldOnly

(* A service that was ticked, or overridden, in a target is still the one  *)
(* the target names whatever was renamed, added, copied, removed, imported *)
(* or reopened since (ConfigBuilder.tsx:936-999): what a target keeps is   *)
(* the name, and every rename is carried into the targets.                 *)
THEOREM LinksAlwaysFollowRenames ==
  ASSUME WorkloadsAreFinite
  PROVE  BuilderSpec => []LinksFollowRenames
<1>1. FormInv => LinksFollowRenames
  BY FormLinks
<1> QED BY <1>1, FormAlways, PTL

(* A form whose parts all have a name says the same when it is opened      *)
(* again as when it was saved, whichever way it went to the server and     *)
(* back: as YAML (generateYaml.ts, parseYaml.ts) or as the body of a       *)
(* request and of its answer (App.tsx:370-498).                            *)
THEOREM WhatIsSavedIsReopened ==
  ASSUME WorkloadsAreFinite
  PROVE  BuilderSpec => []SavedIsReopened
<1>1. FormInv => SavedIsReopened
  <2> SUFFICES ASSUME FormInv PROVE SavedIsReopened
    OBVIOUS
  <2>1. IsForm(config)
    BY FormIsGood
  <2>2. fresh => IsForm(kept) /\ (NamedParts(kept, mode) => SameForm(config, kept, mode))
    BY DEF FormInv, AsKept
  <2> QED BY <2>1, <2>2, ReopenedIs
<1> QED BY <1>1, FormAlways, PTL
=============================================================================
