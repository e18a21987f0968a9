----------------------------- MODULE PickerProofs ------------------------------
(***************************************************************************)
(* The ring of peer.Picker, for hashes of any width, any hash function and *)
(* any number of peers, replicas and instances.                            *)
(***************************************************************************)
EXTENDS Picker, FiniteSetTheorems, WellFoundedInduction, TLAPS

-------------------------------------------------------------------------------
(* Arithmetic *)

\* A nonempty set of naturals has a least member, and Min is it.
LEMMA LeastNat ==
  ASSUME NEW S \in SUBSET Nat, S # {}
  PROVE  Min(S) \in S /\ \A y \in S : Min(S) <= y
<1> DEFINE R == OpToRel(<, Nat)
<1>1. IsWellFoundedOn(R, Nat)
  BY NatLessThanWellFounded
<1>2. \A x, y \in Nat : x < y => <<x, y>> \in R
  BY DEF OpToRel
<1> HIDE DEF R
<1>3. PICK x \in S : \A y \in S : ~ (<<y, x>> \in R)
  BY <1>1, WFMin, Zenon
<1>4. \A y \in S : x <= y
  <2> SUFFICES ASSUME NEW y \in S PROVE x <= y
    OBVIOUS
  <2>1. x \in Nat /\ y \in Nat
    OBVIOUS
  <2>2. ~ (y < x)
    BY <1>2, <1>3, <2>1, Zenon
  <2> QED
    BY <2>1, <2>2
<1> QED
  BY <1>4, Zenon DEF Min

\* The difference of two hashes on the ring.
LEMMA ModDiff ==
  ASSUME NEW n \in Nat \ {0}, NEW a \in 0 .. n - 1, NEW b \in 0 .. n - 1
  PROVE  (a - b) % n = IF a >= b THEN a - b ELSE a - b + n
OBVIOUS

\* An injection of an interval into itself misses nothing.
LEMMA Permuted ==
  ASSUME NEW n \in Nat, NEW f \in [1 .. n -> 1 .. n], Injective(f), NEW j \in 1 .. n
  PROVE  \E i \in 1 .. n : f[i] = j
<1>1. f \in Injection(1 .. n, 1 .. n)
  BY DEF Injection, IsInjective, Injective
<1>2. IsFiniteSet(1 .. n)
  BY FS_Interval
<1>3. f \in Surjection(1 .. n, 1 .. n)
  BY <1>1, <1>2, FS_Injection
<1> QED
  BY <1>3 DEF Surjection

\* How far clockwise a signed hash is from that of a key.
Apart(s, h) == IF s >= ToInt(h) THEN s - ToInt(h) ELSE s - ToInt(h) + M

Half == 2 ^ (Bits - 1)

\* Half the ring has negative hashes.
LEMMA Width == Half \in Nat \ {0} /\ M = 2 * Half /\ M \in Nat \ {0}
BY PowerAssumption DEF PowerAssumption, Half, M

\* The conversion to int keeps hashes apart, and in range.
LEMMA Signed ==
  ASSUME NEW x \in Hashes
  PROVE  /\ ToInt(x) \in -Half .. Half - 1
         /\ \A y \in Hashes : ToInt(x) = ToInt(y) => x = y
<1>1. \A y \in Hashes : y \in 0 .. M - 1 /\ ToInt(y) = IF y >= Half THEN y - M ELSE y
  BY DEF Hashes, ToInt, Half
<1> QED
  BY <1>1, Width

\* Distances on the ring of signed hashes are those of the unsigned ones.
LEMMA SameDistance ==
  ASSUME NEW x \in Hashes, NEW h \in Hashes
  PROVE  (x - h) % M = Apart(ToInt(x), h) /\ (x - h) % M \in Nat
<1>1. \A y \in Hashes : y \in 0 .. M - 1 /\ ToInt(y) = IF y >= Half THEN y - M ELSE y
  BY DEF Hashes, ToInt, Half
<1>2. (x - h) % M = IF x >= h THEN x - h ELSE x - h + M
  BY <1>1, Width, ModDiff
<1> QED
  BY <1>1, <1>2, Width DEF Apart

\* Different hashes are at different distances.
LEMMA DistanceInjective ==
  ASSUME NEW x \in Hashes, NEW y \in Hashes, NEW h \in Hashes,
         (x - h) % M = (y - h) % M
  PROVE  x = y
<1>1. \A z \in Hashes : (z - h) % M = IF z >= h THEN z - h ELSE z - h + M
  BY Width, ModDiff, Zenon DEF Hashes
<1> QED
  BY <1>1, Width DEF Hashes

-------------------------------------------------------------------------------
(* The ring *)

\* Get finds an entry at the least distance.
LEMMA GetNearest ==
  ASSUME NEW ring \in Seq(Entry), IsSorted(ring), ring # <<>>, NEW h \in Hashes
  PROVE  \E i \in DOMAIN ring :
           /\ Get(ring, h) = ring[i].client
           /\ \A j \in DOMAIN ring : Apart(ring[i].hash, h) <= Apart(ring[j].hash, h)
<1> DEFINE later == {i \in DOMAIN ring : ring[i].hash >= ToInt(h)}
<1>1. /\ DOMAIN ring = 1 .. Len(ring) /\ Len(ring) \in Nat \ {0}
      /\ \A j \in DOMAIN ring : ring[j].hash \in -Half .. Half - 1
  <2>1. DOMAIN ring = 1 .. Len(ring) /\ Len(ring) \in Nat
    OBVIOUS
  <2>2. Len(ring) # 0
    OBVIOUS
  <2>3. \A j \in DOMAIN ring : ring[j] \in Entry
    BY <2>1
  <2>4. \A e \in Entry : e.hash \in -Half .. Half - 1
    BY Zenon DEF Entry, Half
  <2> QED
    BY <2>1, <2>2, <2>3, <2>4
<1>2. ToInt(h) \in -Half .. Half - 1
  BY Signed
<1>3. CASE later = {}
  <2>1. Get(ring, h) = ring[1].client /\ 1 \in DOMAIN ring
    BY <1>1, <1>3 DEF Get
  <2>2. \A j \in DOMAIN ring : ring[j].hash < ToInt(h) /\ ring[1].hash <= ring[j].hash
    BY <1>1, <1>2, <1>3 DEF IsSorted
  <2>3. \A j \in DOMAIN ring : Apart(ring[1].hash, h) <= Apart(ring[j].hash, h)
    BY <1>1, <1>2, <2>1, <2>2, Width, SMTT(30) DEF Apart
  <2> QED
    BY <2>1, <2>3
<1>4. CASE later # {}
  <2> DEFINE i == Min(later)
  <2>1. i \in later /\ \A j \in later : i <= j
    <3>1. later \in SUBSET Nat
      BY <1>1
    <3> HIDE DEF later
    <3> QED
      BY <1>4, <3>1, LeastNat
  <2>2. Get(ring, h) = ring[i].client
    BY <1>4 DEF Get
  <2> HIDE DEF i
  <2>3. ASSUME NEW j \in DOMAIN ring
        PROVE  Apart(ring[i].hash, h) <= Apart(ring[j].hash, h)
    <3>1. ring[i].hash >= ToInt(h) /\ i \in DOMAIN ring
      BY <2>1
    <3>2. CASE j \in later
      <4>1. ring[i].hash <= ring[j].hash
        BY <1>1, <2>1, <3>1, <3>2 DEF IsSorted
      <4> QED
        BY <1>1, <1>2, <3>1, <3>2, <4>1 DEF Apart
    <3>3. CASE j \notin later
      <4>1. ring[j].hash < ToInt(h)
        BY <1>1, <1>2, <3>3
      <4> QED
        BY <1>1, <1>2, <3>1, <4>1, Width DEF Apart
    <3> QED
      BY <3>2, <3>3
  <2> QED
    BY <2>1, <2>2, <2>3
<1> QED
  BY <1>3, <1>4

\* Sorting keeps the entries.
LEMMA SortKeeps ==
  ASSUME NEW s \in Seq(Entry), NEW t \in Sort(s)
  PROVE  /\ t \in Seq(Entry) /\ Len(t) = Len(s) /\ IsSorted(t)
         /\ \A i \in DOMAIN t : \E j \in DOMAIN s : t[i] = s[j]
         /\ \A j \in DOMAIN s : \E i \in DOMAIN t : t[i] = s[j]
<1>1. PICK f \in [DOMAIN s -> DOMAIN s] :
        Injective(f) /\ t = [i \in DOMAIN s |-> s[f[i]]] /\ IsSorted(t)
  BY SMTT(30) DEF Sort
<1>2. DOMAIN s = 1 .. Len(s) /\ Len(s) \in Nat
  OBVIOUS
<1>3. t \in Seq(Entry) /\ Len(t) = Len(s) /\ DOMAIN t = DOMAIN s
  <2>1. \A i \in 1 .. Len(s) : s[f[i]] \in Entry
    BY <1>1, <1>2
  <2>2. t = [i \in 1 .. Len(s) |-> s[f[i]]]
    BY <1>1, <1>2
  <2>3. t \in [1 .. Len(s) -> Entry]
    BY <2>1, <2>2
  <2> QED
    BY <1>2, <2>3
<1>4. \A j \in DOMAIN s : \E i \in DOMAIN s : f[i] = j
  <2> SUFFICES ASSUME NEW j \in DOMAIN s PROVE \E i \in DOMAIN s : f[i] = j
    OBVIOUS
  <2>1. f \in [1 .. Len(s) -> 1 .. Len(s)] /\ j \in 1 .. Len(s)
    BY <1>2
  <2>2. \E i \in 1 .. Len(s) : f[i] = j
    BY <1>1, <1>2, <2>1, Permuted, Zenon
  <2> QED
    BY <1>2, <2>2
<1> QED
  <2>1. \A i \in DOMAIN s : t[i] = s[f[i]] /\ f[i] \in DOMAIN s
    BY <1>1
  <2> QED
    BY <1>1, <1>3, <1>4, <2>1, Zenon

-------------------------------------------------------------------------------
(* The invariant *)

RingOK(p) ==
  /\ IsSorted(keys[p])
  /\ Holds(keys[p], clientMap[p])

IndInv ==
  /\ TypeOK
  /\ hash \in [Peers -> [1 .. Replicas -> Hashes]]
  /\ \A p \in Instances : RingOK(p)

\* Replicas are entries of the ring.
LEMMA ReplicaType ==
  ASSUME hash \in [Peers -> [1 .. Replicas -> Hashes]],
         NEW c \in Peers, NEW r \in 1 .. Replicas
  PROVE  /\ hash[c][r] \in Hashes
         /\ Replica(c, r) \in Entry
         /\ Replica(c, r).client = c /\ Replica(c, r).hash = ToInt(hash[c][r])
<1>1. hash[c][r] \in Hashes
  BY Zenon
<1>2. ToInt(hash[c][r]) \in -Half .. Half - 1
  BY <1>1, Signed
<1> QED
  BY <1>1, <1>2 DEF Replica, Entry, Half

\* Rings are empty at first.
LEMMA InitInv == Init => IndInv
<1> SUFFICES ASSUME Init PROVE IndInv
  OBVIOUS
<1>1. \A p \in Instances : keys[p] = <<>> /\ clientMap[p] = {}
  BY Zenon DEF Init
<1>2. \A p \in Instances : RingOK(p)
  <2>1. IsSorted(<<>>) /\ Holds(<<>>, {})
    BY DEF IsSorted, Holds
  <2> QED
    BY <1>1, <2>1, Zenon DEF RingOK
<1>3. TypeOK
  <2>1. keys \in [Instances -> Seq(Entry)] /\ clientMap \in [Instances -> SUBSET Peers]
    BY DEF Init
  <2> QED
    BY <1>2, <2>1, Zenon DEF TypeOK, RingOK
<1> QED
  BY <1>2, <1>3 DEF IndInv, Init

\* Appending the replicas of a peer and sorting.
LEMMA AddRing ==
  ASSUME hash \in [Peers -> [1 .. Replicas -> Hashes]],
         NEW C \in SUBSET Peers, NEW c \in Peers,
         NEW s \in Seq(Entry), Holds(s, C),
         NEW t \in Sort(s \o [i \in 1 .. Replicas |-> Replica(c, i)])
  PROVE  /\ t \in Seq(Entry) /\ IsSorted(t) /\ Len(t) = Len(s) + Replicas
         /\ Holds(t, C \cup {c})
<1> DEFINE new == [i \in 1 .. Replicas |-> Replica(c, i)]
           all == s \o new
<1>1. Replicas \in Nat \ {0}
  BY BitsAssumption DEF BitsAssumption
<1>2. \A r \in 1 .. Replicas : Replica(c, r) \in Entry
  BY ReplicaType
<1>3. new \in Seq(Entry) /\ Len(new) = Replicas /\ \A r \in 1 .. Replicas : new[r] = Replica(c, r)
  <2>1. new \in [1 .. Replicas -> Entry]
    BY <1>2
  <2> QED
    BY <1>1, <2>1
<1> HIDE DEF new
<1>4. /\ all \in Seq(Entry) /\ Len(all) = Len(s) + Replicas
      /\ \A i \in DOMAIN all :
           all[i] = IF i <= Len(s) THEN s[i] ELSE new[i - Len(s)]
  <2>1. all \in Seq(Entry) /\ Len(all) = Len(s) + Replicas
    BY <1>3
  <2>2. \A i \in 1 .. Len(s) + Len(new) :
          all[i] = IF i <= Len(s) THEN s[i] ELSE new[i - Len(s)]
    BY <1>3
  <2>3. DOMAIN all = 1 .. Len(s) + Len(new)
    BY <1>3, <2>1
  <2> QED
    BY <2>1, <2>2, <2>3, Zenon
<1>5. t \in Sort(all)
  BY DEF new
<1> HIDE DEF all
<1>6. /\ t \in Seq(Entry) /\ Len(t) = Len(all) /\ IsSorted(t)
      /\ \A i \in DOMAIN t : \E j \in DOMAIN all : t[i] = all[j]
      /\ \A j \in DOMAIN all : \E i \in DOMAIN t : t[i] = all[j]
  BY <1>4, <1>5, SortKeeps, Zenon
<1>7. DOMAIN all = 1 .. Len(all) /\ DOMAIN s = 1 .. Len(s) /\ Len(s) \in Nat
  BY <1>4
<1>8. ASSUME NEW j \in DOMAIN all
      PROVE  \E d \in C \cup {c}, r \in 1 .. Replicas : all[j] = Replica(d, r)
  <2>1. CASE j <= Len(s)
    <3>1. j \in DOMAIN s /\ all[j] = s[j]
      BY <1>4, <1>7, <2>1
    <3> QED
      BY <3>1 DEF Holds
  <2>2. CASE ~ (j <= Len(s))
    <3>1. j - Len(s) \in 1 .. Replicas
      BY <1>1, <1>4, <1>7, <2>2
    <3>2. all[j] = Replica(c, j - Len(s))
      BY <1>3, <1>4, <2>2, <3>1
    <3> QED
      BY <3>1, <3>2, Zenon
  <2> QED
    BY <2>1, <2>2
<1>9. ASSUME NEW d \in C \cup {c}, NEW r \in 1 .. Replicas
      PROVE  \E j \in DOMAIN all : all[j] = Replica(d, r)
  <2>1. CASE d = c
    <3> DEFINE j == Len(s) + r
    <3>1. j \in DOMAIN all /\ ~ (j <= Len(s)) /\ j - Len(s) = r
      BY <1>1, <1>4, <1>7
    <3> HIDE DEF j
    <3>2. all[j] = new[r]
      BY <1>4, <3>1
    <3> QED
      BY <1>3, <2>1, <3>1, <3>2
  <2>2. CASE d \in C
    <3>1. PICK i \in DOMAIN s : s[i] = Replica(d, r)
      BY <2>2 DEF Holds
    <3>2. i \in DOMAIN all /\ all[i] = s[i]
      BY <1>1, <1>4, <1>7, <3>1
    <3> QED
      BY <3>1, <3>2
  <2> QED
    BY <2>1, <2>2
<1>10. Holds(t, C \cup {c})
  <2>1. ASSUME NEW i \in DOMAIN t
        PROVE  \E d \in C \cup {c}, r \in 1 .. Replicas : t[i] = Replica(d, r)
    <3>1. PICK j \in DOMAIN all : t[i] = all[j]
      BY <1>6
    <3> QED
      BY <1>8, <3>1, Zenon
  <2>2. ASSUME NEW d \in C \cup {c}, NEW r \in 1 .. Replicas
        PROVE  \E i \in DOMAIN t : t[i] = Replica(d, r)
    <3>1. PICK j \in DOMAIN all : all[j] = Replica(d, r)
      BY <1>9, Zenon
    <3> QED
      BY <1>6, <3>1
  <2> QED
    BY <2>1, <2>2, Zenon DEF Holds
<1> QED
  BY <1>4, <1>6, <1>10

\* A ring that does not change stays good.
LEMMA RingStays ==
  ASSUME hash' = hash, NEW q \in Instances, NEW ring, NEW C,
         keys'[q] = ring, clientMap'[q] = C,
         IsSorted(ring), Holds(ring, C)
  PROVE  RingOK(q)'
<1>1. \A d, r : Replica(d, r)' = Replica(d, r)
  BY DEF Replica
<1>2. \A i \in DOMAIN ring : \E c \in C, r \in 1 .. Replicas : ring[i] = Replica(c, r)'
  BY <1>1, Zenon DEF Holds
<1>3. \A c \in C, r \in 1 .. Replicas : \E i \in DOMAIN ring : ring[i] = Replica(c, r)'
  BY <1>1, Zenon DEF Holds
<1>4. Holds(keys[q], clientMap[q])'
  BY <1>2, <1>3, Zenon DEF Holds
<1>5. IsSorted(keys[q])'
  BY Zenon DEF IsSorted
<1> QED
  BY <1>4, <1>5, Zenon DEF RingOK

\* Add keeps the invariant.
LEMMA AddInv ==
  ASSUME IndInv, NEW p \in Instances, NEW c \in Peers, Add(p, c)
  PROVE  IndInv'
<1>1. PICK ring \in Sort(keys[p] \o [i \in 1 .. Replicas |-> Replica(c, i)]) :
        keys' = [keys EXCEPT ![p] = ring]
  BY Zenon DEF Add
<1>2. /\ hash \in [Peers -> [1 .. Replicas -> Hashes]] /\ hash' = hash
      /\ clientMap' = [clientMap EXCEPT ![p] = @ \cup {c}]
      /\ keys \in [Instances -> Seq(Entry)] /\ clientMap \in [Instances -> SUBSET Peers]
      /\ \A q \in Instances : RingOK(q)
  BY Zenon DEF Add, IndInv, TypeOK
<1>3. /\ ring \in Seq(Entry) /\ IsSorted(ring)
      /\ Holds(ring, clientMap[p] \cup {c})
  <2>1. keys[p] \in Seq(Entry) /\ clientMap[p] \in SUBSET Peers /\ Holds(keys[p], clientMap[p])
    BY <1>2, Zenon DEF RingOK
  <2> QED
    BY <1>1, <1>2, <2>1, AddRing, ZenonT(60)
<1>4. keys'[p] = ring /\ clientMap'[p] = clientMap[p] \cup {c}
  BY <1>1, <1>2
<1>5. \A q \in Instances \ {p} : keys'[q] = keys[q] /\ clientMap'[q] = clientMap[q]
  BY <1>1, <1>2
<1>6. keys' \in [Instances -> Seq(Entry)] /\ clientMap' \in [Instances -> SUBSET Peers]
  BY <1>1, <1>2, <1>3
<1>7. RingOK(p)'
  BY <1>2, <1>3, <1>4, RingStays, Zenon
<1>8. ASSUME NEW q \in Instances \ {p} PROVE RingOK(q)'
  <2>1. IsSorted(keys[q]) /\ Holds(keys[q], clientMap[q])
    BY <1>2, Zenon DEF RingOK
  <2> QED
    BY <1>2, <1>5, <2>1, RingStays, Zenon
<1>9. \A q \in Instances : RingOK(q)'
  BY <1>7, <1>8, Zenon
<1>10. TypeOK'
  BY <1>6, <1>9, Zenon DEF TypeOK, RingOK
<1> QED
  BY <1>2, <1>9, <1>10, Zenon DEF IndInv

\* So does every step.
LEMMA NextInv == IndInv /\ [Next]_vars => IndInv'
<1> SUFFICES ASSUME IndInv, [Next]_vars PROVE IndInv'
  OBVIOUS
<1>1. CASE Next
  BY <1>1, AddInv DEF Next
<1>2. CASE UNCHANGED vars
  <2>1. hash' = hash /\ keys' = keys /\ clientMap' = clientMap
    BY <1>2 DEF vars
  <2>2. ASSUME NEW q \in Instances PROVE RingOK(q)'
    BY <2>1, RingStays DEF IndInv, RingOK
  <2>3. TypeOK'
    BY <2>1, <2>2, Zenon DEF IndInv, TypeOK, RingOK
  <2> QED
    BY <2>1, <2>2, <2>3 DEF IndInv
<1> QED
  BY <1>1, <1>2

\* The invariant holds throughout.
THEOREM Invariance == Spec => []IndInv
BY InitInv, NextInv, PTL DEF Spec

-------------------------------------------------------------------------------
(* Owners *)

\* Some replica of c is at least as close to h as any replica of the peers C.
Nearest(c, C, h) ==
  /\ c \in C
  /\ \E r \in 1 .. Replicas : \A d \in C, q \in 1 .. Replicas :
       (hash[c][r] - h) % M <= (hash[d][q] - h) % M

\* Get returns a nearest peer.
LEMMA GetIsNearest ==
  ASSUME hash \in [Peers -> [1 .. Replicas -> Hashes]],
         NEW C \in SUBSET Peers, NEW ring \in Seq(Entry), NEW h \in Hashes,
         IsSorted(ring), Holds(ring, C), ring # <<>>
  PROVE  Nearest(Get(ring, h), C, h)
<1>1. PICK i \in DOMAIN ring :
        /\ Get(ring, h) = ring[i].client
        /\ \A j \in DOMAIN ring : Apart(ring[i].hash, h) <= Apart(ring[j].hash, h)
  BY GetNearest
<1>2. PICK c \in C, r \in 1 .. Replicas : ring[i] = Replica(c, r)
  BY Zenon DEF Holds
<1>3. c \in Peers /\ ring[i].client = c /\ Apart(ring[i].hash, h) = (hash[c][r] - h) % M
  BY <1>2, ReplicaType, SameDistance
<1>4. ASSUME NEW d \in C, NEW q \in 1 .. Replicas
      PROVE  (hash[c][r] - h) % M <= (hash[d][q] - h) % M
  <2>1. PICK j \in DOMAIN ring : ring[j] = Replica(d, q)
    BY Zenon DEF Holds
  <2>2. Apart(ring[j].hash, h) = (hash[d][q] - h) % M
    BY <2>1, ReplicaType, SameDistance, SMTT(30)
  <2>3. Apart(ring[i].hash, h) <= Apart(ring[j].hash, h)
    BY <1>1
  <2> QED
    BY <1>3, <2>2, <2>3, Zenon
<1> QED
  BY <1>1, <1>3, <1>4, Zenon DEF Nearest

\* Two peers nearest among sets that have both are one, unless hashes collide.
LEMMA NearestUnique ==
  ASSUME hash \in [Peers -> [1 .. Replicas -> Hashes]], NoCollision,
         NEW C \in SUBSET Peers, NEW D \in SUBSET Peers, NEW h \in Hashes,
         NEW c \in D, NEW d \in C, Nearest(c, C, h), Nearest(d, D, h)
  PROVE  c = d
<1>1. PICK r \in 1 .. Replicas : \A e \in C, q \in 1 .. Replicas :
        (hash[c][r] - h) % M <= (hash[e][q] - h) % M
  BY Zenon DEF Nearest
<1>2. PICK t \in 1 .. Replicas : \A e \in D, q \in 1 .. Replicas :
        (hash[d][t] - h) % M <= (hash[e][q] - h) % M
  BY Zenon DEF Nearest
<1>3. hash[c][r] \in Hashes /\ hash[d][t] \in Hashes /\ c \in Peers /\ d \in Peers
  BY ReplicaType
<1>4. (hash[c][r] - h) % M \in Nat /\ (hash[d][t] - h) % M \in Nat
  BY <1>3, SameDistance
<1>5. /\ (hash[c][r] - h) % M <= (hash[d][t] - h) % M
      /\ (hash[d][t] - h) % M <= (hash[c][r] - h) % M
  BY <1>1, <1>2, Zenon
<1>6. (hash[c][r] - h) % M = (hash[d][t] - h) % M
  <2> DEFINE a == (hash[c][r] - h) % M
             b == (hash[d][t] - h) % M
  <2>1. a \in Nat /\ b \in Nat /\ a <= b /\ b <= a
    BY <1>4, <1>5
  <2> HIDE DEF a, b
  <2>2. a = b
    BY <2>1
  <2> QED
    BY <2>2 DEF a, b
<1>7. hash[c][r] = hash[d][t]
  BY <1>3, <1>6, DistanceInjective
<1> QED
  BY <1>3, <1>7, Zenon DEF NoCollision

\* Distance is that of the closest replica.
LEMMA DistanceLeast ==
  ASSUME hash \in [Peers -> [1 .. Replicas -> Hashes]], NEW c \in Peers, NEW h \in Hashes
  PROVE  /\ \E i \in 1 .. Replicas : Distance(c, h) = (hash[c][i] - h) % M
         /\ \A i \in 1 .. Replicas : Distance(c, h) <= (hash[c][i] - h) % M
         /\ Distance(c, h) \in Nat
<1> DEFINE S == {(hash[c][i] - h) % M : i \in 1 .. Replicas}
<1>1. \A i \in 1 .. Replicas : (hash[c][i] - h) % M \in Nat
  BY ReplicaType, SameDistance
<1>2. S \in SUBSET Nat /\ S # {}
  <2>1. 1 \in 1 .. Replicas
    BY BitsAssumption DEF BitsAssumption
  <2> QED
    BY <1>1, <2>1, Zenon
<1>3. Distance(c, h) = Min(S)
  BY Zenon DEF Distance
<1>4. \A i \in 1 .. Replicas : (hash[c][i] - h) % M \in S
  BY Zenon
<1>5. \A x \in S : \E i \in 1 .. Replicas : x = (hash[c][i] - h) % M
  BY Zenon
<1> HIDE DEF S
<1>6. Min(S) \in S /\ \A y \in S : Min(S) <= y
  BY <1>2, LeastNat
<1> QED
  BY <1>2, <1>3, <1>4, <1>5, <1>6, Zenon

\* What the invariant says of a ring that has entries.
LEMMA Owner ==
  ASSUME IndInv, NEW p \in Instances, keys[p] # <<>>, NEW h \in Hashes
  PROVE  Nearest(Get(keys[p], h), clientMap[p], h)
<1>1. /\ keys[p] \in Seq(Entry) /\ clientMap[p] \in SUBSET Peers
      /\ hash \in [Peers -> [1 .. Replicas -> Hashes]]
      /\ IsSorted(keys[p]) /\ Holds(keys[p], clientMap[p])
  BY Zenon DEF IndInv, TypeOK, RingOK
<1> QED
  BY <1>1, GetIsNearest

\* No peer of the map is closer than the one Get returns.
LEMMA InvPicksNearest == IndInv => PicksNearest
<1> SUFFICES ASSUME IndInv, NEW p \in Instances, NEW h \in Hashes, keys[p] # <<>>
             PROVE  /\ Get(keys[p], h) \in clientMap[p]
                    /\ \A c \in clientMap[p] :
                         Distance(Get(keys[p], h), h) <= Distance(c, h)
  BY DEF PicksNearest
<1> DEFINE o == Get(keys[p], h)
<1>1. hash \in [Peers -> [1 .. Replicas -> Hashes]] /\ clientMap[p] \in SUBSET Peers
  BY Zenon DEF IndInv, TypeOK
<1>2. Nearest(o, clientMap[p], h)
  BY Owner
<1> HIDE DEF o
<1>3. o \in clientMap[p] /\ o \in Peers
  BY <1>1, <1>2 DEF Nearest
<1>4. PICK r \in 1 .. Replicas : \A d \in clientMap[p], q \in 1 .. Replicas :
        (hash[o][r] - h) % M <= (hash[d][q] - h) % M
  BY <1>2, Zenon DEF Nearest
<1>5. ASSUME NEW c \in clientMap[p] PROVE Distance(o, h) <= Distance(c, h)
  <2>1. c \in Peers
    BY <1>1
  <2>2. PICK i \in 1 .. Replicas : Distance(c, h) = (hash[c][i] - h) % M
    BY <1>1, <2>1, DistanceLeast
  <2>3. Distance(o, h) <= (hash[o][r] - h) % M /\ Distance(o, h) \in Nat
    BY <1>1, <1>3, DistanceLeast
  <2>4. (hash[o][r] - h) % M <= Distance(c, h)
    BY <1>4, <2>2
  <2>5. (hash[o][r] - h) % M \in Nat /\ Distance(c, h) \in Nat
    BY <1>1, <1>3, <2>1, ReplicaType, SameDistance, DistanceLeast
  <2> QED
    BY <2>3, <2>4, <2>5
<1> QED
  BY <1>3, <1>5 DEF o

\* Rings of the same peers have the same owners.
LEMMA InvOwnersAgree == IndInv => OwnersAgree
<1> SUFFICES ASSUME IndInv, NoCollision, NEW p \in Instances, NEW q \in Instances,
                    clientMap[p] = clientMap[q], keys[p] # <<>>, NEW h \in Hashes
             PROVE  Get(keys[p], h) = Get(keys[q], h)
  BY DEF OwnersAgree
<1>1. hash \in [Peers -> [1 .. Replicas -> Hashes]] /\ clientMap[p] \in SUBSET Peers
  BY Zenon DEF IndInv, TypeOK
<1>2. Nearest(Get(keys[p], h), clientMap[p], h)
  BY Owner
<1>3. keys[q] # <<>>
  <2>1. 1 \in 1 .. Replicas
    BY BitsAssumption DEF BitsAssumption
  <2>2. Get(keys[p], h) \in clientMap[q] /\ Holds(keys[q], clientMap[q])
    BY <1>2, Zenon DEF Nearest, IndInv, RingOK
  <2>3. DOMAIN keys[q] # {}
    BY <2>1, <2>2, Zenon DEF Holds
  <2> QED
    BY <2>3
<1>4. Nearest(Get(keys[q], h), clientMap[p], h)
  BY <1>3, Owner
<1>5. Get(keys[p], h) \in clientMap[p] /\ Get(keys[q], h) \in clientMap[p]
  BY <1>2, <1>4 DEF Nearest
<1> QED
  BY <1>1, <1>2, <1>4, <1>5, NearestUnique

\* What Add does to the owners of its own ring.
LEMMA AddTakes ==
  ASSUME IndInv, NoCollision, NEW p \in Instances, NEW c \in Peers, Add(p, c),
         keys[p] # <<>>, NEW h \in Hashes
  PROVE  Get(keys'[p], h) \in {Get(keys[p], h)} \cup ({c} \ clientMap[p])
<1>1. PICK ring \in Sort(keys[p] \o [i \in 1 .. Replicas |-> Replica(c, i)]) :
        keys' = [keys EXCEPT ![p] = ring]
  BY Zenon DEF Add
<1>2. /\ keys \in [Instances -> Seq(Entry)] /\ clientMap[p] \in SUBSET Peers
      /\ hash \in [Peers -> [1 .. Replicas -> Hashes]]
      /\ Holds(keys[p], clientMap[p])
  BY Zenon DEF IndInv, TypeOK, RingOK
<1>3. /\ ring \in Seq(Entry) /\ IsSorted(ring) /\ Len(ring) = Len(keys[p]) + Replicas
      /\ Holds(ring, clientMap[p] \cup {c})
  <2>1. keys[p] \in Seq(Entry)
    BY <1>2, Zenon
  <2> QED
    BY <1>1, <1>2, <2>1, AddRing, Zenon
<1>4. keys'[p] = ring /\ ring # <<>>
  <2>1. Len(keys[p]) \in Nat /\ Replicas \in Nat \ {0}
    BY <1>2, BitsAssumption DEF BitsAssumption
  <2>2. Len(ring) # 0
    BY <1>3, <2>1
  <2> QED
    BY <1>1, <1>2, <2>2
<1>5. Nearest(Get(ring, h), clientMap[p] \cup {c}, h)
  BY <1>2, <1>3, <1>4, GetIsNearest
<1>6. Nearest(Get(keys[p], h), clientMap[p], h)
  BY Owner
<1>7. Get(ring, h) \in clientMap[p] \cup {c} /\ Get(keys[p], h) \in clientMap[p] \cup {c}
  BY <1>5, <1>6, Zenon DEF Nearest
<1>8. CASE Get(ring, h) \in clientMap[p]
  <2>1. Get(keys[p], h) = Get(ring, h)
    <3> DEFINE D == clientMap[p] \cup {c}
    <3>1. D \in SUBSET Peers /\ Get(keys[p], h) \in D /\ Nearest(Get(ring, h), D, h)
      BY <1>2, <1>5, <1>7
    <3> HIDE DEF D
    <3> QED
      BY <1>2, <1>6, <1>8, <3>1, NearestUnique, Zenon
  <2> QED
    BY <1>4, <2>1
<1> QED
  BY <1>4, <1>7, <1>8

\* One step of the ring.
LEMMA StepTakes ==
  ASSUME IndInv, [Next]_vars, NoCollision,
         NEW p \in Instances, keys[p] # <<>>, NEW h \in Hashes
  PROVE  Get(keys'[p], h) \in {Get(keys[p], h)} \cup (clientMap'[p] \ clientMap[p])
<1>1. CASE UNCHANGED vars
  BY <1>1 DEF vars
<1>2. CASE Next
  <2>1. PICK o \in Instances, c \in Peers : Add(o, c)
    BY <1>2 DEF Next
  <2>2. /\ keys \in [Instances -> Seq(Entry)] /\ clientMap \in [Instances -> SUBSET Peers]
        /\ clientMap' = [clientMap EXCEPT ![o] = @ \cup {c}]
        /\ \E ring : keys' = [keys EXCEPT ![o] = ring]
    BY <2>1, Zenon DEF Add, IndInv, TypeOK
  <2>3. CASE o = p
    <3>1. clientMap'[p] \ clientMap[p] = {c} \ clientMap[p]
      BY <2>2, <2>3
    <3> QED
      BY <2>1, <2>3, <3>1, AddTakes
  <2>4. CASE o # p
    <3>1. keys'[p] = keys[p]
      BY <2>2, <2>4
    <3> QED
      BY <3>1
  <2> QED
    BY <2>3, <2>4
<1> QED
  BY <1>1, <1>2

-------------------------------------------------------------------------------
(* Theorems *)

\* Every ring holds signed entries, the replicas of the peers of its map and of
\* no others, also when a peer was added twice.
THEOREM RingTypeCorrect == Spec => []TypeOK
<1>1. IndInv => TypeOK
  BY DEF IndInv
<1> QED
  BY <1>1, Invariance, PTL

\* Picker.Get returns the peer that is next clockwise on the unsigned ring,
\* although it searches a slice sorted by int(hash).
THEOREM AlwaysPicksNearest == Spec => []PicksNearest
BY Invariance, InvPicksNearest, PTL

\* Instances that know the same peers agree on every owner, in whatever order
\* and however often they were added and whatever the unstable sort did, unless
\* hashes collide.
THEOREM AlwaysOwnersAgree == Spec => []OwnersAgree
BY Invariance, InvOwnersAgree, PTL

\* Adding a peer moves keys to that peer and nowhere else.
THEOREM JoinsTakeOnly == Spec => JoinTakesOnly
<1>1. IndInv /\ [Next]_vars =>
        [NoCollision =>
           \A p \in Instances : keys[p] # <<>> =>
             \A h \in Hashes :
               Get(keys'[p], h) \in {Get(keys[p], h)} \cup
                                    (clientMap'[p] \ clientMap[p])]_vars
  BY StepTakes, Zenon
<1> QED
  BY <1>1, Invariance, PTL DEF Spec, JoinTakesOnly

===============================================================================
