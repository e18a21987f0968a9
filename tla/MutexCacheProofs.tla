--------------------------- MODULE MutexCacheProofs ----------------------------
(***************************************************************************)
(* The list and the map of lru.Cache, for any keys, values and limit on    *)
(* entries; then the byte count, the limit and the counters of mutexCache, *)
(* for any keys, values, sizes and budgets.                                *)
(***************************************************************************)
EXTENDS MutexCache, FiniteSetTheorems, TLAPS

CONSTANT MaxEntries   \* the limit of an lru.Cache used without mutexCache

\* That lru.Cache.  The one under mutexCache, lru, has no limit.
any == INSTANCE LRU

\* s holds each of its elements once.
Distinct(s) == \A i, j \in DOMAIN s : s[i] = s[j] => i = j

In(k, s) == \E i \in DOMAIN s : s[i] = k

\* s is in order of use.
Ordered(s, after) == \A i, j \in DOMAIN s : i < j => s[i] \in after[s[j]]

-------------------------------------------------------------------------------
(* Lists *)

\* container/list.Remove: the element goes, the others keep their order.
LEMMA WithoutList ==
  ASSUME NEW S, NEW s \in Seq(S), Distinct(s), NEW k, In(k, s)
  PROVE  LET t == lru!Without(s, k) IN
         /\ t \in Seq(S) /\ Len(t) = Len(s) - 1
         /\ Distinct(t)
         /\ \A x : In(x, t) <=> In(x, s) /\ x # k
         /\ \A after : Ordered(s, after) => Ordered(t, after)
<1> DEFINE p == CHOOSE i \in DOMAIN s : s[i] = k
           t == [j \in 1 .. Len(s) - 1 |-> IF j < p THEN s[j] ELSE s[j + 1]]
<1>1. p \in 1 .. Len(s) /\ s[p] = k
  BY DEF In
<1>2. t = lru!Without(s, k)
  BY Zenon DEF lru!Without
<1>3. Len(s) \in Nat /\ Len(s) - 1 \in Nat
  BY <1>1
<1> HIDE DEF p
<1>4. t \in Seq(S) /\ Len(t) = Len(s) - 1 /\ DOMAIN t = 1 .. Len(s) - 1
  <2>1. \A j \in 1 .. Len(s) - 1 : (IF j < p THEN s[j] ELSE s[j + 1]) \in S
    BY <1>1, <1>3
  <2> QED
    BY <1>3, <2>1
<1>5. \A j \in 1 .. Len(s) - 1 : t[j] = IF j < p THEN s[j] ELSE s[j + 1]
  BY Zenon
<1> HIDE DEF t
<1>6. \A j \in 1 .. Len(s) - 1 :
        \E i \in DOMAIN s : t[j] = s[i] /\ i # p /\ i = IF j < p THEN j ELSE j + 1
  BY <1>1, <1>3, <1>5
<1>7. Distinct(t)
  BY <1>1, <1>3, <1>4, <1>5, SMTT(30) DEF Distinct
<1>8. ASSUME NEW x PROVE In(x, t) <=> In(x, s) /\ x # k
  <2>1. ASSUME In(x, t) PROVE In(x, s) /\ x # k
    <3>1. PICK j \in 1 .. Len(s) - 1 : t[j] = x
      BY <1>4, <2>1, Zenon DEF In
    <3>2. PICK i \in DOMAIN s : t[j] = s[i] /\ i # p
      BY <1>6, Zenon
    <3>3. p \in DOMAIN s
      BY <1>1
    <3> QED
      BY <1>1, <3>1, <3>2, <3>3, Zenon DEF In, Distinct
  <2>2. ASSUME In(x, s), x # k PROVE In(x, t)
    <3>1. PICK i \in 1 .. Len(s) : s[i] = x
      BY <2>2 DEF In
    <3>2. CASE i < p
      BY <1>1, <1>3, <1>4, <1>5, <3>1, <3>2, SMTT(30) DEF In
    <3>3. CASE i > p
      <4>1. i - 1 \in 1 .. Len(s) - 1 /\ ~ (i - 1 < p)
        BY <1>1, <1>3, <3>1, <3>3
      <4>2. t[i - 1] = x
        BY <1>5, <3>1, <4>1
      <4> QED
        BY <1>4, <4>1, <4>2, Zenon DEF In
    <3> QED
      BY <1>1, <2>2, <3>1, <3>2, <3>3
  <2> QED
    BY <2>1, <2>2, Zenon
<1>9. ASSUME NEW after, Ordered(s, after) PROVE Ordered(t, after)
  <2>1. ASSUME NEW a \in DOMAIN t, NEW b \in DOMAIN t, a < b PROVE t[a] \in after[t[b]]
    <3>1. PICK i \in DOMAIN s : t[a] = s[i] /\ i = IF a < p THEN a ELSE a + 1
      BY <1>4, <1>6, Zenon
    <3>2. PICK j \in DOMAIN s : t[b] = s[j] /\ j = IF b < p THEN b ELSE b + 1
      BY <1>4, <1>6, Zenon
    <3>3. i < j
      BY <1>1, <1>4, <2>1, <3>1, <3>2
    <3> QED
      BY <1>9, <3>1, <3>2, <3>3, Zenon DEF Ordered
  <2> QED
    BY <2>1, Zenon DEF Ordered
<1> QED
  BY <1>2, <1>4, <1>7, <1>8, <1>9, Zenon

\* container/list.PushFront of a new key.
LEMMA PushFrontList ==
  ASSUME NEW S, NEW s \in Seq(S), Distinct(s), NEW k \in S, ~ In(k, s)
  PROVE  LET t == lru!PushFront(s, k) IN
         /\ t \in Seq(S) /\ Len(t) = Len(s) + 1
         /\ Distinct(t)
         /\ \A x : In(x, t) <=> In(x, s) \/ x = k
         /\ \A after : Ordered(s, after) /\ (\A i \in DOMAIN s : k \in after[s[i]])
                         => Ordered(t, after)
<1> DEFINE t == [j \in 1 .. Len(s) + 1 |-> IF j = 1 THEN k ELSE s[j - 1]]
<1>1. t = lru!PushFront(s, k)
  BY Zenon DEF lru!PushFront
<1>2. Len(s) \in Nat /\ DOMAIN s = 1 .. Len(s)
  OBVIOUS
<1>3. t \in Seq(S) /\ Len(t) = Len(s) + 1 /\ DOMAIN t = 1 .. Len(s) + 1
  <2>1. \A j \in 1 .. Len(s) + 1 : (IF j = 1 THEN k ELSE s[j - 1]) \in S
    BY <1>2
  <2> QED
    BY <1>2, <2>1
<1>4. t[1] = k /\ \A j \in 2 .. Len(s) + 1 : t[j] = s[j - 1] /\ j - 1 \in DOMAIN s
  BY <1>2
<1> HIDE DEF t
<1>5. Distinct(t)
  <2>1. \A j \in 2 .. Len(s) + 1 : t[j] # k
    BY <1>4, Zenon DEF In
  <2>2. ASSUME NEW i \in DOMAIN t, NEW j \in DOMAIN t, t[i] = t[j] PROVE i = j
    <3>1. CASE i = 1 \/ j = 1
      BY <1>2, <1>3, <1>4, <2>1, <2>2, <3>1
    <3>2. CASE i # 1 /\ j # 1
      <4>1. i \in 2 .. Len(s) + 1 /\ j \in 2 .. Len(s) + 1
        BY <1>2, <1>3, <3>2
      <4>2. i - 1 = j - 1
        BY <1>4, <2>2, <4>1, Zenon DEF Distinct
      <4> QED
        BY <4>1, <4>2
    <3> QED
      BY <3>1, <3>2, Zenon
  <2> QED
    BY <2>2, Zenon DEF Distinct
<1>6. ASSUME NEW x PROVE In(x, t) <=> In(x, s) \/ x = k
  <2>1. ASSUME NEW i \in DOMAIN s, s[i] = x PROVE In(x, t)
    <3>1. i + 1 \in 2 .. Len(s) + 1 /\ (i + 1) - 1 = i /\ i + 1 \in DOMAIN t
      BY <1>2, <1>3
    <3> QED
      BY <1>4, <2>1, <3>1, Zenon DEF In
  <2>2. 1 \in DOMAIN t
    BY <1>2, <1>3
  <2> QED
    BY <1>2, <1>3, <1>4, <2>1, <2>2 DEF In
<1>7. ASSUME NEW after, Ordered(s, after), \A i \in DOMAIN s : k \in after[s[i]]
      PROVE  Ordered(t, after)
  <2>1. ASSUME NEW i \in DOMAIN t, NEW j \in DOMAIN t, i < j PROVE t[i] \in after[t[j]]
    <3>1. j \in 2 .. Len(s) + 1
      BY <1>2, <1>3, <2>1
    <3>2. CASE i = 1
      BY <1>4, <1>7, <3>1, <3>2, Zenon
    <3>3. CASE i # 1
      <4>1. i \in 2 .. Len(s) + 1 /\ i - 1 < j - 1
        BY <1>2, <1>3, <2>1, <3>3
      <4> QED
        BY <1>4, <1>7, <3>1, <4>1, Zenon DEF Ordered
    <3> QED
      BY <3>2, <3>3, Zenon
  <2> QED
    BY <2>1, Zenon DEF Ordered
<1> QED
  BY <1>1, <1>3, <1>5, <1>6, <1>7, Zenon

-------------------------------------------------------------------------------
(* The invariant of the lru, whatever its limit *)

\* The list part, which every operation changes with the map and the ghost.
ListOK(s, D, after) ==
  /\ s \in Seq(Keys) /\ Distinct(s)
  /\ D \subseteq Keys /\ \A k : k \in D <=> In(k, s)
  /\ after \in [Keys -> SUBSET Keys] /\ Ordered(s, after)

MapOK ==
  /\ \A k \in DOMAIN cache : cache[k] \in lru!Entry
  /\ evicted \subseteq [key : Keys, value : Values]
  /\ now \in Nat
  /\ DOMAIN last \subseteq Keys
  /\ lru!HoldsLastAdded

Kept == ListOK(ll, DOMAIN cache, since) /\ MapOK

\* What it says of the list and the map.
LEMMA KeptImplies ==
  ASSUME Kept
  PROVE  lru!TypeOK /\ lru!ListMapAgree /\ lru!RecencyOrder /\ lru!HoldsLastAdded
BY Zenon DEF Kept, ListOK, MapOK, lru!TypeOK, lru!ListMapAgree, lru!RecencyOrder,
             Distinct, In, Ordered

\* A used key goes to the front of a list it is not in.
LEMMA Fronted ==
  ASSUME NEW s, NEW D, ListOK(s, D, since), NEW k \in Keys, k \notin D, lru!Touch(k)
  PROVE  /\ ListOK(lru!PushFront(s, k), D \cup {k}, since')
         /\ Len(lru!PushFront(s, k)) = Len(s) + 1
<1> DEFINE t == lru!PushFront(s, k)
<1>1. s \in Seq(Keys) /\ Distinct(s) /\ ~ In(k, s) /\ Ordered(s, since)
      /\ since \in [Keys -> SUBSET Keys] /\ D \subseteq Keys /\ \A x : x \in D <=> In(x, s)
  BY Zenon DEF ListOK
<1>2. since' = [x \in Keys |-> IF x = k THEN {} ELSE since[x] \cup {k}]
  BY Zenon DEF lru!Touch
<1>3. since' \in [Keys -> SUBSET Keys]
  <2>1. \A x \in Keys : (IF x = k THEN {} ELSE since[x] \cup {k}) \in SUBSET Keys
    BY <1>1, Zenon
  <2> QED
    BY <1>2, <2>1, Zenon
<1>4. \A i \in DOMAIN s : /\ s[i] \in Keys /\ s[i] # k
                          /\ since'[s[i]] = since[s[i]] \cup {k}
  <2>1. \A i \in DOMAIN s : s[i] \in Keys
    BY <1>1
  <2> QED
    BY <1>1, <1>2, <2>1, Zenon DEF In
<1>5. Ordered(s, since') /\ \A i \in DOMAIN s : k \in since'[s[i]]
  BY <1>1, <1>4, Zenon DEF Ordered
<1>6. /\ t \in Seq(Keys) /\ Len(t) = Len(s) + 1 /\ Distinct(t)
      /\ \A x : In(x, t) <=> In(x, s) \/ x = k
      /\ Ordered(t, since')
  BY <1>1, <1>5, PushFrontList, Zenon
<1> HIDE DEF t
<1>7. ListOK(t, D \cup {k}, since')
  BY <1>1, <1>3, <1>6, Zenon DEF ListOK
<1> QED
  BY <1>6, <1>7, Zenon DEF t

\* A key leaves the list and the map.
LEMMA Dropped ==
  ASSUME NEW s, NEW D, NEW after, ListOK(s, D, after), NEW k \in D
  PROVE  /\ ListOK(lru!Without(s, k), D \ {k}, after)
         /\ Len(lru!Without(s, k)) = Len(s) - 1
<1> DEFINE t == lru!Without(s, k)
<1>1. s \in Seq(Keys) /\ Distinct(s) /\ In(k, s) /\ Ordered(s, after)
      /\ after \in [Keys -> SUBSET Keys] /\ D \subseteq Keys /\ \A x : x \in D <=> In(x, s)
  BY Zenon DEF ListOK
<1>2. /\ t \in Seq(Keys) /\ Len(t) = Len(s) - 1 /\ Distinct(t)
      /\ \A x : In(x, t) <=> In(x, s) /\ x # k
      /\ Ordered(t, after)
  BY <1>1, WithoutList, Zenon
<1> HIDE DEF t
<1>3. ListOK(t, D \ {k}, after)
  BY <1>1, <1>2, Zenon DEF ListOK
<1> QED
  BY <1>2, <1>3, Zenon DEF t

\* A hit: the key moves to the front.
LEMMA Moved ==
  ASSUME Kept, NEW k \in DOMAIN cache, lru!Touch(k)
  PROVE  ListOK(lru!MoveToFront(k), DOMAIN cache, since') /\ Len(lru!MoveToFront(k)) = Len(ll)
<1> DEFINE s == lru!Without(ll, k)
           D == DOMAIN cache \ {k}
<1>1. ListOK(ll, DOMAIN cache, since) /\ k \in Keys /\ ll \in Seq(Keys)
  BY Zenon DEF Kept, ListOK
<1>2. ListOK(s, D, since) /\ Len(s) = Len(ll) - 1 /\ k \notin D /\ D \cup {k} = DOMAIN cache
  BY <1>1, Dropped, Zenon
<1> HIDE DEF s, D
<1>3. ListOK(lru!PushFront(s, k), D \cup {k}, since') /\ Len(lru!PushFront(s, k)) = Len(s) + 1
  BY <1>1, <1>2, Fronted, Zenon
<1>4. lru!MoveToFront(k) = lru!PushFront(s, k)
  BY Zenon DEF lru!MoveToFront, s
<1>5. Len(ll) \in Nat
  BY <1>1
<1> QED
  BY <1>2, <1>3, <1>4, <1>5

\* What OnEvicted is given.
LEMMA PairType ==
  ASSUME Kept, NEW k \in DOMAIN cache
  PROVE  lru!Pair(k) \in [key : Keys, value : Values]
<1>1. k \in Keys /\ cache[k] \in lru!Entry
  BY Zenon DEF Kept, ListOK, MapOK
<1> QED
  BY <1>1, Zenon DEF lru!Pair, lru!Entry

-------------------------------------------------------------------------------
(* The operations.  Each keeps the invariant and announces what it drops. *)

\* removeElement, under GetExpired, Remove and RemoveOldest.
LEMMA RemoveElementStep ==
  ASSUME Kept, NEW k \in DOMAIN cache, lru!removeElement(k),
         UNCHANGED <<now, last>>
  PROVE  Kept' /\ lru!Announced /\ Len(ll') = Len(ll) - 1
<1>0. ListOK(ll, DOMAIN cache, since) /\ MapOK /\ ll \in Seq(Keys)
  BY Zenon DEF Kept, ListOK
<1>1. /\ ll' = lru!Without(ll, k) /\ cache' = lru!Drop(cache, k) /\ evicted' = {lru!Pair(k)}
      /\ since' = since /\ now' = now /\ last' = last
  BY Zenon DEF lru!removeElement
<1>2. /\ DOMAIN cache' = DOMAIN cache \ {k}
      /\ \A x \in DOMAIN cache' : cache'[x] = cache[x]
  BY <1>1, Zenon DEF lru!Drop
<1>3. ListOK(ll', DOMAIN cache', since') /\ Len(ll') = Len(ll) - 1
  <2>1. /\ ListOK(lru!Without(ll, k), DOMAIN cache \ {k}, since)
        /\ Len(lru!Without(ll, k)) = Len(ll) - 1
    BY <1>0, Dropped, Zenon
  <2> QED
    BY <1>1, <1>2, <2>1, Zenon
<1>4. MapOK'
  <2>1. evicted' \subseteq [key : Keys, value : Values]
    BY <1>1, PairType, Zenon
  <2>2. \A x \in DOMAIN cache' : cache'[x] \in lru!Entry /\ x \in DOMAIN last /\ cache'[x] = last[x]
    BY <1>0, <1>2, Zenon DEF MapOK, lru!HoldsLastAdded
  <2> QED
    BY <1>0, <1>1, <2>1, <2>2, Zenon DEF MapOK, lru!HoldsLastAdded
<1>5. lru!Announced
  BY <1>1, <1>2, Zenon DEF lru!Announced
<1> QED
  BY <1>3, <1>4, <1>5, Zenon DEF Kept

\* Add of a present key: the old value is announced, the new one is in front.
LEMMA ReplaceStep ==
  ASSUME Kept, NEW k \in Keys, NEW e \in lru!Entry, lru!Replace(k, e),
         last' = lru!With(last, k, e), now' = now
  PROVE  Kept' /\ lru!Announced /\ Len(ll') = Len(ll)
<1>0. ListOK(ll, DOMAIN cache, since) /\ MapOK
  BY Zenon DEF Kept
<1>1. /\ k \in DOMAIN cache /\ ll' = lru!MoveToFront(k) /\ cache' = lru!With(cache, k, e)
      /\ evicted' = {lru!Pair(k)} /\ lru!Touch(k)
  BY Zenon DEF lru!Replace
<1>2. /\ DOMAIN cache' = DOMAIN cache /\ cache'[k] = e
      /\ \A x \in DOMAIN cache \ {k} : cache'[x] = cache[x]
      /\ DOMAIN last' = DOMAIN last \cup {k} /\ last'[k] = e
      /\ \A x \in DOMAIN last \ {k} : last'[x] = last[x]
  BY <1>1, Zenon DEF lru!With
<1>3. ListOK(ll', DOMAIN cache', since') /\ Len(ll') = Len(ll)
  BY <1>1, <1>2, Moved, Zenon
<1>4. MapOK'
  <2>1. evicted' \subseteq [key : Keys, value : Values]
    BY <1>1, PairType, Zenon
  <2>2. \A x \in DOMAIN cache' : cache'[x] \in lru!Entry /\ x \in DOMAIN last' /\ cache'[x] = last'[x]
    BY <1>0, <1>2, Zenon DEF MapOK, lru!HoldsLastAdded
  <2> QED
    BY <1>0, <1>2, <2>1, <2>2, Zenon DEF MapOK, lru!HoldsLastAdded
<1>5. lru!Announced
  BY <1>1, <1>2, Zenon DEF lru!Announced
<1> QED
  BY <1>3, <1>4, <1>5, Zenon DEF Kept

\* Insert, with a limit of m entries.
Inserts(m, k, e) ==
  /\ k \notin DOMAIN cache
  /\ lru!Touch(k)
  /\ LET pushed == lru!PushFront(ll, k)
         added == lru!With(cache, k, e)
         oldest == pushed[Len(pushed)]
     IN  IF m # 0 /\ Len(pushed) > m
         THEN /\ ll' = lru!Without(pushed, oldest)
              /\ cache' = lru!Drop(added, oldest)
              /\ evicted' = {[key |-> oldest, value |-> added[oldest].value]}
         ELSE /\ ll' = pushed
              /\ cache' = added
              /\ evicted' = {}

\* Add of a new key: at most one entry goes, the oldest, which is not the new
\* one because a limit is at least one entry.
LEMMA InsertStep ==
  ASSUME NEW m \in Nat, Kept, NEW k \in Keys, NEW e \in lru!Entry, Inserts(m, k, e),
         last' = lru!With(last, k, e), now' = now
  PROVE  /\ Kept' /\ lru!Announced
         /\ Len(ll') = IF m # 0 /\ Len(ll) + 1 > m THEN Len(ll) ELSE Len(ll) + 1
<1> DEFINE pushed == lru!PushFront(ll, k)
           added == lru!With(cache, k, e)
           oldest == pushed[Len(pushed)]
           full == m # 0 /\ Len(pushed) > m
           pair == [key |-> oldest, value |-> added[oldest].value]
<1>0. /\ ListOK(ll, DOMAIN cache, since) /\ MapOK /\ ll \in Seq(Keys)
      /\ k \notin DOMAIN cache /\ lru!Touch(k)
  BY Zenon DEF Kept, ListOK, Inserts
<1>1. /\ full => /\ ll' = lru!Without(pushed, oldest) /\ cache' = lru!Drop(added, oldest)
                 /\ evicted' = {pair}
      /\ ~ full => ll' = pushed /\ cache' = added /\ evicted' = {}
  BY Zenon DEF Inserts
<1>2. ListOK(pushed, DOMAIN cache \cup {k}, since') /\ Len(pushed) = Len(ll) + 1
  BY <1>0, Fronted, Zenon
<1>3. /\ DOMAIN added = DOMAIN cache \cup {k} /\ added[k] = e
      /\ \A x \in DOMAIN cache : added[x] = cache[x]
      /\ DOMAIN last' = DOMAIN last \cup {k} /\ last'[k] = e
      /\ \A x \in DOMAIN last \ {k} : last'[x] = last[x]
  BY <1>0, Zenon DEF lru!With
<1>4. pushed[1] = k /\ pushed \in Seq(Keys) /\ Distinct(pushed)
  <2>1. pushed[1] = k
    BY <1>0 DEF lru!PushFront
  <2> QED
    BY <1>2, <2>1, Zenon DEF ListOK
<1>k. Len(ll) \in Nat
  BY <1>0
<1> HIDE DEF pushed, added
<1>5. full => oldest \in DOMAIN cache
  <2>1. Len(pushed) \in DOMAIN pushed /\ 1 \in DOMAIN pushed
    BY <1>k, <1>2, <1>4
  <2>2. full => Len(pushed) # 1
    BY <1>k, <1>2
  <2>3. full => oldest # k
    BY <1>4, <2>1, <2>2, Zenon DEF Distinct
  <2>4. oldest \in DOMAIN cache \cup {k}
    BY <1>2, <2>1, Zenon DEF ListOK, In
  <2> QED
    BY <2>3, <2>4, Zenon
<1> HIDE DEF oldest, full
<1>6. \A x \in DOMAIN added : added[x] \in lru!Entry /\ x \in DOMAIN last' /\ added[x] = last'[x]
  BY <1>0, <1>3, Zenon DEF MapOK, lru!HoldsLastAdded
<1>7. DOMAIN last' \subseteq Keys
  BY <1>0, <1>3, Zenon DEF MapOK
<1>8. CASE full
  <2>1. /\ DOMAIN cache' = DOMAIN added \ {oldest}
        /\ \A x \in DOMAIN cache' : cache'[x] = added[x]
    BY <1>1, <1>8, Zenon DEF lru!Drop
  <2>2. oldest \in DOMAIN cache \cup {k} /\ DOMAIN cache' = (DOMAIN cache \cup {k}) \ {oldest}
    BY <1>3, <1>5, <1>8, <2>1, Zenon
  <2>3. ListOK(ll', DOMAIN cache', since') /\ Len(ll') = Len(pushed) - 1
    <3> DEFINE D == DOMAIN cache \cup {k}
    <3>1. ListOK(pushed, D, since') /\ oldest \in D /\ DOMAIN cache' = D \ {oldest}
      BY <1>2, <2>2, Zenon
    <3> HIDE DEF D
    <3>2. /\ ListOK(lru!Without(pushed, oldest), D \ {oldest}, since')
          /\ Len(lru!Without(pushed, oldest)) = Len(pushed) - 1
      BY <3>1, Dropped, Zenon
    <3> QED
      BY <1>1, <1>8, <3>1, <3>2, Zenon
  <2>4. pair = lru!Pair(oldest) /\ pair \in [key : Keys, value : Values]
    <3>1. pair = lru!Pair(oldest)
      BY <1>3, <1>5, <1>8, Zenon DEF lru!Pair
    <3> QED
      BY <1>5, <1>8, <3>1, PairType, Zenon
  <2> HIDE DEF pair
  <2>5. MapOK'
    <3>1. evicted' \subseteq [key : Keys, value : Values]
      BY <1>1, <1>8, <2>4, Zenon
    <3>2. \A x \in DOMAIN cache' :
            cache'[x] \in lru!Entry /\ x \in DOMAIN last' /\ cache'[x] = last'[x]
      BY <1>6, <2>1, Zenon
    <3> QED
      BY <1>0, <1>7, <3>1, <3>2, Zenon DEF MapOK, lru!HoldsLastAdded
  <2>6. lru!Announced
    BY <1>1, <1>3, <1>8, <2>1, <2>2, <2>4, Zenon DEF lru!Announced
  <2>7. Len(ll') = Len(ll) /\ m # 0 /\ Len(ll) + 1 > m
    BY <1>k, <1>2, <1>8, <2>3 DEF full
  <2> QED
    BY <2>3, <2>5, <2>6, <2>7, Zenon DEF Kept
<1>9. CASE ~ full
  <2>1. ll' = pushed /\ cache' = added /\ evicted' = {}
    BY <1>1, <1>9, Zenon
  <2>2. ListOK(ll', DOMAIN cache', since')
    BY <1>2, <1>3, <2>1, Zenon
  <2>3. MapOK'
    BY <1>0, <1>6, <1>7, <2>1, Zenon DEF MapOK, lru!HoldsLastAdded
  <2>4. lru!Announced
    BY <1>3, <2>1, Zenon DEF lru!Announced
  <2>5. Len(ll') = Len(ll) + 1 /\ ~ (m # 0 /\ Len(ll) + 1 > m)
    BY <1>2, <1>9, <2>1, Zenon DEF full
  <2> QED
    BY <2>2, <2>3, <2>4, <2>5, Zenon DEF Kept
<1> QED
  BY <1>8, <1>9, Zenon

\* Get of a fresh entry only moves it.
LEMMA GetHitStep ==
  ASSUME Kept, NEW k \in Keys, lru!GetHit(k)
  PROVE  Kept' /\ lru!Announced /\ Len(ll') = Len(ll)
<1>0. ListOK(ll, DOMAIN cache, since) /\ MapOK
  BY Zenon DEF Kept
<1>1. /\ k \in DOMAIN cache /\ ll' = lru!MoveToFront(k) /\ lru!Touch(k) /\ evicted' = {}
      /\ cache' = cache /\ now' = now /\ last' = last
  BY Zenon DEF lru!GetHit
<1>2. ListOK(ll', DOMAIN cache', since') /\ Len(ll') = Len(ll)
  BY <1>1, Moved, Zenon
<1>3. MapOK'
  BY <1>0, <1>1, Zenon DEF MapOK, lru!HoldsLastAdded
<1>4. lru!Announced
  BY <1>1, Zenon DEF lru!Announced
<1> QED
  BY <1>2, <1>3, <1>4, Zenon DEF Kept

\* Steps that leave the entries alone.
LEMMA EntriesStay ==
  ASSUME Kept, UNCHANGED <<ll, cache, since, last>>, now' \in Nat,
         evicted' \in {evicted, {}}
  PROVE  Kept' /\ lru!Announced
<1>1. ll' = ll /\ cache' = cache /\ since' = since /\ last' = last
  BY Zenon
<1>2. Kept'
  BY <1>1, Zenon DEF Kept, MapOK, lru!HoldsLastAdded
<1>3. lru!Announced
  BY <1>1, Zenon DEF lru!Announced
<1> QED
  BY <1>2, <1>3, Zenon

\* Clear announces every entry.
LEMMA ClearStep == ASSUME Kept, lru!Clear PROVE Kept' /\ lru!Announced /\ Len(ll') = 0
<1>0. ListOK(ll, DOMAIN cache, since) /\ MapOK
  BY Zenon DEF Kept
<1>1. /\ ll' = <<>> /\ DOMAIN cache' = {} /\ evicted' = {lru!Pair(k) : k \in DOMAIN cache}
      /\ now' = now /\ since' = since /\ last' = last
  BY Zenon DEF lru!Clear, lru!NoKeys
<1>2. ll' \in Seq(Keys) /\ DOMAIN ll' = {} /\ Len(ll') = 0
  BY <1>1
<1>3. ListOK(ll', DOMAIN cache', since')
  BY <1>0, <1>1, <1>2, Zenon DEF ListOK, Distinct, In, Ordered
<1>4. MapOK'
  <2>1. evicted' \subseteq [key : Keys, value : Values]
    BY <1>1, PairType, Zenon
  <2> QED
    BY <1>0, <1>1, <2>1, Zenon DEF MapOK, lru!HoldsLastAdded
<1>5. lru!Announced
  BY <1>1, Zenon DEF lru!Announced
<1> QED
  BY <1>2, <1>3, <1>4, <1>5, Zenon DEF Kept

\* The empty cache.
LEMMA LruInit == ASSUME lru!Init PROVE Kept
<1>1. /\ ll = <<>> /\ DOMAIN cache = {} /\ evicted = {} /\ now = 1
      /\ since = [k \in Keys |-> {}] /\ DOMAIN last = {}
  BY Zenon DEF lru!Init, lru!NoKeys
<1>2. ll \in Seq(Keys) /\ DOMAIN ll = {} /\ Len(ll) = 0 /\ now \in Nat
  BY <1>1
<1>3. since \in [Keys -> SUBSET Keys]
  BY <1>1, Zenon
<1>4. ListOK(ll, DOMAIN cache, since)
  BY <1>1, <1>2, <1>3, Zenon DEF ListOK, Distinct, In, Ordered
<1>5. MapOK
  BY <1>1, <1>2, Zenon DEF MapOK, lru!HoldsLastAdded
<1> QED
  BY <1>4, <1>5, Zenon DEF Kept

-------------------------------------------------------------------------------
(* lru.Cache by itself, with any limit on entries *)

\* Its operations are those of the cache under mutexCache, but for the limit.
LEMMA SameOperations ==
  ASSUME NEW k, NEW e
  PROVE  /\ any!Replace(k, e) <=> lru!Replace(k, e)
         /\ any!Insert(k, e) <=> Inserts(MaxEntries, k, e)
         /\ lru!Insert(k, e) <=> Inserts(0, k, e)
         /\ any!GetHit(k) <=> lru!GetHit(k)
         /\ any!removeElement(k) <=> lru!removeElement(k)
         /\ any!Clear <=> lru!Clear
         /\ any!With(last, k, e) = lru!With(last, k, e)
         /\ any!Announced <=> lru!Announced
         /\ any!Entry = lru!Entry
<1>1. any!Replace(k, e) <=> lru!Replace(k, e)
  BY Zenon DEF lru!Replace, any!Replace, lru!Pair, any!Pair, lru!MoveToFront, any!MoveToFront,
               lru!PushFront, any!PushFront, lru!Without, any!Without, lru!With, any!With,
               lru!Touch, any!Touch
<1>2. any!Insert(k, e) <=> Inserts(MaxEntries, k, e)
  BY Zenon DEF any!Insert, Inserts, lru!PushFront, any!PushFront, lru!Without, any!Without,
               lru!With, any!With, lru!Drop, any!Drop, lru!Touch, any!Touch
<1>3. lru!Insert(k, e) <=> Inserts(0, k, e)
  BY Zenon DEF lru!Insert, Inserts
<1>4. any!GetHit(k) <=> lru!GetHit(k)
  BY Zenon DEF lru!GetHit, any!GetHit, lru!Expired, any!Expired, lru!MoveToFront, any!MoveToFront,
               lru!PushFront, any!PushFront, lru!Without, any!Without, lru!Touch, any!Touch
<1>5. any!removeElement(k) <=> lru!removeElement(k)
  BY Zenon DEF lru!removeElement, any!removeElement, lru!Pair, any!Pair,
               lru!Without, any!Without, lru!Drop, any!Drop
<1>6. any!Clear <=> lru!Clear
  BY Zenon DEF lru!Clear, any!Clear, lru!Pair, any!Pair, lru!NoKeys, any!NoKeys
<1>7. any!With(last, k, e) = lru!With(last, k, e)
  BY Zenon DEF lru!With, any!With
<1>8. (any!Announced <=> lru!Announced) /\ any!Entry = lru!Entry
  BY Zenon DEF lru!Announced, any!Announced, lru!Pair, any!Pair, lru!Entry, any!Entry
<1> QED
  BY <1>1, <1>2, <1>3, <1>4, <1>5, <1>6, <1>7, <1>8, Zenon

\* Its inductive invariant.
Limited == Kept /\ any!WithinMaxEntries

\* Every operation keeps it and announces what it drops.
LEMMA LruNext ==
  ASSUME MaxEntries \in Nat, Limited, [any!Next]_any!vars
  PROVE  Limited' /\ any!Announced
<1>0. /\ Kept /\ ll \in Seq(Keys) /\ now \in Nat /\ Len(ll) \in Nat
      /\ MaxEntries # 0 => Len(ll) <= MaxEntries
  <2>1. Kept /\ ll \in Seq(Keys) /\ now \in Nat /\ any!WithinMaxEntries
    BY Zenon DEF Limited, Kept, ListOK, MapOK
  <2> QED
    BY <2>1 DEF any!WithinMaxEntries
<1>1. ASSUME Kept' /\ lru!Announced, Len(ll') \in Nat,
             MaxEntries # 0 => Len(ll') <= MaxEntries \/ Len(ll') <= Len(ll)
      PROVE  Limited' /\ any!Announced
  <2>1. any!WithinMaxEntries'
    BY <1>0, <1>1 DEF any!WithinMaxEntries
  <2>2. any!Announced
    BY <1>1, SameOperations, Zenon
  <2> QED
    BY <1>1, <2>1, <2>2, Zenon DEF Limited
<1>2. ASSUME UNCHANGED <<ll, cache, since, last>>, now' \in Nat, evicted' \in {evicted, {}}
      PROVE  Limited' /\ any!Announced
  <2>1. Kept' /\ lru!Announced /\ ll' = ll
    BY <1>0, <1>2, EntriesStay, Zenon
  <2> QED
    BY <1>0, <1>1, <2>1, Zenon
<1>3. ASSUME NEW k \in DOMAIN cache, any!removeElement(k), UNCHANGED <<now, last>>
      PROVE  Limited' /\ any!Announced
  <2>1. lru!removeElement(k)
    BY <1>3, SameOperations, Zenon
  <2>2. Kept' /\ lru!Announced /\ Len(ll') = Len(ll) - 1
    BY <1>0, <1>3, <2>1, RemoveElementStep, Zenon
  <2>3. Len(ll') \in Nat
    <3>1. ll' \in Seq(Keys)
      BY <2>2, Zenon DEF Kept, ListOK
    <3> QED
      BY <3>1
  <2> QED
    BY <1>0, <1>1, <2>2, <2>3
<1>4. CASE UNCHANGED any!vars
  BY <1>0, <1>2, <1>4, Zenon DEF any!vars
<1>5. ASSUME NEW k \in Keys, NEW e \in any!Entry, any!Add(k, e) PROVE Limited' /\ any!Announced
  <2>1. e \in lru!Entry /\ last' = lru!With(last, k, e) /\ now' = now
    BY <1>5, SameOperations, Zenon DEF any!Add
  <2>2. CASE any!Replace(k, e)
    <3>1. Kept' /\ lru!Announced /\ Len(ll') = Len(ll)
      BY <1>0, <2>1, <2>2, SameOperations, ReplaceStep, Zenon
    <3> QED
      BY <1>0, <1>1, <3>1, Zenon
  <2>3. CASE any!Insert(k, e)
    <3>1. Inserts(MaxEntries, k, e)
      BY <2>3, SameOperations, Zenon
    <3>2. /\ Kept' /\ lru!Announced
          /\ Len(ll') = IF MaxEntries # 0 /\ Len(ll) + 1 > MaxEntries THEN Len(ll)
                        ELSE Len(ll) + 1
      BY <1>0, <2>1, <3>1, InsertStep, Zenon
    <3> QED
      BY <1>0, <1>1, <3>2
  <2> QED
    BY <1>5, <2>2, <2>3, Zenon DEF any!Add
<1>6. ASSUME NEW k \in Keys, any!GetHit(k) \/ any!GetExpired(k) \/ any!GetMiss(k) \/ any!Remove(k)
      PROVE  Limited' /\ any!Announced
  <2>1. CASE any!GetHit(k)
    <3>1. Kept' /\ lru!Announced /\ Len(ll') = Len(ll)
      BY <1>0, <2>1, SameOperations, GetHitStep, Zenon
    <3> QED
      BY <1>0, <1>1, <3>1, Zenon
  <2>2. CASE any!GetExpired(k)
    BY <1>3, <2>2, Zenon DEF any!GetExpired
  <2>3. CASE any!GetMiss(k)
    BY <1>0, <1>2, <2>3, Zenon DEF any!GetMiss
  <2>4. CASE any!Remove(k)
    BY <1>0, <1>2, <1>3, <2>4, Zenon DEF any!Remove
  <2> QED
    BY <1>6, <2>1, <2>2, <2>3, <2>4, Zenon
<1>7. CASE any!RemoveOldest
  <2>1. CASE ll # <<>>
    <3>1. ll[Len(ll)] \in DOMAIN cache
      <4>1. Len(ll) \in DOMAIN ll
        BY <1>0, <2>1
      <4> QED
        BY <1>0, <4>1, Zenon DEF Kept, ListOK, In
    <3> QED
      BY <1>3, <1>7, <2>1, <3>1, Zenon DEF any!RemoveOldest
  <2>2. CASE ll = <<>>
    BY <1>0, <1>2, <1>7, <2>2, Zenon DEF any!RemoveOldest
  <2> QED
    BY <2>1, <2>2, Zenon
<1>8. CASE any!Clear
  <2>1. Kept' /\ lru!Announced /\ Len(ll') = 0
    BY <1>0, <1>8, SameOperations, ClearStep, Zenon
  <2> QED
    BY <1>0, <1>1, <2>1
<1>9. CASE any!Tick
  <2>1. now' \in Nat
    BY <1>0, <1>9 DEF any!Tick
  <2> QED
    BY <1>2, <1>9, <2>1, Zenon DEF any!Tick
<1> QED
  BY <1>4, <1>5, <1>6, <1>7, <1>8, <1>9, Zenon DEF any!Next

\* It starts with nothing.
LEMMA LimitedInit == ASSUME MaxEntries \in Nat, any!Init PROVE Limited
<1>1. lru!Init /\ ll = <<>>
  BY Zenon DEF lru!Init, any!Init, lru!NoKeys, any!NoKeys
<1>2. any!WithinMaxEntries
  BY <1>1 DEF any!WithinMaxEntries
<1> QED
  BY <1>1, <1>2, LruInit, Zenon DEF Limited

\* For any keys, values and limit: the list and the map agree, the list is in
\* order of use, a limit on entries holds and an entry is the last one added.
THEOREM ListAndMap ==
  ASSUME MaxEntries \in Nat
  PROVE  any!Spec => [](/\ any!TypeOK /\ any!ListMapAgree /\ any!RecencyOrder
                        /\ any!WithinMaxEntries /\ any!HoldsLastAdded)
<1>1. any!Init => Limited
  BY LimitedInit, Zenon
<1>2. Limited /\ [any!Next]_any!vars => Limited'
  BY LruNext, Zenon
<1>3. Limited => /\ any!TypeOK /\ any!ListMapAgree /\ any!RecencyOrder
                 /\ any!WithinMaxEntries /\ any!HoldsLastAdded
  BY KeptImplies, Zenon DEF Limited, lru!TypeOK, any!TypeOK, lru!Entry, any!Entry,
                            lru!ListMapAgree, any!ListMapAgree,
                            lru!RecencyOrder, any!RecencyOrder,
                            lru!HoldsLastAdded, any!HoldsLastAdded
<1> QED
  BY <1>1, <1>2, <1>3, PTL DEF any!Spec

\* What any operation drops or replaces, it passes to OnEvicted: mutexCache
\* keeps its count of bytes in that callback.
THEOREM NothingUnannounced ==
  ASSUME MaxEntries \in Nat
  PROVE  any!Spec => any!EvictedAccounted
<1>1. any!Init => Limited
  BY LimitedInit, Zenon
<1>2. Limited /\ [any!Next]_any!vars => Limited'
  BY LruNext, Zenon
<1>3. Limited /\ [any!Next]_any!vars => [any!Announced]_any!vars
  BY LruNext, Zenon
<1> QED
  BY <1>1, <1>2, <1>3, PTL DEF any!Spec, any!EvictedAccounted

-------------------------------------------------------------------------------
(* Sums.  SumFunctionOnSet is a recursive function over the subsets of its *)
(* second argument; the induction that says what it computes is on a       *)
(* smallest set for which it fails.                                        *)

\* The element a fold takes next.
First(s) == CHOOSE x \in s : TRUE

Folded(w, g, s) == IF s = {} THEN 0 ELSE w[First(s)] + g[s \ {First(s)}]

Iter(w, S) == CHOOSE g : g = [s \in SUBSET S |-> Folded(w, g, s)]

\* One turn of the fold, on the sums themselves.
Unfolds(w, s) ==
  SumFunctionOnSet(w, s) =
    IF s = {} THEN 0 ELSE w[First(s)] + SumFunctionOnSet(w, s \ {First(s)})

\* What the library's definitions come to.
LEMMA SumIter ==
  ASSUME NEW w, NEW S
  PROVE  SumFunctionOnSet(w, S) = Iter(w, S)[S]
BY Zenon DEF SumFunctionOnSet, FoldFunctionOnSet, MapThenFoldSet, Iter, Folded, First

\* A set that is not empty has a first element.
LEMMA FirstIn == ASSUME NEW s, s # {} PROVE First(s) \in s
BY Zenon DEF First

\* Among the subsets of a finite set, any collection has a smallest one.
LEMMA Smallest ==
  ASSUME NEW S, IsFiniteSet(S), NEW B \in SUBSET (SUBSET S), B # {}
  PROVE  \E R \in B : \A Q \in SUBSET R : Q # R => Q \notin B
<1> DEFINE less == StrictSubsetOrdering(S)
<1>1. IsWellFoundedOn(less, FiniteSubsetsOf(S))
  BY FS_StrictSubsetOrderingWellFounded, Zenon
<1>2. FiniteSubsetsOf(S) = SUBSET S
  BY FS_FiniteSubsetsOfFinite, Zenon
<1>3. \A Q, R \in SUBSET S : Q \subseteq R /\ Q # R => <<Q, R>> \in less
  BY Zenon DEF StrictSubsetOrdering
<1> HIDE DEF less
<1>4. PICK R \in B : \A Q \in B : ~ (<<Q, R>> \in less)
  BY <1>1, <1>2, WFMin, ZenonT(60)
<1> QED
  BY <1>3, <1>4, Zenon

\* The recursive function exists, as soon as the smaller sums unfold.
LEMMA IterExists ==
  ASSUME NEW w, NEW R, IsFiniteSet(R),
         \A Q \in SUBSET R : Q # R => Unfolds(w, Q)
  PROVE  Iter(w, R) = [s \in SUBSET R |-> Folded(w, Iter(w, R), s)]
<1> DEFINE h == [s \in SUBSET R |->
                   IF s = {} THEN 0 ELSE w[First(s)] + SumFunctionOnSet(w, s \ {First(s)})]
<1>1. \A s \in SUBSET R : h[s] = IF s = {} THEN 0
                                 ELSE w[First(s)] + SumFunctionOnSet(w, s \ {First(s)})
  BY Zenon
<1> HIDE DEF h
<1>2. ASSUME NEW s \in SUBSET R, s # {}
      PROVE  h[s \ {First(s)}] = SumFunctionOnSet(w, s \ {First(s)})
  <2>1. s \ {First(s)} \in SUBSET R /\ s \ {First(s)} # R
    BY <1>2, FirstIn, Zenon
  <2> QED
    BY <1>1, <2>1, Zenon DEF Unfolds
<1>3. \A s \in SUBSET R : h[s] = Folded(w, h, s)
  BY <1>1, <1>2, Zenon DEF Folded
<1>4. h = [s \in SUBSET R |-> h[s]]
  BY Zenon DEF h
<1>5. h = [s \in SUBSET R |-> Folded(w, h, s)]
  BY <1>3, <1>4, Zenon
<1> QED
  BY <1>5, Zenon DEF Iter

\* A sum unfolds if the smaller ones do.
LEMMA SumStep ==
  ASSUME NEW w, NEW R, IsFiniteSet(R),
         \A Q \in SUBSET R : Q # R => Unfolds(w, Q)
  PROVE  Unfolds(w, R)
<1> DEFINE g == Iter(w, R)
           B == {s \in SUBSET R : s # R /\ g[s] # SumFunctionOnSet(w, s)}
<1>1. \A s \in SUBSET R : g[s] = Folded(w, g, s)
  <2>1. g = [s \in SUBSET R |-> Folded(w, g, s)]
    BY IterExists, Zenon
  <2> QED
    BY <2>1, Zenon
<1> HIDE DEF g
<1>2. B = {}
  <2> SUFFICES ASSUME B # {} PROVE FALSE
    BY Zenon
  <2>1. PICK s \in B : \A q \in SUBSET s : q # s => q \notin B
    <3>1. B \in SUBSET (SUBSET R)
      BY Zenon
    <3> HIDE DEF B
    <3> QED
      BY <3>1, Smallest, Zenon
  <2>2. s \in SUBSET R /\ s # R /\ g[s] # SumFunctionOnSet(w, s)
    BY Zenon
  <2>3. g[s] = Folded(w, g, s) /\ Unfolds(w, s)
    BY <1>1, <2>2, Zenon
  <2>4. s # {}
    BY <2>2, <2>3, Zenon DEF Folded, Unfolds
  <2>5. First(s) \in s /\ s \ {First(s)} \in SUBSET s /\ s \ {First(s)} # s
    BY <2>4, FirstIn, Zenon
  <2>6. s \ {First(s)} \in SUBSET R /\ s \ {First(s)} # R
    BY <2>2, <2>5, Zenon
  <2>7. g[s \ {First(s)}] = SumFunctionOnSet(w, s \ {First(s)})
    BY <2>1, <2>5, <2>6, Zenon
  <2> QED
    BY <2>2, <2>3, <2>7, Zenon DEF Folded, Unfolds
<1>3. R \in SUBSET R /\ SumFunctionOnSet(w, R) = Folded(w, g, R)
  BY <1>1, SumIter, Zenon DEF g
<1>4. R # {} => g[R \ {First(R)}] = SumFunctionOnSet(w, R \ {First(R)})
  <2> SUFFICES ASSUME R # {} PROVE g[R \ {First(R)}] = SumFunctionOnSet(w, R \ {First(R)})
    BY Zenon
  <2>1. R \ {First(R)} \in SUBSET R /\ R \ {First(R)} # R
    BY FirstIn, Zenon
  <2> QED
    BY <1>2, <2>1, Zenon
<1> QED
  BY <1>3, <1>4, Zenon DEF Folded, Unfolds

\* Every sum over a finite set unfolds.
LEMMA SumUnfolds ==
  ASSUME NEW w, NEW S, IsFiniteSet(S)
  PROVE  Unfolds(w, S)
<1> DEFINE B == {R \in SUBSET S : ~ Unfolds(w, R)}
<1>1. B = {}
  <2> SUFFICES ASSUME B # {} PROVE FALSE
    BY Zenon
  <2>1. PICK R \in B : \A Q \in SUBSET R : Q # R => Q \notin B
    <3>1. B \in SUBSET (SUBSET S)
      BY Zenon
    <3> HIDE DEF B
    <3> QED
      BY <3>1, Smallest, Zenon
  <2>2. R \in SUBSET S /\ ~ Unfolds(w, R) /\ IsFiniteSet(R)
    BY FS_Subset, Zenon
  <2>3. \A Q \in SUBSET R : Q # R => Unfolds(w, Q)
    BY <2>1, <2>2, Zenon
  <2> QED
    BY <2>2, <2>3, SumStep, Zenon
<1> QED
  BY <1>1, Zenon

\* A sum over the empty set.
LEMMA SumEmpty == ASSUME NEW w PROVE SumFunctionOnSet(w, {}) = 0
BY SumUnfolds, FS_EmptySet, Zenon DEF Unfolds

\* Weights that agree on a set have the same sum over it.
LEMMA SumSame ==
  ASSUME NEW w, NEW v, NEW S, IsFiniteSet(S), \A x \in S : w[x] = v[x]
  PROVE  SumFunctionOnSet(w, S) = SumFunctionOnSet(v, S)
<1> DEFINE B == {R \in SUBSET S : SumFunctionOnSet(w, R) # SumFunctionOnSet(v, R)}
<1>1. B = {}
  <2> SUFFICES ASSUME B # {} PROVE FALSE
    BY Zenon
  <2>1. PICK R \in B : \A Q \in SUBSET R : Q # R => Q \notin B
    <3>1. B \in SUBSET (SUBSET S)
      BY Zenon
    <3> HIDE DEF B
    <3> QED
      BY <3>1, Smallest, Zenon
  <2>2. R \in SUBSET S /\ SumFunctionOnSet(w, R) # SumFunctionOnSet(v, R) /\ IsFiniteSet(R)
    BY FS_Subset, Zenon
  <2>3. Unfolds(w, R) /\ Unfolds(v, R)
    BY <2>2, SumUnfolds, Zenon
  <2>4. R # {}
    BY <2>2, <2>3, Zenon DEF Unfolds
  <2>5. First(R) \in R /\ R \ {First(R)} \in SUBSET R /\ R \ {First(R)} # R
        /\ R \ {First(R)} \in SUBSET S /\ w[First(R)] = v[First(R)]
    BY <2>2, <2>4, FirstIn, Zenon
  <2>6. SumFunctionOnSet(w, R \ {First(R)}) = SumFunctionOnSet(v, R \ {First(R)})
    BY <2>1, <2>5, Zenon
  <2> QED
    BY <2>2, <2>3, <2>5, <2>6, Zenon DEF Unfolds
<1> QED
  BY <1>1, Zenon

\* Sums of naturals.
LEMMA SumType ==
  ASSUME NEW w, NEW S, IsFiniteSet(S), \A x \in S : w[x] \in Nat
  PROVE  SumFunctionOnSet(w, S) \in Nat
<1> DEFINE B == {R \in SUBSET S : SumFunctionOnSet(w, R) \notin Nat}
<1>1. B = {}
  <2> SUFFICES ASSUME B # {} PROVE FALSE
    BY Zenon
  <2>1. PICK R \in B : \A Q \in SUBSET R : Q # R => Q \notin B
    <3>1. B \in SUBSET (SUBSET S)
      BY Zenon
    <3> HIDE DEF B
    <3> QED
      BY <3>1, Smallest, Zenon
  <2>2. R \in SUBSET S /\ SumFunctionOnSet(w, R) \notin Nat /\ IsFiniteSet(R)
    BY FS_Subset, Zenon
  <2>3. Unfolds(w, R)
    BY <2>2, SumUnfolds, Zenon
  <2>4. R # {}
    BY <2>2, <2>3 DEF Unfolds
  <2>5. First(R) \in R /\ R \ {First(R)} \in SUBSET R /\ R \ {First(R)} # R
        /\ R \ {First(R)} \in SUBSET S /\ w[First(R)] \in Nat
    BY <2>2, <2>4, FirstIn, Zenon
  <2>6. SumFunctionOnSet(w, R \ {First(R)}) \in Nat
    BY <2>1, <2>5, Zenon
  <2> QED
    BY <2>2, <2>3, <2>4, <2>5, <2>6 DEF Unfolds
<1> QED
  BY <1>1, Zenon

\* Any element can be taken out of a sum first.
LEMMA SumRemove ==
  ASSUME NEW w, NEW S, IsFiniteSet(S), \A x \in S : w[x] \in Nat, NEW x \in S
  PROVE  SumFunctionOnSet(w, S) = w[x] + SumFunctionOnSet(w, S \ {x})
<1> DEFINE Out(R, z) == SumFunctionOnSet(w, R) = w[z] + SumFunctionOnSet(w, R \ {z})
           B == {R \in SUBSET S : \E z \in R : ~ Out(R, z)}
<1>1. B = {}
  <2> SUFFICES ASSUME B # {} PROVE FALSE
    BY Zenon
  <2>1. PICK R \in B : \A Q \in SUBSET R : Q # R => Q \notin B
    <3>1. B \in SUBSET (SUBSET S)
      BY Zenon
    <3> HIDE DEF B
    <3> QED
      BY <3>1, Smallest, Zenon
  <2>2. R \in SUBSET S /\ (\E z \in R : ~ Out(R, z)) /\ IsFiniteSet(R)
    BY FS_Subset, Zenon
  <2>3. PICK z \in R : ~ Out(R, z)
    BY <2>2, Zenon
  <2> DEFINE y == First(R)
             Q == R \ {y}
             P == R \ {z}
  <2>4. /\ y \in R /\ Q \in SUBSET R /\ Q # R /\ Q \in SUBSET S
        /\ P \in SUBSET R /\ P # R /\ P \in SUBSET S
    BY <2>2, <2>3, FirstIn, Zenon
  <2>5. SumFunctionOnSet(w, R) = w[y] + SumFunctionOnSet(w, Q)
    BY <2>2, <2>3, SumUnfolds, Zenon DEF Unfolds
  <2> HIDE DEF y
  <2>6. y # z
    BY <2>3, <2>5, Zenon
  <2>7. SumFunctionOnSet(w, Q) = w[z] + SumFunctionOnSet(w, Q \ {z})
    BY <2>1, <2>3, <2>4, <2>6, Zenon
  <2>8. SumFunctionOnSet(w, P) = w[y] + SumFunctionOnSet(w, P \ {y})
    BY <2>1, <2>4, <2>6, Zenon
  <2>9. Q \ {z} = P \ {y} /\ Q \ {z} \in SUBSET S /\ IsFiniteSet(Q \ {z})
    BY <2>2, <2>4, FS_Subset, Zenon
  <2>10. SumFunctionOnSet(w, Q \ {z}) \in Nat /\ w[y] \in Nat /\ w[z] \in Nat
    BY <2>2, <2>4, <2>9, SumType, Zenon
  <2> DEFINE rest == SumFunctionOnSet(w, Q \ {z})
  <2>11. SumFunctionOnSet(w, R) = w[y] + (w[z] + rest) /\ SumFunctionOnSet(w, P) = w[y] + rest
    BY <2>5, <2>7, <2>8, <2>9, Zenon
  <2>12. rest \in Nat
    BY <2>10, Zenon
  <2> HIDE DEF rest
  <2>13. SumFunctionOnSet(w, R) = w[z] + SumFunctionOnSet(w, P)
    BY <2>10, <2>11, <2>12
  <2> QED
    BY <2>3, <2>13, Zenon
<1> QED
  BY <1>1, Zenon

-------------------------------------------------------------------------------
(* The lru under mutexCache *)

\* The entries have keys and values.
LEMMA Entries ==
  ASSUME Kept
  PROVE  /\ DOMAIN cache \subseteq Keys
         /\ \A k \in DOMAIN cache : cache[k].value \in Values
         /\ ll \in Seq(Keys) /\ Len(ll) \in Nat /\ now \in Nat
<1>1. /\ DOMAIN cache \subseteq Keys /\ ll \in Seq(Keys) /\ now \in Nat
      /\ \A k \in DOMAIN cache : cache[k] \in lru!Entry
  BY Zenon DEF Kept, ListOK, MapOK
<1>2. \A e \in lru!Entry : e.value \in Values
  BY Zenon DEF lru!Entry
<1>3. Len(ll) \in Nat
  BY <1>1
<1> QED
  BY <1>1, <1>2, <1>3, Zenon

\* What Add does to the lru.
LEMMA LruAdd ==
  ASSUME Kept, NEW k \in Keys, NEW e \in lru!Entry, lru!Add(k, e)
  PROVE  /\ Kept' /\ lru!Announced
         /\ cache' = lru!With(cache, k, e)
         /\ \/ /\ k \in DOMAIN cache /\ evicted' = {lru!Pair(k)} /\ Len(ll') = Len(ll)
            \/ /\ k \notin DOMAIN cache /\ evicted' = {} /\ Len(ll') = Len(ll) + 1
<1>1. last' = lru!With(last, k, e) /\ now' = now
  BY Zenon DEF lru!Add
<1>2. CASE lru!Replace(k, e)
  <2>1. Kept' /\ lru!Announced /\ Len(ll') = Len(ll)
    BY <1>1, <1>2, ReplaceStep, Zenon
  <2> QED
    BY <1>2, <2>1, Zenon DEF lru!Replace
<1>3. CASE lru!Insert(k, e)
  <2>1. Inserts(0, k, e)
    BY <1>3, SameOperations, Zenon
  <2>2. Kept' /\ lru!Announced /\ Len(ll') = Len(ll) + 1
    BY <1>1, <2>1, InsertStep, Zenon
  <2>3. k \notin DOMAIN cache /\ evicted' = {} /\ cache' = lru!With(cache, k, e)
    BY <1>3, Zenon DEF lru!Insert
  <2> QED
    BY <2>2, <2>3, Zenon
<1> QED
  BY <1>2, <1>3, Zenon DEF lru!Add

\* What taking an element out does.
LEMMA LruRemove ==
  ASSUME Kept, NEW k \in DOMAIN cache, lru!removeElement(k), UNCHANGED <<now, last>>
  PROVE  /\ Kept' /\ lru!Announced
         /\ cache' = lru!Drop(cache, k) /\ evicted' = {lru!Pair(k)} /\ Len(ll') = Len(ll) - 1
BY RemoveElementStep, Zenon DEF lru!removeElement

-------------------------------------------------------------------------------
(* Sizes *)

\* The bytes of a map from keys to entries.
Stored(c) == SumFunction([k \in DOMAIN c |-> Size(k, c[k].value)])

\* A map with finitely many keys and values of the cache.
Holding(c) ==
  IsFiniteSet(DOMAIN c) /\ DOMAIN c \subseteq Keys /\ \A k \in DOMAIN c : c[k].value \in Values

\* Sizes are naturals.
LEMMA SizeType == ASSUME NEW k \in Keys, NEW v \in Values PROVE Size(k, v) \in Nat
BY SizeAssumption DEF SizeAssumption, Size

\* The sum behind a count of bytes.
LEMMA StoredSum ==
  ASSUME NEW c, Holding(c)
  PROVE  LET w == [k \in DOMAIN c |-> Size(k, c[k].value)]
         IN  /\ Stored(c) = SumFunctionOnSet(w, DOMAIN c) /\ Stored(c) \in Nat
             /\ \A k \in DOMAIN c : w[k] \in Nat /\ w[k] = Size(k, c[k].value)
<1> DEFINE w == [k \in DOMAIN c |-> Size(k, c[k].value)]
<1>1. DOMAIN w = DOMAIN c /\ \A k \in DOMAIN c : w[k] = Size(k, c[k].value)
  BY Zenon
<1>2. Stored(c) = SumFunctionOnSet(w, DOMAIN w)
  BY Zenon DEF Stored, SumFunction
<1> HIDE DEF w
<1>3. \A k \in DOMAIN c : w[k] \in Nat
  BY <1>1, SizeType, Zenon DEF Holding
<1>4. SumFunctionOnSet(w, DOMAIN c) \in Nat
  BY <1>3, SumType, Zenon DEF Holding
<1> QED
  BY <1>1, <1>2, <1>3, <1>4, Zenon DEF w

\* An empty map holds no bytes.
LEMMA StoredNone == ASSUME NEW c, DOMAIN c = {} PROVE Holding(c) /\ Stored(c) = 0
<1>1. Holding(c)
  BY FS_EmptySet, Zenon DEF Holding
<1>2. Stored(c) = SumFunctionOnSet([k \in DOMAIN c |-> Size(k, c[k].value)], {})
  BY <1>1, StoredSum, Zenon
<1> QED
  BY <1>1, <1>2, SumEmpty, Zenon

\* An entry that goes takes its bytes with it.
LEMMA StoredDrop ==
  ASSUME NEW c, Holding(c), NEW k \in DOMAIN c
  PROVE  /\ Holding(lru!Drop(c, k))
         /\ Stored(c) = Size(k, c[k].value) + Stored(lru!Drop(c, k))
<1> DEFINE d == lru!Drop(c, k)
           w == [x \in DOMAIN c |-> Size(x, c[x].value)]
           v == [x \in DOMAIN d |-> Size(x, d[x].value)]
<1>1. DOMAIN d = DOMAIN c \ {k} /\ \A x \in DOMAIN d : d[x] = c[x]
  BY Zenon DEF lru!Drop
<1> HIDE DEF d
<1>2. IsFiniteSet(DOMAIN d)
  BY <1>1, FS_RemoveElement, Zenon DEF Holding
<1>3. Holding(d)
  BY <1>1, <1>2, Zenon DEF Holding
<1>4. /\ Stored(c) = SumFunctionOnSet(w, DOMAIN c)
      /\ \A x \in DOMAIN c : w[x] \in Nat /\ w[x] = Size(x, c[x].value)
  BY StoredSum, Zenon
<1>5. /\ Stored(d) = SumFunctionOnSet(v, DOMAIN d)
      /\ \A x \in DOMAIN d : v[x] = Size(x, d[x].value)
  BY <1>3, StoredSum, Zenon
<1> HIDE DEF w, v
<1>6. SumFunctionOnSet(w, DOMAIN c) = w[k] + SumFunctionOnSet(w, DOMAIN c \ {k})
  <2> DEFINE S == DOMAIN c
  <2>1. IsFiniteSet(S) /\ k \in S /\ \A x \in S : w[x] \in Nat
    BY <1>4, Zenon DEF Holding
  <2> HIDE DEF S
  <2>2. SumFunctionOnSet(w, S) = w[k] + SumFunctionOnSet(w, S \ {k})
    BY <2>1, SumRemove
  <2> QED
    BY <2>2, Zenon DEF S
<1>7. \A x \in DOMAIN d : v[x] = w[x]
  BY <1>1, <1>4, <1>5, Zenon
<1>8. SumFunctionOnSet(v, DOMAIN d) = SumFunctionOnSet(w, DOMAIN d)
  BY <1>2, <1>7, SumSame, Zenon
<1>9. Stored(c) = Size(k, c[k].value) + Stored(d)
  BY <1>1, <1>4, <1>5, <1>6, <1>8, Zenon
<1> QED
  BY <1>3, <1>9, Zenon DEF d

\* A new entry brings its bytes.
LEMMA StoredInsert ==
  ASSUME NEW c, Holding(c), NEW k \in Keys, k \notin DOMAIN c, NEW e, e.value \in Values
  PROVE  /\ Holding(lru!With(c, k, e))
         /\ Stored(lru!With(c, k, e)) = Size(k, e.value) + Stored(c)
<1> DEFINE d == lru!With(c, k, e)
<1>1. /\ DOMAIN d = DOMAIN c \cup {k} /\ d[k] = e /\ k \in DOMAIN d
      /\ \A x \in DOMAIN c : d[x] = c[x]
  BY Zenon DEF lru!With
<1>2. IsFiniteSet(DOMAIN d)
  BY <1>1, FS_AddElement, Zenon DEF Holding
<1> HIDE DEF d
<1>3. Holding(d)
  BY <1>1, <1>2, Zenon DEF Holding
<1>4. Stored(d) = Size(k, e.value) + Stored(lru!Drop(d, k))
  BY <1>1, <1>3, StoredDrop, Zenon
<1>5. Stored(lru!Drop(d, k)) = Stored(c)
  <2> DEFINE f == lru!Drop(d, k)
             w == [x \in DOMAIN c |-> Size(x, c[x].value)]
             v == [x \in DOMAIN f |-> Size(x, f[x].value)]
  <2>1. DOMAIN f = DOMAIN d \ {k} /\ \A x \in DOMAIN f : f[x] = d[x]
    BY Zenon DEF lru!Drop
  <2>2. DOMAIN f = DOMAIN c /\ \A x \in DOMAIN c : f[x] = c[x]
    BY <1>1, <2>1, Zenon
  <2> HIDE DEF f
  <2>3. v = w
    BY <2>2, Zenon
  <2> QED
    BY <2>3, Zenon DEF Stored, f
<1> QED
  BY <1>3, <1>4, <1>5, Zenon DEF d

\* A replaced entry gives its bytes for the new one's.
LEMMA StoredReplace ==
  ASSUME NEW c, Holding(c), NEW k \in DOMAIN c, NEW e, e.value \in Values
  PROVE  /\ Holding(lru!With(c, k, e))
         /\ Stored(lru!With(c, k, e)) + Size(k, c[k].value) = Size(k, e.value) + Stored(c)
<1> DEFINE d == lru!Drop(c, k)
<1>1. Holding(d) /\ Stored(c) = Size(k, c[k].value) + Stored(d)
  BY StoredDrop, Zenon
<1>2. k \in Keys /\ k \notin DOMAIN d /\ lru!With(c, k, e) = lru!With(d, k, e)
  <2>1. DOMAIN d = DOMAIN c \ {k} /\ \A x \in DOMAIN d : d[x] = c[x]
    BY Zenon DEF lru!Drop
  <2> HIDE DEF d
  <2> QED
    BY <2>1, Zenon DEF lru!With, Holding
<1> HIDE DEF d
<1>3. Holding(lru!With(d, k, e)) /\ Stored(lru!With(d, k, e)) = Size(k, e.value) + Stored(d)
  BY <1>1, <1>2, StoredInsert, Zenon
<1>4. Stored(d) \in Nat /\ Size(k, c[k].value) \in Nat /\ Size(k, e.value) \in Nat
  BY <1>1, <1>2, StoredSum, SizeType, Zenon DEF Holding
<1>5. Holding(lru!With(c, k, e)) /\ Stored(lru!With(c, k, e)) = Size(k, e.value) + Stored(d)
  BY <1>2, <1>3, Zenon
<1> QED
  BY <1>1, <1>4, <1>5

\* What OnEvicted subtracts for no pair and for one.
LEMMA FreedOne ==
  /\ Freed({}) = 0
  /\ \A k \in Keys, v \in Values :
       Freed({[key |-> k, value |-> v]}) = Size(k, v)
<1>1. Freed({}) = 0
  <2> DEFINE w == [e \in {} |-> Size(e.key, e.value)]
  <2>1. Freed({}) = SumFunctionOnSet(w, DOMAIN w) /\ DOMAIN w = {}
    BY Zenon DEF Freed, SumFunction
  <2> QED
    BY <2>1, SumEmpty, Zenon
<1>2. ASSUME NEW k \in Keys, NEW v \in Values
      PROVE  Freed({[key |-> k, value |-> v]}) = Size(k, v)
  <2> DEFINE p == [key |-> k, value |-> v]
             w == [e \in {p} |-> Size(e.key, e.value)]
  <2>1. p.key = k /\ p.value = v
    BY Zenon
  <2>2. Freed({p}) = SumFunctionOnSet(w, DOMAIN w) /\ DOMAIN w = {p}
    BY Zenon DEF Freed, SumFunction
  <2>3. w[p] = Size(k, v)
    BY <2>1, Zenon
  <2> HIDE DEF p, w
  <2>4. Size(k, v) \in Nat
    BY SizeType, Zenon
  <2>5. SumFunctionOnSet(w, {p}) = w[p] + SumFunctionOnSet(w, {p} \ {p})
    <3>1. IsFiniteSet({p}) /\ p \in {p} /\ \A x \in {p} : w[x] \in Nat
      BY <2>3, <2>4, FS_Singleton, Zenon
    <3> DEFINE S == {p}
    <3> HIDE DEF S
    <3>2. SumFunctionOnSet(w, S) = w[p] + SumFunctionOnSet(w, S \ {p})
      BY <3>1, SumRemove, Zenon DEF S
    <3> QED
      BY <3>2, Zenon DEF S
  <2>6. SumFunctionOnSet(w, {p} \ {p}) = 0
    <3>1. {p} \ {p} = {}
      BY Zenon
    <3> QED
      BY <3>1, SumEmpty, Zenon
  <2>7. Freed({p}) = Size(k, v)
    BY <2>2, <2>3, <2>4, <2>5, <2>6
  <2> QED
    BY <2>7, Zenon DEF p
<1> QED
  BY <1>1, <1>2, Zenon

-------------------------------------------------------------------------------
(* The inductive invariant *)

\* bytes is exact, and what the lru holds is of the right kind.
LruOK == Kept /\ Holding(cache) /\ bytes = Stored(cache)

CountsOK ==
  /\ evictions \in Nat /\ gets \in Nat /\ hits \in Nat
  /\ adds \in Nat /\ lost \in Nat /\ resets \in Nat
  /\ EvictionsBalance

\* The limit in force is the share of the budget in force, and bytes is past
\* it only inside the loop of Add.
LimitOK ==
  /\ budget \in Int /\ part \in {1, 7} /\ adding \in BOOLEAN
  /\ maxBytes = ShareOf(budget)
  /\ ~ adding /\ maxBytes # 0 => bytes <= maxBytes

Inv == LruOK /\ CountsOK /\ LimitOK

\* A share is a natural, and within its part of the budget.
LEMMA ShareType ==
  ASSUME NEW b \in Int, part \in {1, 7}
  PROVE  /\ ShareOf(b) \in Nat
         /\ b >= 8 => ShareOf(b) # 0 /\ ShareOf(b) * 8 <= b * part
<1> DEFINE q == b \div 8
<1>1. q \in Int /\ q * 8 <= b /\ b < q * 8 + 8
  OBVIOUS
<1>2. b >= 0 => ShareOf(b) = q * part
  BY Zenon DEF ShareOf
<1>3. b < 0 => ShareOf(b) = 0
  BY DEF ShareOf
<1> HIDE DEF q
<1>4. CASE part = 1
  BY <1>1, <1>2, <1>3, <1>4
<1>5. CASE part = 7
  BY <1>1, <1>2, <1>3, <1>5
<1> QED
  BY <1>4, <1>5, Zenon

\* It is what the runs check.
LEMMA InvImplies ==
  ASSUME Inv
  PROVE  /\ TypeOK /\ BytesExact /\ WithinBudget /\ EvictionsBalance
         /\ ListMapAgree /\ RecencyOrder /\ HoldsLastAdded
<1>1. Kept /\ Holding(cache) /\ bytes = Stored(cache)
  BY Zenon DEF Inv, LruOK
<1>2. lru!TypeOK /\ lru!ListMapAgree /\ lru!RecencyOrder /\ lru!HoldsLastAdded
  BY <1>1, KeptImplies, Zenon
<1>3. lru!TypeOK /\ ListMapAgree /\ RecencyOrder /\ HoldsLastAdded
  BY <1>2, Zenon DEF ListMapAgree, RecencyOrder, HoldsLastAdded
<1>4. bytes \in Nat
  BY <1>1, StoredSum, Zenon
<1>5. BytesExact
  BY <1>1, Zenon DEF Stored, BytesExact
<1>6. LimitOK /\ CountsOK
  BY Zenon DEF Inv
<1>7. budget \in Int /\ part \in {1, 7} /\ adding \in BOOLEAN /\ maxBytes = ShareOf(budget)
  BY <1>6, Zenon DEF LimitOK
<1>8. maxBytes \in Nat /\ (budget >= 8 => maxBytes # 0 /\ maxBytes * 8 <= budget * part)
  BY <1>7, ShareType, Zenon
<1>9. TypeOK
  BY <1>3, <1>4, <1>6, <1>7, <1>8, Zenon DEF TypeOK, CountsOK
<1>10. WithinBudget
  <2>1. SUFFICES ASSUME budget >= 8, ~ adding PROVE bytes * 8 <= budget * part
    BY Zenon DEF WithinBudget
  <2>2. bytes <= maxBytes /\ maxBytes * 8 <= budget * part
    BY <1>6, <1>8, <2>1, Zenon DEF LimitOK
  <2>3. budget * part \in Int
    BY <1>7
  <2> QED
    BY <1>4, <1>8, <2>2, <2>3
<1> QED
  BY <1>3, <1>5, <1>6, <1>9, <1>10, Zenon DEF CountsOK

\* The new group's cache is empty.
LEMMA InitInv == ASSUME Init PROVE Inv
<1>1. Kept
  <2>1. lru!Init
    BY Zenon DEF Init
  <2> QED
    BY <2>1, LruInit, Zenon
<1>2. DOMAIN cache = {} /\ ll = <<>>
  BY Zenon DEF Init, lru!Init, lru!NoKeys
<1>3. Holding(cache) /\ bytes = Stored(cache)
  BY <1>2, StoredNone, Zenon DEF Init
<1>4. CountsOK
  BY <1>2 DEF Init, CountsOK, EvictionsBalance
<1>5. LimitOK
  <2>1. budget \in Int /\ part \in {1, 7} /\ adding = FALSE /\ maxBytes = ShareOf(budget)
    BY BudgetAssumption, Zenon DEF BudgetAssumption, Init
  <2>2. maxBytes \in Nat /\ bytes = 0
    BY <2>1, ShareType, Zenon DEF Init
  <2>3. bytes <= maxBytes
    BY <2>2
  <2> QED
    BY <2>1, <2>3, Zenon DEF LimitOK
<1> QED
  BY <1>1, <1>3, <1>4, <1>5, Zenon DEF Inv, LruOK

-------------------------------------------------------------------------------
(* The operations *)

\* Numbers the invariant speaks of.
LEMMA Numbers ==
  ASSUME Inv
  PROVE  /\ Kept /\ Holding(cache) /\ bytes = Stored(cache)
         /\ bytes \in Nat /\ maxBytes \in Nat /\ Len(ll) \in Nat /\ now \in Nat
         /\ evictions \in Nat /\ adds \in Nat /\ lost \in Nat
         /\ evictions + Len(ll) = adds - lost
<1>1. LruOK /\ CountsOK /\ LimitOK
  BY Zenon DEF Inv
<1>2. bytes \in Nat /\ maxBytes \in Nat
  BY <1>1, StoredSum, ShareType, Zenon DEF LruOK, LimitOK
<1> QED
  BY <1>1, <1>2, Entries, Zenon DEF LruOK, CountsOK, EvictionsBalance

\* removeElement with its callback: one entry's bytes, one eviction.
LEMMA Evicts ==
  ASSUME LruOK, evictions \in Nat, NEW k \in DOMAIN cache, lru!removeElement(k),
         UNCHANGED <<now, last>>, OnEvicted(evicted')
  PROVE  /\ LruOK' /\ lru!Announced
         /\ bytes' \in Nat /\ bytes' <= bytes
         /\ evictions' = evictions + 1 /\ Len(ll') = Len(ll) - 1
<1>0. Kept /\ Holding(cache) /\ bytes = Stored(cache)
  BY Zenon DEF LruOK
<1>1. /\ Kept' /\ lru!Announced
      /\ cache' = lru!Drop(cache, k) /\ evicted' = {lru!Pair(k)} /\ Len(ll') = Len(ll) - 1
  BY <1>0, LruRemove, Zenon
<1>2. k \in Keys /\ cache[k].value \in Values
  BY <1>0, Zenon DEF Holding
<1> DEFINE size == Size(k, cache[k].value)
<1>3. Freed(evicted') = size /\ size \in Nat
  BY <1>1, <1>2, FreedOne, SizeType, Zenon DEF lru!Pair
<1>4. Cardinality(evicted') = 1
  BY <1>1, FS_Singleton, Zenon
<1>5. Holding(cache') /\ Stored(cache) = size + Stored(cache') /\ Stored(cache') \in Nat
  BY <1>0, <1>1, StoredDrop, StoredSum, Zenon
<1> HIDE DEF size
<1>6. bytes' = bytes - size /\ evictions' = evictions + 1
  BY <1>3, <1>4, Zenon DEF OnEvicted
<1>7. bytes' = Stored(cache') /\ bytes' \in Nat /\ bytes' <= bytes
  BY <1>0, <1>3, <1>5, <1>6
<1> QED
  BY <1>1, <1>5, <1>6, <1>7, Zenon DEF LruOK

\* A callback with nothing to report.
LEMMA EvictsNone ==
  ASSUME LruOK, evictions \in Nat, Kept', cache' = cache, evicted' = {}, OnEvicted(evicted')
  PROVE  LruOK' /\ bytes' = bytes /\ evictions' = evictions
<1>1. Freed(evicted') = 0 /\ Cardinality(evicted') = 0
  BY FreedOne, FS_EmptySet, Zenon
<1>2. bytes \in Nat
  BY StoredSum, Zenon DEF LruOK
<1>3. bytes' = bytes /\ evictions' = evictions
  BY <1>1, <1>2 DEF OnEvicted
<1> QED
  BY <1>3, Zenon DEF LruOK

\* What a step outside Add has to show.
LEMMA Keeps ==
  ASSUME Inv, LruOK', UNCHANGED <<limits, adding, adds>>,
         bytes' \in Nat, bytes' <= bytes, evictions' \in Nat, gets' \in Nat, hits' \in Nat,
         Len(ll') \in Nat, evictions' + Len(ll') = evictions + Len(ll)
  PROVE  Inv'
<1>1. /\ budget' = budget /\ part' = part /\ maxBytes' = maxBytes /\ resets' = resets
      /\ lost' = lost /\ adding' = adding /\ adds' = adds
  BY Zenon DEF limits
<1>2. CountsOK'
  BY <1>1, Zenon DEF Inv, CountsOK, EvictionsBalance
<1>3. LimitOK'
  <2>1. maxBytes = ShareOf(budget) /\ budget \in Int /\ part \in {1, 7} /\ adding \in BOOLEAN
    BY Zenon DEF Inv, LimitOK
  <2>2. ~ adding /\ maxBytes # 0 => bytes' <= maxBytes
    <3>1. ~ adding /\ maxBytes # 0 => bytes <= maxBytes
      BY Zenon DEF Inv, LimitOK
    <3>2. bytes \in Nat /\ maxBytes \in Nat
      BY Numbers, Zenon
    <3> QED
      BY <3>1, <3>2
  <2>3. adding' \in BOOLEAN /\ (~ adding' => ~ adding)
    BY <1>1, <2>1
  <2> QED
    BY <1>1, <2>1, <2>2, <2>3, Zenon DEF LimitOK, ShareOf
<1> QED
  BY <1>2, <1>3, Zenon DEF Inv

\* Such a step that takes one element out.
LEMMA KeepsEvicting ==
  ASSUME Inv, LruOK', UNCHANGED <<limits, adding, adds>>,
         bytes' \in Nat, bytes' <= bytes, gets' \in Nat, hits' \in Nat,
         evictions' = evictions + 1, Len(ll') = Len(ll) - 1
  PROVE  Inv'
<1>1. Len(ll') \in Nat
  <2>1. ll' \in Seq(Keys)
    BY Zenon DEF LruOK, Kept, ListOK
  <2> QED
    BY <2>1
<1>2. evictions \in Nat /\ Len(ll) \in Nat
  BY Numbers, Zenon
<1>3. evictions' \in Nat /\ evictions' + Len(ll') = evictions + Len(ll)
  BY <1>2
<1> QED
  BY <1>1, <1>3, Keeps, Zenon

\* Such a step that finds nothing to do.
LEMMA KeepsIdle ==
  ASSUME Inv, UNCHANGED <<ll, cache, now, since, last>>, evicted' = {}, OnEvicted(evicted'),
         UNCHANGED <<limits, adding, adds>>, gets' \in Nat, hits' \in Nat
  PROVE  Inv' /\ lru!Announced
<1>0. LruOK /\ evictions \in Nat
  BY Zenon DEF Inv, CountsOK
<1>1. Kept' /\ lru!Announced
  BY Numbers, EntriesStay, Zenon
<1>2. LruOK' /\ bytes' = bytes /\ evictions' = evictions
  BY <1>0, <1>1, EvictsNone, Zenon
<1>3. bytes' \in Nat /\ bytes' <= bytes /\ Len(ll') \in Nat
      /\ evictions' + Len(ll') = evictions + Len(ll)
  BY <1>2, Numbers
<1> QED
  BY <1>0, <1>1, <1>2, <1>3, Keeps, Zenon

\* Get of a key: a hit moves it, an expired one goes, a miss does nothing.
LEMMA GetStep == ASSUME Inv, NEW k \in Keys, Get(k) PROVE Inv' /\ lru!Announced
<1>0. LruOK /\ evictions \in Nat /\ gets \in Nat /\ hits \in Nat
  BY Zenon DEF Inv, CountsOK
<1>1. UNCHANGED <<limits, adding, adds>> /\ OnEvicted(evicted')
  BY Zenon DEF Get
<1>2. gets' \in Nat /\ hits' \in Nat
  BY <1>0 DEF Get
<1>3. CASE lru!GetHit(k)
  <2>1. Kept' /\ lru!Announced /\ Len(ll') = Len(ll)
    BY <1>0, <1>3, GetHitStep, Zenon DEF LruOK
  <2>2. LruOK' /\ bytes' = bytes /\ evictions' = evictions
    BY <1>0, <1>1, <1>3, <2>1, EvictsNone, Zenon DEF lru!GetHit
  <2>3. bytes' \in Nat /\ bytes' <= bytes /\ Len(ll') \in Nat
        /\ evictions' + Len(ll') = evictions + Len(ll)
    BY <2>1, <2>2, Numbers
  <2> QED
    BY <1>0, <1>1, <1>2, <2>1, <2>2, <2>3, Keeps, ZenonT(60)
<1>4. CASE lru!GetExpired(k)
  <2>1. /\ LruOK' /\ lru!Announced /\ bytes' \in Nat /\ bytes' <= bytes
        /\ evictions' = evictions + 1 /\ Len(ll') = Len(ll) - 1
    BY <1>0, <1>1, <1>4, Evicts, Zenon DEF lru!GetExpired
  <2> QED
    BY <1>1, <1>2, <2>1, KeepsEvicting, Zenon
<1>5. CASE lru!GetMiss(k)
  BY <1>1, <1>2, <1>5, KeepsIdle, Zenon DEF lru!GetMiss
<1> QED
  BY <1>3, <1>4, <1>5, Zenon DEF Get

\* Remove, of a key that may be absent.
LEMMA RemoveStep == ASSUME Inv, NEW k \in Keys, Remove(k) PROVE Inv' /\ lru!Announced
<1>0. LruOK /\ evictions \in Nat /\ gets \in Nat /\ hits \in Nat
  BY Zenon DEF Inv, CountsOK
<1>1. UNCHANGED <<limits, adding, adds>> /\ OnEvicted(evicted') /\ lru!Remove(k)
  BY Zenon DEF Remove
<1>2. gets' \in Nat /\ hits' \in Nat
  BY <1>0, Zenon DEF Remove
<1>3. CASE k \in DOMAIN cache
  <2>1. lru!removeElement(k) /\ UNCHANGED <<now, last>>
    BY <1>1, <1>3, Zenon DEF lru!Remove
  <2>2. /\ LruOK' /\ lru!Announced /\ bytes' \in Nat /\ bytes' <= bytes
        /\ evictions' = evictions + 1 /\ Len(ll') = Len(ll) - 1
    BY <1>0, <1>1, <1>3, <2>1, Evicts, Zenon
  <2> QED
    BY <1>1, <1>2, <2>2, KeepsEvicting, ZenonT(60)
<1>4. CASE k \notin DOMAIN cache
  <2>1. evicted' = {} /\ UNCHANGED <<ll, cache, now, since, last>>
    BY <1>1, <1>4, Zenon DEF lru!Remove
  <2> QED
    BY <1>1, <1>2, <2>1, KeepsIdle, Zenon
<1> QED
  BY <1>3, <1>4, Zenon

\* A turn of removeOldest's loop takes the last element of the list.
LEMMA RemoveOldestTurnStep == ASSUME Inv, RemoveOldestTurn PROVE Inv' /\ lru!Announced
<1>0. LruOK /\ evictions \in Nat /\ gets \in Nat /\ hits \in Nat
  BY Zenon DEF Inv, CountsOK
<1>1. /\ UNCHANGED <<limits, adding, adds>> /\ OnEvicted(evicted')
      /\ lru!removeElement(ll[Len(ll)]) /\ UNCHANGED <<now, last>>
  BY Zenon DEF RemoveOldestTurn, lru!RemoveOldest
<1>2. gets' \in Nat /\ hits' \in Nat
  BY <1>0, Zenon DEF RemoveOldestTurn
<1>3. ll[Len(ll)] \in DOMAIN cache
  <2>1. ll \in Seq(Keys) /\ ll # <<>>
    BY <1>0, Entries, Zenon DEF LruOK, RemoveOldestTurn
  <2>2. Len(ll) \in DOMAIN ll
    BY <2>1
  <2> QED
    BY <1>0, <2>2, Zenon DEF LruOK, Kept, ListOK, In
<1>4. /\ LruOK' /\ lru!Announced /\ bytes' \in Nat /\ bytes' <= bytes
      /\ evictions' = evictions + 1 /\ Len(ll') = Len(ll) - 1
  BY <1>0, <1>1, <1>3, Evicts, Zenon
<1> QED
  BY <1>1, <1>2, <1>4, KeepsEvicting, Zenon

\* Add brings the bytes of the new entry and takes those of the one it replaces.
LEMMA AddStep ==
  ASSUME Inv, NEW k \in Keys, NEW e \in lru!Entry, Add(k, e)
  PROVE  Inv' /\ lru!Announced
<1>0. /\ Kept /\ Holding(cache) /\ bytes = Stored(cache) /\ bytes \in Nat
      /\ Len(ll) \in Nat /\ evictions \in Nat /\ adds \in Nat /\ lost \in Nat
      /\ evictions + Len(ll) = adds - lost /\ maxBytes \in Nat
  BY Numbers, Zenon
<1>1. /\ bytes' = bytes - Freed(evicted') + Size(k, e.value)
      /\ evictions' = evictions + Cardinality(evicted') /\ adds' = adds + 1
      /\ adding' = (maxBytes # 0) /\ lru!Add(k, e)
      /\ gets' = gets /\ hits' = hits /\ budget' = budget /\ part' = part
      /\ maxBytes' = maxBytes /\ resets' = resets /\ lost' = lost
  BY Zenon DEF Add, limits
<1>2. /\ Kept' /\ lru!Announced /\ cache' = lru!With(cache, k, e)
      /\ \/ /\ k \in DOMAIN cache /\ evicted' = {lru!Pair(k)} /\ Len(ll') = Len(ll)
         \/ /\ k \notin DOMAIN cache /\ evicted' = {} /\ Len(ll') = Len(ll) + 1
  BY <1>0, <1>1, LruAdd, Zenon
<1>3. e.value \in Values
  BY Zenon DEF lru!Entry
<1> DEFINE new == Size(k, e.value)
<1>4. new \in Nat
  BY <1>3, SizeType, Zenon
<1>5. /\ Holding(cache') /\ bytes' = Stored(cache')
      /\ evictions' \in Nat /\ evictions' + Len(ll') = adds' - lost
  <2>1. CASE k \in DOMAIN cache
    <3> DEFINE old == Size(k, cache[k].value)
    <3>1. evicted' = {lru!Pair(k)} /\ Len(ll') = Len(ll)
      BY <1>2, <2>1, Zenon
    <3>2. cache[k].value \in Values
      BY <1>0, <2>1, Zenon DEF Holding
    <3>3. Freed(evicted') = old /\ old \in Nat
      BY <3>1, <3>2, FreedOne, SizeType, Zenon DEF lru!Pair
    <3>4. Cardinality(evicted') = 1
      BY <3>1, FS_Singleton, Zenon
    <3>5. Holding(cache') /\ Stored(cache') + old = new + Stored(cache)
      BY <1>0, <1>2, <1>3, <2>1, StoredReplace, Zenon
    <3>6. Stored(cache') \in Nat
      BY <3>5, StoredSum, Zenon
    <3>7. bytes' = bytes - old + new /\ evictions' = evictions + 1
      BY <1>1, <3>3, <3>4, Zenon
    <3> HIDE DEF old, new
    <3>8. bytes' = Stored(cache')
      BY <1>0, <1>4, <3>3, <3>5, <3>6, <3>7, SMTT(30)
    <3>9. evictions' \in Nat /\ evictions' + Len(ll') = adds' - lost
      BY <1>0, <1>1, <3>1, <3>7, SMTT(30)
    <3> QED
      BY <3>5, <3>8, <3>9, ZenonT(60)
  <2>2. CASE k \notin DOMAIN cache
    <3>1. evicted' = {} /\ Len(ll') = Len(ll) + 1
      BY <1>2, <2>2, Zenon
    <3>2. Freed(evicted') = 0 /\ Cardinality(evicted') = 0
      BY <3>1, FreedOne, FS_EmptySet, ZenonT(60)
    <3>3. Holding(cache') /\ Stored(cache') = new + Stored(cache)
      BY <1>0, <1>2, <1>3, <2>2, StoredInsert, ZenonT(60)
    <3>4. bytes' = bytes - 0 + new /\ evictions' = evictions + 0
      BY <1>1, <3>2, Zenon
    <3> HIDE DEF new
    <3>5. bytes' = Stored(cache')
      BY <1>0, <1>4, <3>3, <3>4, SMTT(30)
    <3>6. evictions' \in Nat /\ evictions' + Len(ll') = adds' - lost
      BY <1>0, <1>1, <3>1, <3>4
    <3> QED
      BY <3>3, <3>5, <3>6, Zenon
  <2> QED
    BY <2>1, <2>2, Zenon
<1>6. adds' \in Nat
  BY <1>0, <1>1
<1>7. CountsOK'
  BY <1>1, <1>5, <1>6, Zenon DEF Inv, CountsOK, EvictionsBalance
<1>8. LimitOK'
  <2>1. maxBytes = ShareOf(budget) /\ budget \in Int /\ part \in {1, 7}
    BY Zenon DEF Inv, LimitOK
  <2>2. adding' \in BOOLEAN /\ (maxBytes # 0 => adding')
    BY <1>1, Zenon
  <2> QED
    BY <1>1, <2>1, <2>2, Zenon DEF LimitOK, ShareOf
<1> QED
  BY <1>2, <1>5, <1>7, <1>8, Zenon DEF Inv, LruOK

\* removeOldest returns with bytes within the limit.
LEMMA RemoveOldestDoneStep == ASSUME Inv, RemoveOldestDone PROVE Inv' /\ lru!Announced
<1>1. /\ ll' = ll /\ cache' = cache /\ evicted' = evicted /\ now' = now /\ since' = since
      /\ last' = last /\ bytes' = bytes /\ evictions' = evictions /\ gets' = gets /\ hits' = hits
      /\ budget' = budget /\ part' = part /\ maxBytes' = maxBytes /\ resets' = resets
      /\ lost' = lost /\ adds' = adds
  BY Zenon DEF RemoveOldestDone, counters, limits
<1>2. Kept' /\ lru!Announced
  BY <1>1, Numbers, EntriesStay, Zenon
<1>3. LruOK' /\ CountsOK'
  BY <1>1, <1>2, Zenon DEF Inv, LruOK, CountsOK, EvictionsBalance
<1>4. LimitOK'
  <2>1. maxBytes = ShareOf(budget) /\ budget \in Int /\ part \in {1, 7}
    BY Zenon DEF Inv, LimitOK
  <2>2. bytes <= maxBytes /\ adding' \in BOOLEAN
    BY Zenon DEF RemoveOldestDone
  <2> QED
    BY <1>1, <2>1, <2>2, Zenon DEF LimitOK, ShareOf
<1> QED
  BY <1>2, <1>3, <1>4, Zenon DEF Inv

\* The clock, a disabled cache and stuttering leave the counters alone.
LEMMA IdleStep ==
  ASSUME Inv, UNCHANGED <<ll, cache, evicted, since, last, counters, limits, adding, adds>>,
         now' \in Nat
  PROVE  Inv' /\ lru!Announced
<1>1. /\ ll' = ll /\ cache' = cache /\ evicted' = evicted /\ since' = since
      /\ last' = last /\ bytes' = bytes /\ evictions' = evictions /\ gets' = gets /\ hits' = hits
      /\ budget' = budget /\ part' = part /\ maxBytes' = maxBytes /\ resets' = resets
      /\ lost' = lost /\ adds' = adds /\ adding' = adding
  BY Zenon DEF counters, limits
<1>2. Kept' /\ lru!Announced
  BY <1>1, Numbers, EntriesStay, Zenon
<1> QED
  <2>1. LruOK' /\ CountsOK'
    BY <1>1, <1>2, Zenon DEF Inv, LruOK, CountsOK, EvictionsBalance
  <2>2. /\ maxBytes = ShareOf(budget) /\ budget \in Int /\ part \in {1, 7} /\ adding \in BOOLEAN
        /\ ~ adding /\ maxBytes # 0 => bytes <= maxBytes
    BY Zenon DEF Inv, LimitOK
  <2>3. adding' \in BOOLEAN /\ (~ adding' => ~ adding)
    BY <1>1, <2>2
  <2>4. LimitOK'
    BY <1>1, <2>2, <2>3, Zenon DEF LimitOK, ShareOf
  <2> QED
    BY <1>2, <2>1, <2>4, Zenon DEF Inv

\* ResetCacheSize starts over with an empty cache and a new limit.
LEMMA ResetCacheSizeStep ==
  ASSUME Inv, NEW b \in Budgets, ResetCacheSize(b) PROVE Inv' /\ resets' # resets
<1>1. /\ ll' = <<>> /\ DOMAIN cache' = {} /\ evicted' = {} /\ last' = cache' /\ now' = now
      /\ since' = [k \in Keys |-> {}] /\ bytes' = 0
      /\ evictions' = 0 /\ gets' = 0 /\ hits' = 0 /\ lost' = adds /\ adds' = adds
      /\ resets' = resets + 1 /\ budget' = b /\ maxBytes' = ShareOf(b)
      /\ part' = part /\ adding' = adding /\ ~ adding
  BY Zenon DEF ResetCacheSize, lru!NoKeys
<1>2. resets \in Nat /\ adds \in Nat /\ part \in {1, 7} /\ adding \in BOOLEAN /\ b \in Int
  BY BudgetAssumption, Zenon DEF BudgetAssumption, Inv, CountsOK, LimitOK
<1>3. Kept'
  <2>1. ll' \in Seq(Keys) /\ DOMAIN ll' = {} /\ Len(ll') = 0 /\ now' \in Nat
    BY <1>1, Numbers
  <2>2. ListOK(ll', DOMAIN cache', since')
    BY <1>1, <2>1, Zenon DEF ListOK, Distinct, In, Ordered
  <2>3. MapOK'
    BY <1>1, <2>1, Zenon DEF MapOK, lru!HoldsLastAdded
  <2> QED
    BY <2>2, <2>3, Zenon DEF Kept
<1>4. LruOK'
  BY <1>1, <1>3, StoredNone, Zenon DEF LruOK
<1>5. CountsOK' /\ resets' # resets
  BY <1>1, <1>2 DEF CountsOK, EvictionsBalance
<1>6. LimitOK'
  <2>1. maxBytes' \in Nat
    BY <1>1, <1>2, ShareType, Zenon
  <2>2. bytes' <= maxBytes'
    BY <1>1, <2>1
  <2> QED
    BY <1>1, <1>2, <2>2, Zenon DEF LimitOK, ShareOf
<1> QED
  BY <1>4, <1>5, <1>6, Zenon DEF Inv

\* Every step.
LEMMA NextStep ==
  ASSUME Inv, [Next]_vars PROVE Inv' /\ (resets' # resets \/ lru!Announced)
<1>1. ASSUME NEW k \in Keys, NEW e \in lru!Entry, Add(k, e) PROVE Inv' /\ lru!Announced
  BY <1>1, AddStep, Zenon
<1>2. CASE RemoveOldestTurn
  BY <1>2, RemoveOldestTurnStep, Zenon
<1>3. CASE RemoveOldestDone
  BY <1>3, RemoveOldestDoneStep, Zenon
<1>4. ASSUME NEW k \in Keys, Get(k) \/ Remove(k) PROVE Inv' /\ lru!Announced
  BY <1>4, GetStep, RemoveStep, Zenon
<1>5. CASE Disabled \/ UNCHANGED vars
  BY <1>5, Numbers, IdleStep, Zenon DEF Disabled, vars
<1>6. ASSUME NEW b \in Budgets, ResetCacheSize(b) PROVE Inv' /\ resets' # resets
  BY <1>6, ResetCacheSizeStep, Zenon
<1>7. CASE Tick
  <2>1. now' \in Nat
    BY <1>7, Numbers DEF Tick, lru!Tick
  <2> QED
    BY <1>7, <2>1, IdleStep, Zenon DEF Tick, lru!Tick
<1> QED
  BY <1>1, <1>2, <1>3, <1>4, <1>5, <1>6, <1>7, ZenonT(60) DEF Next

-------------------------------------------------------------------------------
(* The theorems *)

\* The lemmas together, for the theorems.
LEMMA Always == Spec => []Inv /\ [][resets' # resets \/ lru!Announced]_vars
<1>1. Init => Inv
  BY InitInv, Zenon
<1>2. Inv /\ [Next]_vars => Inv'
  BY NextStep, Zenon
<1>3. Inv /\ [Next]_vars => [resets' # resets \/ lru!Announced]_vars
  BY NextStep, Zenon
<1> QED
  BY <1>1, <1>2, <1>3, PTL DEF Spec

\* Every variable stays in its type; in particular the byte count is never
\* negative, whatever is replaced, expires, is removed or evicted.
THEOREM TypesHold == Spec => []TypeOK
<1>1. Inv => TypeOK
  BY InvImplies, Zenon
<1> QED
  BY <1>1, Always, PTL

\* For any sizes of keys and values, the byte count of mutexCache is the size
\* of what its lru holds: add and the callback of the lru keep it exact
\* through replacement, expiry, removal and eviction.
THEOREM BytesCounted == Spec => []BytesExact
<1>1. Inv => BytesExact
  BY InvImplies, Zenon
<1> QED
  BY <1>1, Always, PTL

\* For any budgets, whenever the mutex is free the cache is within its part of
\* the budget in force.
THEOREM BudgetKept == Spec => []WithinBudget
<1>1. Inv => WithinBudget
  BY InvImplies, Zenon
<1> QED
  BY <1>1, Always, PTL

\* Every value added is still cached or was counted as an eviction, once.
THEOREM EvictionsCounted == Spec => []EvictionsBalance
<1>1. Inv => EvictionsBalance
  BY InvImplies, Zenon
<1> QED
  BY <1>1, Always, PTL

\* List and map of the lru hold the same keys inside mutexCache, across the
\* caches that ResetCacheSize makes and in the middle of removeOldest.
THEOREM ListAndMapAgree == Spec => []ListMapAgree
<1>1. Inv => ListMapAgree
  BY InvImplies, Zenon
<1> QED
  BY <1>1, Always, PTL

\* The list is in order of use, so that removeOldest takes the one used longest
\* ago, also after the lookups that expired.
THEOREM OrderedByUse == Spec => []RecencyOrder
<1>1. Inv => RecencyOrder
  BY InvImplies, Zenon
<1> QED
  BY <1>1, Always, PTL

\* A lookup finds the entry last added for its key, or none.
THEOREM LastAddedKept == Spec => []HoldsLastAdded
<1>1. Inv => HoldsLastAdded
  BY InvImplies, Zenon
<1> QED
  BY <1>1, Always, PTL

\* No operation drops or replaces an entry without the callback that counts
\* it, except ResetCacheSize, which drops the whole cache.
THEOREM NothingDroppedSilently == Spec => EvictedAccounted
BY Always, PTL DEF EvictedAccounted

===============================================================================
