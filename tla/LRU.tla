--------------------------------- MODULE LRU ----------------------------------
(***************************************************************************)
(* lru.Cache: a doubly linked list of entries in order of use and a map    *)
(* from key to list element, with an optional limit on entries and expiry  *)
(* checked when an entry is looked up.  A nil map (a zero Cache, or one    *)
(* after Clear) behaves as an empty one.                                   *)
(*                                                                         *)
(* evicted is the set of (key, value) pairs the last operation passed to   *)
(* OnEvicted.  since and last are ghosts.                                  *)
(***************************************************************************)
EXTENDS Naturals, Sequences, FiniteSets

CONSTANTS
  Keys,
  Values,
  MaxEntries,   \* 0: no limit
  MaxTime       \* bound: the clock stops here

VARIABLES
  ll,       \* the list, front (most recently used) first, as keys
  cache,    \* the map: key -> entry
  evicted,
  now,      \* the clock behind Now()
  since,    \* ghost: since[k] is the set of keys used after k's last use
  last      \* ghost: last[k] is the last entry added for k

vars == <<ll, cache, evicted, now, since, last>>

\* An expire of 0 is the zero time.Time: the entry never expires, and neither
\* would one that expires at MaxTime.
Entry == [value : Values, expire : 0 .. MaxTime - 1]

NoKeys == {}

Init ==
  /\ ll = <<>>
  /\ cache = [k \in NoKeys |-> k]
  /\ evicted = {}
  /\ now = 1
  /\ since = [k \in Keys |-> {}]
  /\ last = [k \in NoKeys |-> k]

-------------------------------------------------------------------------------
(* Lists and maps *)

\* s without its element k, which occurs in it.
Without(s, k) ==
  LET i == CHOOSE i \in DOMAIN s : s[i] = k
  IN  [j \in 1 .. Len(s) - 1 |-> IF j < i THEN s[j] ELSE s[j + 1]]

PushFront(s, k) == [j \in 1 .. Len(s) + 1 |-> IF j = 1 THEN k ELSE s[j - 1]]

With(f, k, e) == [x \in DOMAIN f \cup {k} |-> IF x = k THEN e ELSE f[x]]

Drop(f, k) == [x \in DOMAIN f \ {k} |-> f[x]]

Pair(k) == [key |-> k, value |-> cache[k].value]

Touch(k) ==
  since' = [x \in Keys |-> IF x = k THEN {} ELSE since[x] \cup {k}]

\* Mutant of MoveToFront: a hit leaves the list alone, as a FIFO would.
MoveNowhere(k) == ll

MoveToFront(k) == PushFront(Without(ll, k), k)

\* Mutant of removeElement: the map keeps the key.
removeElementListOnly(k) ==
  /\ ll' = Without(ll, k)
  /\ evicted' = {Pair(k)}
  /\ UNCHANGED <<cache, since>>

removeElement(k) ==
  /\ ll' = Without(ll, k)
  /\ cache' = Drop(cache, k)
  /\ evicted' = {Pair(k)}
  /\ UNCHANGED since

-------------------------------------------------------------------------------
(* Operations *)

\* Mutant of Replace: a new value keeps the old expiry.
ReplaceKeepsExpiry(k, e) ==
  /\ k \in DOMAIN cache
  /\ evicted' = {Pair(k)}
  /\ ll' = MoveToFront(k)
  /\ cache' = [cache EXCEPT ![k].value = e.value]
  /\ Touch(k)

\* Mutant of Replace: the callback only sees entries that lose their key.
ReplaceSilently(k, e) ==
  /\ k \in DOMAIN cache
  /\ evicted' = {}
  /\ ll' = MoveToFront(k)
  /\ cache' = With(cache, k, e)
  /\ Touch(k)

\* Add of a key that is present.
Replace(k, e) ==
  /\ k \in DOMAIN cache
  /\ evicted' = {Pair(k)}
  /\ ll' = MoveToFront(k)
  /\ cache' = With(cache, k, e)
  /\ Touch(k)

\* Add of a new key, with the RemoveOldest that enforces MaxEntries.
Insert(k, e) ==
  /\ k \notin DOMAIN cache
  /\ Touch(k)
  /\ LET pushed == PushFront(ll, k)
         added == With(cache, k, e)
         oldest == pushed[Len(pushed)]
     IN  IF MaxEntries # 0 /\ Len(pushed) > MaxEntries
         THEN /\ ll' = Without(pushed, oldest)
              /\ cache' = Drop(added, oldest)
              /\ evicted' = {[key |-> oldest, value |-> added[oldest].value]}
         ELSE /\ ll' = pushed
              /\ cache' = added
              /\ evicted' = {}

Add(k, e) ==
  /\ Replace(k, e) \/ Insert(k, e)
  /\ last' = With(last, k, e)
  /\ UNCHANGED now

\* expire.Before(now), for an expire that is not the zero time.
Expired(e) == e.expire # 0 /\ e.expire < now

GetHit(k) ==
  /\ k \in DOMAIN cache
  /\ ~ Expired(cache[k])
  /\ ll' = MoveToFront(k)
  /\ Touch(k)
  /\ evicted' = {}
  /\ UNCHANGED <<cache, now, last>>

GetExpired(k) ==
  /\ k \in DOMAIN cache
  /\ Expired(cache[k])
  /\ removeElement(k)
  /\ UNCHANGED <<now, last>>

GetMiss(k) ==
  /\ k \notin DOMAIN cache
  /\ evicted' = {}
  /\ UNCHANGED <<ll, cache, now, since, last>>

Remove(k) ==
  /\ IF k \in DOMAIN cache
     THEN removeElement(k)
     ELSE evicted' = {} /\ UNCHANGED <<ll, cache, since>>
  /\ UNCHANGED <<now, last>>

RemoveOldest ==
  /\ IF ll # <<>>
     THEN removeElement(ll[Len(ll)])
     ELSE evicted' = {} /\ UNCHANGED <<ll, cache, since>>
  /\ UNCHANGED <<now, last>>

Clear ==
  /\ evicted' = {Pair(k) : k \in DOMAIN cache}
  /\ ll' = <<>>
  /\ cache' = [k \in NoKeys |-> k]
  /\ UNCHANGED <<now, since, last>>

\* Time passes between operations.
Tick ==
  /\ now < MaxTime
  /\ now' = now + 1
  /\ UNCHANGED <<ll, cache, evicted, since, last>>

Next ==
  \/ \E k \in Keys, e \in Entry : Add(k, e)
  \/ \E k \in Keys : GetHit(k) \/ GetExpired(k) \/ GetMiss(k) \/ Remove(k)
  \/ RemoveOldest
  \/ Clear
  \/ Tick

Spec == Init /\ [][Next]_vars

-------------------------------------------------------------------------------
(* Properties *)

\* What the list, the map and the callback's arguments (key and value
\* together) are made of.
TypeOK ==
  /\ ll \in Seq(Keys)
  /\ DOMAIN cache \subseteq Keys
  /\ \A k \in DOMAIN cache : cache[k] \in Entry
  /\ evicted \subseteq [key : Keys, value : Values]
  /\ now \in Nat
  /\ since \in [Keys -> SUBSET Keys]
  /\ DOMAIN last \subseteq Keys

\* The list and the map hold the same keys, each once (ll and cache are
\* updated by separate statements in every operation).
ListMapAgree ==
  /\ \A i, j \in DOMAIN ll : ll[i] = ll[j] => i = j
  /\ \A k \in Keys : k \in DOMAIN cache <=> \E i \in DOMAIN ll : ll[i] = k

\* The list is in order of use: every key in front of k was used after k, so
\* the element RemoveOldest takes is the least recently used one.
RecencyOrder ==
  \A i, j \in DOMAIN ll : i < j => ll[i] \in since[ll[j]]

\* A limit on entries is never exceeded once an operation returns.
WithinMaxEntries == MaxEntries # 0 => Len(ll) <= MaxEntries

\* An entry is the last one added for its key, value and expiry together.
HoldsLastAdded ==
  \A k \in DOMAIN cache : k \in DOMAIN last /\ cache[k] = last[k]

\* No value leaves the cache unannounced: whatever is dropped or replaced, by
\* a limit, an expiry, a removal or a new value, is passed to OnEvicted.
Announced ==
  \A k \in DOMAIN cache :
    k \notin DOMAIN cache' \/ cache'[k] # cache[k] => Pair(k) \in evicted'
EvictedAccounted == [][Announced]_vars
===============================================================================
