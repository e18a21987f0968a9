------------------------------ MODULE MutexCache ------------------------------
(***************************************************************************)
(* mutexCache: an lru.Cache behind a mutex that counts the bytes of its    *)
(* keys and values and evicts the oldest entries past a limit.             *)
(*                                                                         *)
(* m.mu makes each operation atomic.  Add keeps the mutex while the loop   *)
(* of removeOldest runs; each turn of the loop is an action, so a loop     *)
(* that cannot end shows as a deadlock.                                    *)
(*                                                                         *)
(* The cache is the main or the hot cache of a group, made anew by every   *)
(* ResetCacheSize with its part of the group's budget.  The group uses it  *)
(* only with a budget above zero.                                          *)
(***************************************************************************)
EXTENDS Integers, Sequences, FiniteSets, Functions

CONSTANTS
  Keys, Values,
  KeyLen, ValLen,   \* len(key), value.Len()
  Budgets,          \* what the group's maxCacheBytes may be
  MaxTime,          \* bound of the clock
  MaxAdds,          \* bound on calls of Add
  MaxGets,          \* bound on calls of Get
  MaxResets         \* bound on calls of ResetCacheSize after NewGroup's

ASSUME SizeAssumption == KeyLen \in [Keys -> Nat] /\ ValLen \in [Values -> Nat]
ASSUME BudgetAssumption == Budgets \subseteq Int

VARIABLES
  ll, cache, evicted, now, since, last,   \* m.lru
  bytes, evictions, gets, hits,           \* the counters
  budget,                                 \* g.maxCacheBytes
  part,                                   \* eighths of the budget: 1 hot, 7 main
  maxBytes,                               \* m.maxBytes; 0: unbounded
  resets,
  adding,                                 \* TRUE inside the loop of Add
  adds,                                   \* calls of lru.Add
  lost                                    \* ghost: those to caches since replaced

\* lru.Cache as Add builds it: no MaxEntries.
lru == INSTANCE LRU WITH MaxEntries <- 0

counters == <<bytes, evictions, gets, hits>>
limits == <<budget, part, maxBytes, resets, lost>>
vars == <<ll, cache, evicted, now, since, last, counters, limits, adding, adds>>

Size(k, v) == KeyLen[k] + ValLen[v]

\* ResetCacheSize: an eighth of the budget, rounded down, times the part.
ShareOf(b) == IF b >= 0 THEN (b \div 8) * part ELSE 0

\* NewGroup, which calls ResetCacheSize.
Init ==
  /\ lru!Init
  /\ bytes = 0 /\ evictions = 0 /\ gets = 0 /\ hits = 0
  /\ adding = FALSE
  /\ adds = 0
  /\ part \in {1, 7}
  /\ budget \in Budgets
  /\ maxBytes = ShareOf(budget)
  /\ resets = 0 /\ lost = 0

\* Mutant of ResetCacheSize: the caches are kept, only their limits change.
ResetCacheSizeKeeps(b) ==
  /\ ~ adding /\ resets < MaxResets
  /\ resets' = resets + 1
  /\ budget' = b /\ maxBytes' = ShareOf(b)
  /\ UNCHANGED <<ll, cache, evicted, now, since, last, counters, part, lost, adding, adds>>

\* A new cache with a new limit: what the old one held goes with it.
ResetCacheSize(b) ==
  /\ ~ adding /\ resets < MaxResets
  /\ resets' = resets + 1
  /\ budget' = b /\ maxBytes' = ShareOf(b)
  /\ ll' = <<>> /\ cache' = [k \in lru!NoKeys |-> k] /\ evicted' = {}
  /\ since' = [k \in Keys |-> {}] /\ last' = cache'
  /\ bytes' = 0 /\ evictions' = 0 /\ gets' = 0 /\ hits' = 0
  /\ lost' = adds
  /\ UNCHANGED <<now, part, adding, adds>>

\* Mutant of Freed: the key is forgotten.
FreedValueOnly(pairs) ==
  SumFunction([e \in pairs |-> ValLen[e.value]])

Freed(pairs) == SumFunction([e \in pairs |-> Size(e.key, e.value)])

\* Mutant of OnEvicted: an eviction is only counted once the limit bites.
OnEvictedInLoop(pairs) ==
  /\ bytes' = bytes - Freed(pairs)
  /\ evictions' = evictions + (IF adding THEN Cardinality(pairs) ELSE 0)

\* The callback, for all the pairs one operation of the lru passes to it.
OnEvicted(pairs) ==
  /\ bytes' = bytes - Freed(pairs)
  /\ evictions' = evictions + Cardinality(pairs)

-------------------------------------------------------------------------------
\* Mutant of Add: a replaced key is taken to keep its size.
AddUncounted(k, e) ==
  /\ ~ adding /\ budget > 0
  /\ adds < MaxAdds
  /\ lru!Add(k, e)
  /\ bytes' = bytes - Freed(evicted')
                 + (IF evicted' = {} THEN Size(k, e.value) ELSE 0)
  /\ evictions' = evictions + Cardinality(evicted')
  /\ adds' = adds + 1
  /\ adding' = (maxBytes # 0)
  /\ UNCHANGED <<gets, hits, limits>>

\* lru.Add with its callback, then the bytes of the new entry; the loop of
\* removeOldest follows unless the cache is unbounded.
Add(k, e) ==
  /\ ~ adding /\ budget > 0
  /\ adds < MaxAdds
  /\ lru!Add(k, e)
  /\ bytes' = bytes - Freed(evicted') + Size(k, e.value)
  /\ evictions' = evictions + Cardinality(evicted')
  /\ adds' = adds + 1
  /\ adding' = (maxBytes # 0)
  /\ UNCHANGED <<gets, hits, limits>>

\* Mutant of RemoveOldestTurn: an entry over the limit on its own is kept.
RemoveOldestTurnKeepsLast ==
  /\ adding
  /\ bytes > maxBytes
  /\ Len(ll) > 1
  /\ lru!RemoveOldest
  /\ OnEvicted(evicted')
  /\ UNCHANGED <<gets, hits, limits, adding, adds>>

\* One turn of removeOldest's loop.  On an empty list it changes nothing and
\* the loop would spin: the turn is then disabled.
RemoveOldestTurn ==
  /\ adding
  /\ bytes > maxBytes
  /\ ll # <<>>
  /\ lru!RemoveOldest
  /\ OnEvicted(evicted')
  /\ UNCHANGED <<gets, hits, limits, adding, adds>>

RemoveOldestDone ==
  /\ adding
  /\ bytes <= maxBytes
  /\ adding' = FALSE
  /\ UNCHANGED <<ll, cache, evicted, now, since, last, counters, limits, adds>>

Get(k) ==
  /\ ~ adding /\ budget > 0
  /\ gets < MaxGets
  /\ gets' = gets + 1
  /\ \/ lru!GetHit(k) /\ hits' = hits + 1
     \/ (lru!GetExpired(k) \/ lru!GetMiss(k)) /\ UNCHANGED hits
  /\ OnEvicted(evicted')
  /\ UNCHANGED <<limits, adding, adds>>

Remove(k) ==
  /\ ~ adding /\ budget > 0
  /\ lru!Remove(k)
  /\ OnEvicted(evicted')
  /\ UNCHANGED <<gets, hits, limits, adding, adds>>

\* populateCache, lookupCache and LocalRemove return at once.
Disabled ==
  /\ ~ adding /\ budget <= 0
  /\ UNCHANGED vars

Tick ==
  /\ lru!Tick
  /\ UNCHANGED <<counters, limits, adding, adds>>

Next ==
  \/ \E k \in Keys, e \in lru!Entry : Add(k, e)
  \/ RemoveOldestTurn
  \/ RemoveOldestDone
  \/ \E k \in Keys : Get(k) \/ Remove(k)
  \/ Disabled
  \/ \E b \in Budgets : ResetCacheSize(b)
  \/ Tick

Spec == Init /\ [][Next]_vars

\* A goroutine inside Add keeps running its loop.
FairSpec == Spec /\ WF_vars(RemoveOldestTurn) /\ WF_vars(RemoveOldestDone)

-------------------------------------------------------------------------------
(* Properties *)

\* The counters never go below zero, bytes above all, which Add and the
\* callback of the lru change by different amounts.
TypeOK ==
  /\ lru!TypeOK
  /\ bytes \in Nat /\ evictions \in Nat /\ gets \in Nat /\ hits \in Nat
  /\ budget \in Int /\ part \in {1, 7} /\ maxBytes \in Nat
  /\ adding \in BOOLEAN
  /\ adds \in Nat /\ lost \in Nat /\ resets \in Nat

\* bytes is the size of what the list holds, through replacement, removal,
\* expiry and eviction ("total bytes of all keys and values").
BytesExact ==
  bytes = SumFunction([k \in DOMAIN cache |-> Size(k, cache[k].value)])

\* Whenever the mutex is free the cache is within its part of the group's
\* budget, so that the two caches together never exceed it, also after
\* ResetCacheSize shrank it.  A budget below 8 bytes gives both caches the
\* limit 0, which means none.
WithinBudget ==
  budget >= 8 /\ ~ adding => bytes * 8 <= budget * part

\* Every value ever added to the cache is either still cached or counted as an eviction,
\* once: replacement, removal and expiry count like eviction by size.
EvictionsBalance == evictions + Len(ll) = adds - lost

\* removeOldest terminates: it is never left with nothing to evict.
AddReturns == adding ~> ~ adding

\* The list and the map of the lru hold the same keys, each once (ll and cache
\* are updated by separate statements in every operation).
ListMapAgree == lru!ListMapAgree

\* The list is in order of use: every key in front of k was used after k, so
\* the element RemoveOldest takes is the least recently used one.
RecencyOrder == lru!RecencyOrder

\* An entry is the last one added for its key, value and expiry together.
HoldsLastAdded == lru!HoldsLastAdded

\* No value leaves the lru unannounced: whatever is dropped or replaced, by a
\* limit, an expiry, a removal or a new value, is passed to OnEvicted, unless
\* the whole cache goes (resets).
EvictedAccounted == [][resets' # resets \/ lru!Announced]_vars
===============================================================================
