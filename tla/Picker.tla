-------------------------------- MODULE Picker --------------------------------
(***************************************************************************)
(* peer.Picker: the consistent hash ring.  Two instances build a picker    *)
(* each, adding the same peers in their own order, some of them again:     *)
(* neither Add nor its caller looks for repeated addresses.                *)
(*                                                                         *)
(* The hash function is arbitrary: Init picks one over Bits-bit hashes,    *)
(* collisions included.  sort.Slice is not stable, so entries with equal   *)
(* hashes end up in any order.                                             *)
(***************************************************************************)
EXTENDS Integers, Sequences, FiniteSets, FiniteSetsExt

CONSTANTS
  Peers,
  Instances,
  Replicas,   \* entries per peer
  Bits,       \* width of a hash, and of int
  MaxAdds     \* bounds the calls of Add of each instance

ASSUME BitsAssumption == Bits \in Nat \ {0} /\ Replicas \in Nat \ {0}

\* A law of powers, for the proofs.
ASSUME PowerAssumption ==
  2 ^ (Bits - 1) \in Nat \ {0} /\ 2 ^ Bits = 2 * 2 ^ (Bits - 1)

VARIABLES
  hash,       \* hash[c][i]: HashFn of the i-th replica of peer c
  keys,       \* keys[p]: the ring of instance p, sorted by hash
  clientMap   \* clientMap[p]: the peers added

vars == <<hash, keys, clientMap>>

M == 2 ^ Bits
Hashes == 0 .. M - 1

\* Mutant of ToInt: the top bit is dropped instead.
ToIntMasked(h) == h % (2 ^ (Bits - 1))

\* int(hash): an unsigned value with the top bit set becomes negative.
ToInt(h) == IF h >= 2 ^ (Bits - 1) THEN h - M ELSE h

Entry == [hash : -(2 ^ (Bits - 1)) .. 2 ^ (Bits - 1) - 1, client : Peers]

Init ==
  /\ hash \in [Peers -> [1 .. Replicas -> Hashes]]
  /\ keys = [p \in Instances |-> <<>>]
  /\ clientMap = [p \in Instances |-> {}]

IsSorted(s) == \A i, j \in DOMAIN s : i < j => s[i].hash <= s[j].hash

Injective(f) == \A i, j \in DOMAIN f : f[i] = f[j] => i = j

\* Mutant of Sort: new entries stay at the end.
SortNothing(s) == {s}

\* The results sort.Slice may leave.
Sort(s) ==
  {t \in {[i \in DOMAIN s |-> s[f[i]]] :
            f \in {g \in [DOMAIN s -> DOMAIN s] : Injective(g)}} : IsSorted(t)}

\* Mutant of Replica: the replica number is left out of the hashed string, and
\* the hash keeps its unsigned value.
ReplicaUnsigned(c, i) == [hash |-> hash[c][1], client |-> c]

Replica(c, i) == [hash |-> ToInt(hash[c][i]), client |-> c]

\* A peer that was added before overwrites its entry of the map, and gets its
\* replicas a second time.
Add(p, c) ==
  /\ Len(keys[p]) < Replicas * MaxAdds
  /\ clientMap' = [clientMap EXCEPT ![p] = @ \cup {c}]
  /\ \E ring \in Sort(keys[p] \o [i \in 1 .. Replicas |-> Replica(c, i)]) :
       keys' = [keys EXCEPT ![p] = ring]
  /\ UNCHANGED hash

\* Mutant of Get: the hash modulo the number of entries.
GetModulo(ring, h) == ring[(h % Len(ring)) + 1].client

\* Get on a ring that is not empty, for a key that hashes to h.
Get(ring, h) ==
  LET later == {i \in DOMAIN ring : ring[i].hash >= ToInt(h)}
      idx == IF later = {} THEN 1 ELSE Min(later)
  IN  ring[idx].client

Next == \E p \in Instances, c \in Peers : Add(p, c)

Spec == Init /\ [][Next]_vars

-------------------------------------------------------------------------------
(* Properties *)

\* The ring has the replicas of the peers C and no others.
Holds(ring, C) ==
  /\ \A i \in DOMAIN ring : \E c \in C, r \in 1 .. Replicas : ring[i] = Replica(c, r)
  /\ \A c \in C, r \in 1 .. Replicas : \E i \in DOMAIN ring : ring[i] = Replica(c, r)

\* The ring holds entries with signed hashes, all the replicas of the peers of
\* the map and of no others, however often a peer was added.
TypeOK ==
  /\ keys \in [Instances -> Seq(Entry)]
  /\ clientMap \in [Instances -> SUBSET Peers]
  /\ \A p \in Instances : Holds(keys[p], clientMap[p])

\* How far clockwise peer c's nearest replica is from h, modulo 2^Bits.
Distance(c, h) ==
  Min({(hash[c][i] - h) % M : i \in 1 .. Replicas})

NoCollision ==
  \A c, d \in Peers, i, j \in 1 .. Replicas :
    hash[c][i] = hash[d][j] => c = d

\* Get returns a peer at the least clockwise distance on the unsigned ring,
\* although entries are searched in the order of signed integers.
PicksNearest ==
  \A p \in Instances, h \in Hashes : keys[p] # <<>> =>
    /\ Get(keys[p], h) \in clientMap[p]
    /\ \A c \in clientMap[p] :
         Distance(Get(keys[p], h), h) <= Distance(c, h)

\* Instances with the same peers agree on every owner, in whatever order and
\* however often they learned of them, unless hashes collide.
OwnersAgree ==
  NoCollision =>
    \A p, q \in Instances :
      clientMap[p] = clientMap[q] /\ keys[p] # <<>> =>
        \A h \in Hashes : Get(keys[p], h) = Get(keys[q], h)

\* A peer that joins only takes keys, it never moves them between the others;
\* one that is added again moves none.
JoinTakesOnly ==
  [][NoCollision =>
       \A p \in Instances : keys[p] # <<>> =>
         \A h \in Hashes :
           Get(keys'[p], h) \in {Get(keys[p], h)} \cup
                                (clientMap'[p] \ clientMap[p])]_vars
===============================================================================
