----------------------------- MODULE MCGroupCache -----------------------------
(***************************************************************************)
(* Small clusters for GroupCache.  A configuration picks the nodes, the    *)
(* keys and, for each caller, what it may do.                              *)
(***************************************************************************)
EXTENDS GroupCache, TLC

CONSTANTS a, b, c, k1, k2, p1, p2, p3

\* Around the ring from k1: b, a, c.  From k2: a, b, c.
Ring == k1 :> (b :> 0 @@ a :> 1 @@ c :> 2) @@ k2 :> (a :> 0 @@ b :> 1 @@ c :> 2)
\* b is nearest to both keys.
RingB == k1 :> (b :> 0 @@ a :> 1 @@ c :> 2) @@ k2 :> (b :> 0 @@ a :> 1 @@ c :> 2)

MCRank == [k \in Keys |-> [n \in Nodes |-> Ring[k][n]]]
MCRankB == [k \in Keys |-> [n \in Nodes |-> RingB[k][n]]]

Getters == [p \in Procs |-> {"get"}]
Setters == [p \in Procs |-> {"set"}]
\* p3 writes, the others read.
Writer(ops) == [p \in Procs |-> IF p = p3 THEN ops ELSE {"get"}]
WriterAny == Writer({"set", "remove", "removekeys"})
WriterSet == Writer({"set"})
WriterRemove == Writer({"remove"})
WriterRemoveKeys == Writer({"removekeys"})

Anywhere == [p \in Procs |-> Nodes]
\* A caller on a, one on b, which owns k1, and one on either.
OneOnEach == [p \in Procs |-> CASE p = p1 -> {a} [] p = p2 -> {b} [] p = p3 -> Nodes]
\* p1 is as far from k1 as can be.
FirstOnC == [p \in Procs |-> IF p = p1 THEN {c} ELSE Nodes]

\* While the lists name all nodes, b owns k1 and the others are alike.
NotOwners == Permutations(Nodes \ {b})

Once == [p \in Procs |-> 1]
\* A reader fills a cache before the write and reads again during it.
ReadTwice == [p \in Procs |-> IF p = p3 THEN 1 ELSE 2]
===============================================================================
