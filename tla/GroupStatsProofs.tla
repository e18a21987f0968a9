--------------------------- MODULE GroupStatsProofs ---------------------------
(***************************************************************************)
(* What Get and load count, for any nodes, keys, callers and handlers:     *)
(* argued from the moves of a Get.                                         *)
(***************************************************************************)
EXTENDS GroupStats, GroupCacheProofs, FiniteSetTheorems

-------------------------------------------------------------------------------
(***************************************************************************)
(* The statistics.  Every step books on one node only, one counter at most *)
(* and the places a Get leaves and reaches: Ledger.  The books of a node   *)
(* balance (StatsInv), and those of the cluster add up.                    *)
(***************************************************************************)

-------------------------------------------------------------------------------
(* Tallies *)

\* The pairs a tally counts.
Units(f) == UNION {{x} \X (1 .. f[x]) : x \in DOMAIN f}

\* A pair for each.
LEMMA UnitsOf ==
  ASSUME NEW S, NEW f \in [S -> Nat], NEW x, NEW i
  PROVE  <<x, i>> \in Units(f) <=> x \in S /\ i \in 1 .. f[x]
BY SMTT(30) DEF Units

\* They are finitely many, and none only if nothing was counted.
LEMMA TallyType ==
  ASSUME NEW S, IsFiniteSet(S), NEW f \in [S -> Nat]
  PROVE  /\ IsFiniteSet(Units(f)) /\ Tally(f) = Cardinality(Units(f))
         /\ Tally(f) \in Nat
         /\ Tally(f) = 0 <=> \A x \in S : f[x] = 0
<1> DEFINE g == [x \in S |-> {x} \X (1 .. f[x])]
           T == {{x} \X (1 .. f[x]) : x \in S}
<1>1. g \in Surjection(S, T)
  BY Zenon DEF Surjection
<1>2. IsFiniteSet(T)
  BY <1>1, FS_Surjection, Zenon DEF ExistsSurjection
<1>3. ASSUME NEW x \in S PROVE IsFiniteSet({x} \X (1 .. f[x]))
  <2>1. IsFiniteSet({x})
    BY FS_Singleton, Zenon
  <2>2. f[x] \in Int /\ 1 \in Int
    BY SMTT(30)
  <2>3. IsFiniteSet(1 .. f[x])
    BY <2>2, FS_Interval, Zenon
  <2> QED
    BY <2>1, <2>3, FS_Product, Zenon
<1>4. IsFiniteSet(UNION T)
  BY <1>2, <1>3, FS_UNION, Zenon
<1>5. IsFiniteSet(Units(f)) /\ Tally(f) = Cardinality(Units(f))
  <2>1. DOMAIN f = S
    BY Zenon
  <2> QED
    BY <1>4, <2>1, Zenon DEF Units, Tally
<1>6. Units(f) = {} <=> \A x \in S : f[x] = 0
  <2>1. ASSUME Units(f) = {}, NEW x \in S PROVE f[x] = 0
    <3>1. <<x, 1>> \notin Units(f)
      BY <2>1, Zenon
    <3> QED
      BY <3>1, UnitsOf, SMTT(30)
  <2>2. ASSUME \A x \in S : f[x] = 0 PROVE Units(f) = {}
    <3>1. \A u \in Units(f) : \E x \in S : u \in {x} \X (1 .. f[x])
      BY Zenon DEF Units
    <3>2. \A x \in S : {x} \X (1 .. f[x]) = {}
      BY <2>2
    <3> QED
      BY <3>1, <3>2, Zenon
  <2> QED
    BY <2>1, <2>2, Zenon
<1>7. Cardinality(Units(f)) \in Nat /\ (Cardinality(Units(f)) = 0 <=> Units(f) = {})
  BY <1>5, FS_CardinalityType, FS_EmptySet, Zenon
<1> QED
  BY <1>5, <1>6, <1>7, Zenon

\* One more is one more.
LEMMA TallyMore ==
  ASSUME NEW S, IsFiniteSet(S), NEW f \in [S -> Nat], NEW g \in [S -> Nat], NEW m \in S,
         g[m] = f[m] + 1, \A x \in S \ {m} : g[x] = f[x]
  PROVE  Tally(g) = Tally(f) + 1
<1> DEFINE u == <<m, g[m]>>
<1>1. IsFiniteSet(Units(f)) /\ Tally(f) = Cardinality(Units(f))
  BY TallyType, Zenon
<1>2. Tally(g) = Cardinality(Units(g))
  BY TallyType, Zenon
<1>3. u \notin Units(f)
  BY UnitsOf, SMTT(30)
<1>4. Units(g) = Units(f) \cup {u}
  <2>1. ASSUME NEW h \in [S -> Nat]
        PROVE  \A y \in Units(h) : \E x \in S : \E i \in 1 .. h[x] : y = <<x, i>>
    BY <2>1, SMTT(30) DEF Units
  <2>2. ASSUME NEW x \in S, NEW i \in 1 .. g[x], ~ (i \in 1 .. f[x])
        PROVE  x = m /\ i = g[m]
    BY <2>2, SMTT(30)
  <2>3. ASSUME NEW x \in S, NEW i \in 1 .. f[x] PROVE i \in 1 .. g[x]
    BY <2>3, SMTT(30)
  <2>4. g[m] \in 1 .. g[m]
    BY SMTT(30)
  <2>5. u \in Units(g)
    BY <2>4, UnitsOf, Zenon
  <2>6. ASSUME NEW y \in Units(g) PROVE y \in Units(f) \cup {u}
    <3>1. PICK x \in S : \E i \in 1 .. g[x] : y = <<x, i>>
      BY <2>1, <2>6, Zenon
    <3>2. PICK i \in 1 .. g[x] : y = <<x, i>>
      BY <3>1, Zenon
    <3>3. i \in 1 .. f[x] => y \in Units(f)
      BY <3>2, UnitsOf, Zenon
    <3> QED
      BY <2>2, <3>2, <3>3, Zenon
  <2>7. ASSUME NEW y \in Units(f) PROVE y \in Units(g)
    <3>1. PICK x \in S : \E i \in 1 .. f[x] : y = <<x, i>>
      BY <2>1, <2>7, Zenon
    <3>2. PICK i \in 1 .. f[x] : y = <<x, i>>
      BY <3>1, Zenon
    <3> QED
      BY <2>3, <3>2, UnitsOf, Zenon
  <2> HIDE DEF u
  <2> QED
    BY <2>5, <2>6, <2>7, Zenon
<1> HIDE DEF u
<1> QED
  BY <1>1, <1>2, <1>3, <1>4, FS_AddElement, ZenonT(60)

Look == {"lookup", "lookupHot"}
Inside == {"do", "recheck", "recheckHot"}
Away == {"load", "rpc", "reply"}
Here == {"local"}
Undone == {"load", "local"}

InGet(t, n, C) == task[t].op = "get" /\ task[t].node = n /\ task[t].pc \in C

Busy(t) == task[t].op = "get" /\ task[t].pc \in Undone

\* The loads under way that no request and no Getter has been made for yet.
Work == Cardinality({t \in Tasks : task[t].op = "get" /\ task[t].pc \in {"load", "local"}})

StatsType == stats \in [Nodes -> [Counters -> Nat]]

\* The counters a goroutine's step bumps.
BumpAt(s, t, deadline) ==
  CASE s = "Gets" -> Gets(t)
    [] s = "CacheHits" -> CacheHits(t)
    [] s = "Loads" -> Loads(t)
    [] s = "LoadsDeduped" -> LoadsDeduped(t)
    [] s = "PeerLoads" -> PeerLoads(t)
    [] s = "PeerErrors" -> PeerErrors(t, deadline)
    [] s = "LocalLoads" -> LocalLoads(t)
    [] s = "LocalLoadErrs" -> LocalLoadErrs(t)
    [] s = "SecondHits" -> SecondHits(t)
    [] OTHER -> FALSE

\* The same, as a set: it leaves operation o at place p with outcome r for
\* operation o2 at place q with outcome r2.
Bumped(o, p, r, o2, q, r2, deadline) ==
  IF o = "none" /\ o2 = "get" THEN {"Gets"}
  ELSE IF o # "get" THEN {}
  ELSE IF p \in {"lookup", "lookupHot"} /\ q = "idle" THEN {"CacheHits"}
  ELSE IF p \in {"recheck", "recheckHot"} /\ q = "done" THEN {"CacheHits", "SecondHits"}
  ELSE IF p = "lookupHot" /\ q = "do" THEN {"Loads"}
  ELSE IF p = "recheckHot" /\ q = "load" THEN {"LoadsDeduped"}
  ELSE IF p = "reply" /\ q = "done" /\ r = "ok" THEN {"PeerLoads"}
  ELSE IF /\ p = "reply" /\ q \in {"done", "local"}
          /\ r = "net" \/ (r = "ctx" /\ deadline) THEN {"PeerErrors"}
  ELSE IF p = "local" /\ q = "fill" THEN {"LocalLoads"}
  ELSE IF p = "local" /\ q = "done" /\ r2 # "panic" THEN {"LocalLoadErrs"}
  ELSE {}

\* How many more are at the places C after a move from p to q.
By(p, q, C) == (IF q \in C THEN 1 ELSE 0) - (IF p \in C THEN 1 ELSE 0)

\* A goroutine that counts for nothing in a step.
Idles(v) ==
  /\ \A s \in Counters, d \in BOOLEAN : ~ BumpAt(s, v, d)
  /\ \A n \in Nodes : /\ InGet(v, n, Look)' <=> InGet(v, n, Look)
                      /\ InGet(v, n, Inside)' <=> InGet(v, n, Inside)
                      /\ InGet(v, n, Away)' <=> InGet(v, n, Away)
                      /\ InGet(v, n, Here)' <=> InGet(v, n, Here)

-------------------------------------------------------------------------------
(* Counting *)

\* A set that one element may enter or leave.
LEMMA Recount ==
  ASSUME NEW T, IsFiniteSet(T), NEW A \in SUBSET T, NEW B \in SUBSET T, NEW u,
         A \ {u} = B \ {u}
  PROVE  /\ Cardinality(A) \in Nat /\ Cardinality(B) \in Nat
         /\ Cardinality(B) = Cardinality(A) + (IF u \in B THEN 1 ELSE 0)
                                            - (IF u \in A THEN 1 ELSE 0)
<1>1. IsFiniteSet(A) /\ IsFiniteSet(B)
  BY FS_Subset, Zenon
<1>2. Cardinality(A) \in Nat /\ Cardinality(B) \in Nat
  BY <1>1, FS_CardinalityType, Zenon
<1> DEFINE C == A \ {u}
<1>3. /\ Cardinality(C) = IF u \in A THEN Cardinality(A) - 1 ELSE Cardinality(A)
      /\ Cardinality(C) = IF u \in B THEN Cardinality(B) - 1 ELSE Cardinality(B)
  BY <1>1, FS_RemoveElement, Zenon
<1> HIDE DEF C
<1> QED
  BY <1>2, <1>3, SMTT(30)

\* Tasks are finitely many.
LEMMA TasksFinite == IsFiniteSet(Tasks)
BY FiniteAssumption, Zenon DEF Tasks

\* The Gets at some places of a node.
LEMMA OnMoves ==
  ASSUME NEW u \in Tasks, NEW n, NEW C,
         \A v \in Tasks \ {u} : InGet(v, n, C)' <=> InGet(v, n, C)
  PROVE  /\ On(n, C) \in Nat /\ On(n, C)' \in Nat
         /\ On(n, C)' = On(n, C) + (IF InGet(u, n, C)' THEN 1 ELSE 0)
                                 - (IF InGet(u, n, C) THEN 1 ELSE 0)
<1> DEFINE A == {t \in Tasks : /\ task[t].op = "get" /\ task[t].node = n
                               /\ task[t].pc \in C}
           B == {t \in Tasks : /\ task'[t].op = "get" /\ task'[t].node = n
                               /\ task'[t].pc \in C}
<1>1. On(n, C) = Cardinality(A) /\ On(n, C)' = Cardinality(B)
  BY Zenon DEF On
<1>2. A \in SUBSET Tasks /\ B \in SUBSET Tasks
  BY Zenon
<1>3. \A t \in Tasks : (t \in A <=> InGet(t, n, C)) /\ (t \in B <=> InGet(t, n, C)')
  BY Zenon DEF InGet
<1> HIDE DEF A, B
<1>4. A \ {u} = B \ {u}
  BY <1>2, <1>3, Zenon
<1>5. /\ Cardinality(A) \in Nat /\ Cardinality(B) \in Nat
      /\ Cardinality(B) = Cardinality(A) + (IF u \in B THEN 1 ELSE 0)
                                         - (IF u \in A THEN 1 ELSE 0)
  BY <1>2, <1>4, TasksFinite, Recount, ZenonT(60)
<1> QED
  BY <1>1, <1>3, <1>5, Zenon

\* The loads nobody was asked for.
LEMMA WorkMoves ==
  ASSUME NEW u \in Tasks, \A v \in Tasks \ {u} : Busy(v)' <=> Busy(v)
  PROVE  /\ Work \in Nat /\ Work' \in Nat
         /\ Work' = Work + (IF Busy(u)' THEN 1 ELSE 0) - (IF Busy(u) THEN 1 ELSE 0)
<1> DEFINE A == {t \in Tasks : task[t].op = "get" /\ task[t].pc \in {"load", "local"}}
           B == {t \in Tasks : task'[t].op = "get" /\ task'[t].pc \in {"load", "local"}}
<1>1. Work = Cardinality(A) /\ Work' = Cardinality(B)
  BY Zenon DEF Work
<1>2. A \in SUBSET Tasks /\ B \in SUBSET Tasks
  BY Zenon
<1>3. \A t \in Tasks : (t \in A <=> Busy(t)) /\ (t \in B <=> Busy(t)')
  BY Zenon DEF Busy, Undone
<1> HIDE DEF A, B
<1>4. A \ {u} = B \ {u}
  BY <1>2, <1>3, Zenon
<1>5. /\ Cardinality(A) \in Nat /\ Cardinality(B) \in Nat
      /\ Cardinality(B) = Cardinality(A) + (IF u \in B THEN 1 ELSE 0)
                                         - (IF u \in A THEN 1 ELSE 0)
  BY <1>2, <1>4, TasksFinite, Recount, ZenonT(60)
<1> QED
  BY <1>1, <1>3, <1>5, Zenon

\* The counters, as Bumped names them.
LEMMA BumpsOf ==
  ASSUME NEW t, NEW d \in BOOLEAN, NEW s \in Counters
  PROVE  BumpAt(s, t, d) <=>
           s \in Bumped(task[t].op, task[t].pc, task[t].res.st,
                        task'[t].op, task'[t].pc, task'[t].res.st, d)
<1>0. PICK o, p, r, o2, q, r2 :
        /\ task[t].op = o /\ task[t].pc = p /\ task[t].res.st = r
        /\ task'[t].op = o2 /\ task'[t].pc = q /\ task'[t].res.st = r2
  BY Zenon
<1> SUFFICES BumpAt(s, t, d) <=> s \in Bumped(o, p, r, o2, q, r2, d)
  BY <1>0, Zenon
<1>1. CASE s = "Gets"
  BY <1>0, <1>1, Zenon DEF BumpAt, Gets, Bumped
<1>2. CASE s = "CacheHits"
  BY <1>0, <1>2, Zenon DEF BumpAt, CacheHits, Goes, Bumped
<1>3. CASE s = "Loads"
  BY <1>0, <1>3, Zenon DEF BumpAt, Loads, Goes, Bumped
<1>4. CASE s = "LoadsDeduped"
  BY <1>0, <1>4, Zenon DEF BumpAt, LoadsDeduped, Goes, Bumped
<1>5. CASE s = "PeerLoads"
  BY <1>0, <1>5, Zenon DEF BumpAt, PeerLoads, Goes, Bumped
<1>6. CASE s = "PeerErrors"
  <2>1. BumpAt(s, t, d) <=> PeerErrors(t, d)
    BY <1>6, Zenon DEF BumpAt
  <2> QED
    BY <1>0, <1>6, <2>1, Zenon DEF PeerErrors, Goes, Bumped
<1>7. CASE s = "LocalLoads"
  BY <1>0, <1>7, Zenon DEF BumpAt, LocalLoads, Goes, Bumped
<1>8. CASE s = "LocalLoadErrs"
  BY <1>0, <1>8, Zenon DEF BumpAt, LocalLoadErrs, Goes, Bumped
<1>9. CASE s = "SecondHits"
  BY <1>0, <1>9, Zenon DEF BumpAt, SecondHits, Goes, Bumped
<1>10. CASE s = "Refused"
  BY <1>10, Zenon DEF BumpAt, Bumped
<1> HIDE DEF Bumped
<1> QED
  BY <1>1, <1>2, <1>3, <1>4, <1>5, <1>6, <1>7, <1>8, <1>9, <1>10, Zenon DEF Counters

\* A goroutine that stays, or is answered or released, bumps nothing, and
\* neither does one that runs no Get.
LEMMA BumpsNone ==
  ASSUME NEW t,
         \/ /\ task'[t].op = task[t].op
            /\ \/ task'[t].pc = task[t].pc
               \/ task[t].pc = "rpc" /\ task'[t].pc = "reply"
               \/ task[t].pc = "wait" /\ task'[t].pc = "wake"
               \/ task[t].pc = "load" /\ task'[t].pc = "rpc"
         \/ task[t].op # "get" /\ task'[t].op # "get"
  PROVE  \A s \in Counters, d \in BOOLEAN : ~ BumpAt(s, t, d)
<1> SUFFICES ASSUME NEW s \in Counters, NEW d \in BOOLEAN PROVE ~ BumpAt(s, t, d)
  BY Zenon
<1>1. PICK o, p, r, o2, q, r2 :
        /\ task[t].op = o /\ task[t].pc = p /\ task[t].res.st = r
        /\ task'[t].op = o2 /\ task'[t].pc = q /\ task'[t].res.st = r2
  BY Zenon
<1>2. Bumped(o, p, r, o2, q, r2, d) = {}
  BY <1>1, Zenon DEF Bumped
<1> QED
  BY <1>1, <1>2, BumpsOf, Zenon

\* The counters move with the goroutine that moves.
LEMMA BumpsOne ==
  ASSUME StatsType, Count, NEW u, \A v \in Tasks \ {u} : Idles(v)
  PROVE  \E d \in BOOLEAN : \A n \in Nodes, s \in Counters :
           stats'[n][s] =
             stats[n][s] + IF u \in Tasks /\ NodeOf(u) = n /\ BumpAt(s, u, d) THEN 1 ELSE 0
<1>1. PICK d \in BOOLEAN : \A n \in Nodes, s \in Counters :
        stats'[n][s] = stats[n][s] + IF <<n, s>> \in Bumps(d) THEN 1 ELSE 0
  <2>1. PICK B \in {Bumps(TRUE), Bumps(FALSE)} :
          stats' = [n \in Nodes |-> [s \in Counters |->
                      stats[n][s] + IF <<n, s>> \in B THEN 1 ELSE 0]]
    BY Zenon DEF Count
  <2>2. PICK d \in BOOLEAN : B = Bumps(d)
    BY <2>1, Zenon
  <2>3. \A n \in Nodes, s \in Counters :
          stats'[n][s] = stats[n][s] + IF <<n, s>> \in B THEN 1 ELSE 0
    BY <2>1, Zenon
  <2> QED
    BY <2>2, <2>3, Zenon
<1>2. ASSUME NEW n \in Nodes, NEW s \in Counters
      PROVE  <<n, s>> \in Bumps(d) <=> u \in Tasks /\ NodeOf(u) = n /\ BumpAt(s, u, d)
  <2>1. <<n, s>> \in Bumps(d) <=>
          \E t \in Tasks : task'[t] # task[t] /\ NodeOf(t) = n /\ BumpAt(s, t, d)
    <3> DEFINE S(t) == {c \in Counters : BumpAt(c, t, d)}
               M == {t \in Tasks : task'[t] # task[t]}
    <3>1. Bumps(d) = UNION {{NodeOf(t)} \X S(t) : t \in M}
      BY Zenon DEF Bumps, BumpAt
    <3>2. \A t : s \in S(t) <=> BumpAt(s, t, d)
      BY Zenon
    <3> HIDE DEF S
    <3>3. <<n, s>> \in Bumps(d) <=> \E t \in M : <<n, s>> \in {NodeOf(t)} \X S(t)
      BY <3>1, Zenon
    <3>4. \A t : <<n, s>> \in {NodeOf(t)} \X S(t) <=> n = NodeOf(t) /\ s \in S(t)
      BY Zenon
    <3> QED
      BY <3>2, <3>3, <3>4, Zenon
  <2>2. ASSUME NEW t \in Tasks, task'[t] = task[t] PROVE ~ BumpAt(s, t, d)
    BY <2>2, BumpsNone, Zenon
  <2> QED
    BY <2>1, <2>2, Zenon DEF Idles
<1>3. \A n \in Nodes, s \in Counters :
        stats'[n][s] =
          stats[n][s] + IF u \in Tasks /\ NodeOf(u) = n /\ BumpAt(s, u, d) THEN 1 ELSE 0
  <2> SUFFICES ASSUME NEW n \in Nodes, NEW s \in Counters
               PROVE  stats'[n][s] = stats[n][s] +
                        IF u \in Tasks /\ NodeOf(u) = n /\ BumpAt(s, u, d) THEN 1 ELSE 0
    BY Zenon
  <2>1. stats'[n][s] = stats[n][s] + IF <<n, s>> \in Bumps(d) THEN 1 ELSE 0
    BY <1>1, Zenon
  <2>2. <<n, s>> \in Bumps(d) <=> u \in Tasks /\ NodeOf(u) = n /\ BumpAt(s, u, d)
    BY <1>2, Zenon
  <2> QED
    BY <2>1, <2>2, Zenon
<1> QED
  BY <1>3, Zenon

\* A goroutine beside the one that moves counts for nothing.
LEMMA BesideIdles ==
  ASSUME NEW v, Beside(v)
  PROVE  Idles(v) /\ (Busy(v)' <=> Busy(v))
<1>1. \A s \in Counters, d \in BOOLEAN : ~ BumpAt(s, v, d)
  BY BumpsNone, Zenon DEF Beside, Keeps
<1> QED
  BY <1>1, Zenon DEF Idles, Beside, Keeps, InGet, Busy, Look, Inside, Away, Here, Undone

-------------------------------------------------------------------------------
(* The ledger *)

\* The counters C of node n go up, and so many Gets more, or fewer, are at its
\* lookup, at its flight, with a peer and at the Getter.
Move(n, C, look, inside, away, here) ==
  /\ \A s \in Counters : stats'[n][s] = stats[n][s] + IF s \in C THEN 1 ELSE 0
  /\ On(n, Look)' = On(n, Look) + look
  /\ On(n, Inside)' = On(n, Inside) + inside
  /\ On(n, Away)' = On(n, Away) + away
  /\ On(n, Here)' = On(n, Here) + here

\* So many loads more wait for a request or a Getter.
Works(w) == Work' = Work + w

Called == \E p \in Procs : left[p] > 0 /\ left' = [left EXCEPT ![p] = @ - 1]

\* What a step may do to the books of the node it is on.
Booked(n) ==
  \/ Move(n, {"Gets"}, 1, 0, 0, 0) /\ Works(0) /\ Called
  \/ Move(n, {"Gets", "Refused"}, 0, 0, 0, 0) /\ Works(0) /\ Called
  \/ Move(n, {"Gets"}, 1, 0, 0, 0) /\ Works(-1) /\ left' = left
  \/ /\ left' = left /\ Works(0)
     /\ \/ Move(n, {}, 0, 0, 0, 0)
        \/ Move(n, {"CacheHits"}, -1, 0, 0, 0)
        \/ Move(n, {"Loads"}, -1, 1, 0, 0)
        \/ Move(n, {}, 0, -1, 0, 0)
        \/ Move(n, {"CacheHits", "SecondHits"}, 0, -1, 0, 0)
        \/ Move(n, {}, 0, 0, -1, 1)
        \/ Move(n, {"PeerLoads"}, 0, 0, -1, 0)
        \/ Move(n, {"PeerErrors"}, 0, 0, -1, 0) /\ ~ Clean
        \/ Move(n, {}, 0, 0, -1, 0) /\ ~ Clean
  \/ /\ left' = left /\ Works(1)
     /\ \/ Move(n, {"LoadsDeduped"}, 0, -1, 1, 0)
        \/ Move(n, {"PeerErrors"}, 0, 0, -1, 1) /\ faults # 0
  \/ /\ left' = left /\ Works(-1)
     /\ \/ Move(n, {}, 0, 0, 0, 0) /\ faults' # 0
        \/ Move(n, {"LocalLoads"}, 0, 0, 0, -1)
        \/ Move(n, {"LocalLoadErrs"}, 0, 0, 0, -1)
        \/ Move(n, {}, 0, 0, 0, -1) /\ faults' # 0

Ledger ==
  \/ /\ \A n \in Nodes : Move(n, {}, 0, 0, 0, 0)
     /\ Works(0) /\ (left' = left \/ ~ GetsOnly)
  \/ \E m \in Nodes : /\ \A n \in Nodes \ {m} : Move(n, {}, 0, 0, 0, 0)
                      /\ Booked(m)

\* Both counts are natural numbers.
LEMMA CountType ==
  /\ Work \in Nat
  /\ \A n, C : On(n, C) \in Nat
<1>1. \A S \in SUBSET Tasks : Cardinality(S) \in Nat
  BY TasksFinite, FS_Subset, FS_CardinalityType, Zenon
<1>2. Work \in Nat
  <2> DEFINE S == {t \in Tasks : task[t].op = "get" /\ task[t].pc \in {"load", "local"}}
  <2>1. Work = Cardinality(S)
    BY Zenon DEF Work
  <2>2. S \in SUBSET Tasks
    BY Zenon
  <2> QED
    BY <1>1, <2>1, <2>2, Zenon
<1>3. ASSUME NEW n, NEW C PROVE On(n, C) \in Nat
  <2> DEFINE S == {t \in Tasks : /\ task[t].op = "get" /\ task[t].node = n
                                 /\ task[t].pc \in C}
  <2>1. On(n, C) = Cardinality(S)
    BY Zenon DEF On
  <2>2. S \in SUBSET Tasks
    BY Zenon
  <2> QED
    BY <1>1, <2>1, <2>2, Zenon
<1> QED
  BY <1>2, <1>3, Zenon

\* A step in which nobody counts for anything.
LEMMA NobodyMoves ==
  ASSUME StatsType, Count, \A v \in Tasks : Idles(v)
  PROVE  \A n \in Nodes : Move(n, {}, 0, 0, 0, 0)
<1> SUFFICES ASSUME NEW n \in Nodes PROVE Move(n, {}, 0, 0, 0, 0)
  BY Zenon
<1>1. \A s \in Counters : stats'[n][s] = stats[n][s]
  <2>1. PICK d \in BOOLEAN : \A m \in Nodes, s \in Counters :
          stats'[m][s] =
            stats[m][s] + IF Nil \in Tasks /\ NodeOf(Nil) = m /\ BumpAt(s, Nil, d) THEN 1 ELSE 0
    BY BumpsOne, Zenon
  <2>2. Nil \notin Tasks
    BY TaskAssumption, Zenon DEF Tasks
  <2>3. \A s \in Counters : stats[n][s] \in Nat
    BY Zenon DEF StatsType
  <2> QED
    BY <2>1, <2>2, <2>3, SMTT(30)
<1>2. ASSUME NEW C \in {Look, Inside, Away, Here} PROVE On(n, C)' = On(n, C)
  <2> DEFINE A == {t \in Tasks : /\ task[t].op = "get" /\ task[t].node = n
                                 /\ task[t].pc \in C}
             B == {t \in Tasks : /\ task'[t].op = "get" /\ task'[t].node = n
                                 /\ task'[t].pc \in C}
  <2>1. On(n, C) = Cardinality(A) /\ On(n, C)' = Cardinality(B)
    BY Zenon DEF On
  <2>2. \A t \in Tasks : InGet(t, n, C) <=> InGet(t, n, C)'
    BY <1>2, Zenon DEF Idles
  <2>3. A = B
    BY <2>2, Zenon DEF InGet
  <2> QED
    BY <2>1, <2>3, Zenon
<1>3. On(n, Look) \in Nat /\ On(n, Inside) \in Nat /\ On(n, Away) \in Nat /\ On(n, Here) \in Nat
  BY CountType, Zenon
<1>4. /\ On(n, Look)' = On(n, Look) /\ On(n, Inside)' = On(n, Inside)
      /\ On(n, Away)' = On(n, Away) /\ On(n, Here)' = On(n, Here)
  BY <1>2, Zenon
<1>5. \A s \in Counters : stats[n][s] \in Nat
  BY Zenon DEF StatsType
<1> QED
  BY <1>1, <1>3, <1>4, <1>5, SMTT(30) DEF Move

\* A step of one Get: nothing changes on the other nodes.
LEMMA OneMoves ==
  ASSUME StatsType, Count, NEW u \in Tasks, \A v \in Tasks \ {u} : Idles(v),
         NEW m \in Nodes, NodeOf(u) = m,
         task[u].op = "get" => task[u].node = m,
         task'[u].op = "get" => task'[u].node = m
  PROVE  \E d \in BOOLEAN :
           /\ \A n \in Nodes \ {m} : Move(n, {}, 0, 0, 0, 0)
           /\ \A s \in Counters :
                stats'[m][s] = stats[m][s] + IF BumpAt(s, u, d) THEN 1 ELSE 0
           /\ \A C \in {Look, Inside, Away, Here} :
                On(m, C)' = On(m, C)
                  + (IF task'[u].op = "get" /\ task'[u].pc \in C THEN 1 ELSE 0)
                  - (IF task[u].op = "get" /\ task[u].pc \in C THEN 1 ELSE 0)
<1>1. PICK d \in BOOLEAN : \A n \in Nodes, s \in Counters :
        stats'[n][s] =
          stats[n][s] + IF u \in Tasks /\ NodeOf(u) = n /\ BumpAt(s, u, d) THEN 1 ELSE 0
  BY BumpsOne, Zenon
<1>2. \A n \in Nodes, s \in Counters : stats[n][s] \in Nat
  BY Zenon DEF StatsType
<1>3. ASSUME NEW n \in Nodes, NEW C \in {Look, Inside, Away, Here}
      PROVE  /\ On(n, C) \in Nat
             /\ On(n, C)' = On(n, C) + (IF InGet(u, n, C)' THEN 1 ELSE 0)
                                     - (IF InGet(u, n, C) THEN 1 ELSE 0)
  <2>1. \A v \in Tasks \ {u} : InGet(v, n, C)' <=> InGet(v, n, C)
    BY <1>3, Zenon DEF Idles
  <2> QED
    BY <2>1, OnMoves, Zenon
<1>4. ASSUME NEW n \in Nodes \ {m} PROVE Move(n, {}, 0, 0, 0, 0)
  <2>1. \A C : ~ InGet(u, n, C)' /\ ~ InGet(u, n, C)
    BY <1>4, Zenon DEF InGet
  <2>2. ASSUME NEW C \in {Look, Inside, Away, Here}
        PROVE  On(n, C) \in Nat /\ On(n, C)' = On(n, C)
    BY <1>3, <2>1, SMTT(30)
  <2>3. /\ On(n, Look) \in Nat /\ On(n, Inside) \in Nat /\ On(n, Away) \in Nat /\ On(n, Here) \in Nat
        /\ On(n, Look)' = On(n, Look) /\ On(n, Inside)' = On(n, Inside)
        /\ On(n, Away)' = On(n, Away) /\ On(n, Here)' = On(n, Here)
    BY <2>2, Zenon
  <2>4. \A s \in Counters : stats'[n][s] = stats[n][s] + 0
    BY <1>1, <1>4, Zenon
  <2> QED
    BY <1>2, <2>3, <2>4, SMTT(30) DEF Move
<1>5. \A s \in Counters : stats'[m][s] = stats[m][s] + IF BumpAt(s, u, d) THEN 1 ELSE 0
  BY <1>1, Zenon
<1>6. ASSUME NEW C \in {Look, Inside, Away, Here}
      PROVE  On(m, C)' = On(m, C)
                  + (IF task'[u].op = "get" /\ task'[u].pc \in C THEN 1 ELSE 0)
                  - (IF task[u].op = "get" /\ task[u].pc \in C THEN 1 ELSE 0)
  <2>1. /\ InGet(u, m, C) <=> task[u].op = "get" /\ task[u].pc \in C
        /\ InGet(u, m, C)' <=> task'[u].op = "get" /\ task'[u].pc \in C
    BY Zenon DEF InGet
  <2> QED
    BY <1>3, <2>1, Zenon
<1> QED
  BY <1>4, <1>5, <1>6, Zenon

\* The loads nobody was asked for stay as many.
LEMMA WorkStays ==
  ASSUME \A v \in Tasks : Busy(v)' <=> Busy(v)
  PROVE  Works(0)
<1> DEFINE A == {t \in Tasks : task[t].op = "get" /\ task[t].pc \in {"load", "local"}}
           B == {t \in Tasks : task'[t].op = "get" /\ task'[t].pc \in {"load", "local"}}
<1>1. Work = Cardinality(A) /\ Work' = Cardinality(B)
  BY Zenon DEF Work
<1>2. A = B
  BY Zenon DEF Busy, Undone
<1>3. Work \in Nat /\ Work' = Work
  BY <1>1, <1>2, CountType, Zenon
<1> QED
  BY <1>3, SMTT(30) DEF Works

\* A goroutine that does not run a Get, before or after, counts for nothing.
LEMMA OtherIdles ==
  ASSUME NEW u, task[u].op # "get", task'[u].op # "get"
  PROVE  Idles(u) /\ (Busy(u)' <=> Busy(u))
<1>1. \A s \in Counters, d \in BOOLEAN : ~ BumpAt(s, u, d)
  BY BumpsNone, Zenon
<1> QED
  BY <1>1, Zenon DEF Idles, InGet, Busy

\* A step that moves no Get leaves the books alone.
LEMMA ElsewhereBooked ==
  ASSUME StatsType, Count, Elsewhere
  PROVE  Ledger
<1>1. \A v \in Tasks : Idles(v) /\ (Busy(v)' <=> Busy(v))
  <2>1. CASE \A v \in Tasks : Beside(v)
    BY <2>1, BesideIdles, Zenon
  <2>2. ASSUME NEW u \in Tasks, Aside(u), task[u].op # "get", task'[u].op # "get"
        PROVE  \A v \in Tasks : Idles(v) /\ (Busy(v)' <=> Busy(v))
    BY <2>2, BesideIdles, OtherIdles, Zenon DEF Aside
  <2> QED
    BY <2>1, <2>2, Zenon DEF Elsewhere
<1>2. left' = left \/ ~ GetsOnly
  BY Zenon DEF Elsewhere
<1> QED
  BY <1>1, <1>2, NobodyMoves, WorkStays, Zenon DEF Ledger

\* A Get begins, of a caller or of a peer.
LEMMA EnterBooked ==
  ASSUME StatsType, Count, NEW u \in Tasks, Enters(u), \A v \in Tasks \ {u} : Idles(v)
  PROVE  \E m \in Nodes : /\ \A n \in Nodes \ {m} : Move(n, {}, 0, 0, 0, 0)
                          /\ Move(m, {"Gets"}, 1, 0, 0, 0)
<1>1. PICK m \in Nodes : m = task'[u].node
  BY Zenon DEF Enters
<1>2. /\ task[u].op = "none" /\ task'[u].op = "get" /\ task'[u].pc = "lookup"
      /\ NodeOf(u) = m
  BY <1>1, Zenon DEF Enters, NodeOf
<1>3. PICK d \in BOOLEAN :
        /\ \A n \in Nodes \ {m} : Move(n, {}, 0, 0, 0, 0)
        /\ \A s \in Counters :
             stats'[m][s] = stats[m][s] + IF BumpAt(s, u, d) THEN 1 ELSE 0
        /\ \A C \in {Look, Inside, Away, Here} :
             On(m, C)' = On(m, C)
               + (IF task'[u].op = "get" /\ task'[u].pc \in C THEN 1 ELSE 0)
               - (IF task[u].op = "get" /\ task[u].pc \in C THEN 1 ELSE 0)
  <2>1. /\ task[u].op = "get" => task[u].node = m
        /\ task'[u].op = "get" => task'[u].node = m
    BY <1>1, <1>2, Zenon
  <2> QED
    BY <1>2, <2>1, OneMoves, Zenon
<1>4. \A s \in Counters : BumpAt(s, u, d) <=> s \in {"Gets"}
  <2>1. PICK p, r, q, r2 : /\ task[u].pc = p /\ task[u].res.st = r
                           /\ task'[u].pc = q /\ task'[u].res.st = r2
    BY Zenon
  <2>2. Bumped("none", p, r, "get", q, r2, d) = {"Gets"}
    BY Zenon DEF Bumped
  <2> QED
    BY <1>2, <2>1, <2>2, BumpsOf
<1>5. \A C : On(m, C) \in Nat
  BY CountType, Zenon
<1>6. /\ On(m, Look)' = On(m, Look) + 1
      /\ On(m, Inside)' = On(m, Inside) + 0
      /\ On(m, Away)' = On(m, Away) + 0
      /\ On(m, Here)' = On(m, Here) + 0
  BY <1>2, <1>3, <1>5, SMTT(30) DEF Look, Inside, Away, Here
<1>7. Move(m, {"Gets"}, 1, 0, 0, 0)
  BY <1>3, <1>4, <1>6, Zenon DEF Move
<1> QED
  BY <1>3, <1>7, Zenon

\* The books of node m when a Get on it moves, in the terms of Bumped.
Moves(m, o, p, r, o2, q, r2, d) ==
  /\ Move(m, Bumped(o, p, r, o2, q, r2, d),
          By(p, q, Look), By(p, q, Inside), By(p, q, Away), By(p, q, Here))
  /\ Works(By(p, q, Undone))

\* A Get of a node moves: the books of this node by the places it leaves and
\* reaches.
LEMMA GetBooked ==
  ASSUME StatsType, Count, NEW u \in Tasks, Aside(u), task[u].op = "get",
         NEW m \in Nodes, task[u].node = m,
         \/ task'[u].op = "get" /\ task'[u].node = m
         \/ task'[u].op = "none" /\ task'[u].pc = "idle"
  PROVE  \E d \in BOOLEAN :
           /\ \A n \in Nodes \ {m} : Move(n, {}, 0, 0, 0, 0)
           /\ Moves(m, "get", task[u].pc, task[u].res.st,
                    task'[u].op, task'[u].pc, task'[u].res.st, d)
<1>0. PICK p, r, o2, q, r2 :
        /\ task[u].pc = p /\ task[u].res.st = r
        /\ task'[u].op = o2 /\ task'[u].pc = q /\ task'[u].res.st = r2
  BY Zenon
<1>1. \A v \in Tasks \ {u} : Idles(v) /\ (Busy(v)' <=> Busy(v))
  BY BesideIdles, Zenon DEF Aside
<1>2. NodeOf(u) = m /\ (o2 = "get" => task'[u].node = m)
  BY <1>0, Zenon DEF NodeOf
<1>3. PICK d \in BOOLEAN :
        /\ \A n \in Nodes \ {m} : Move(n, {}, 0, 0, 0, 0)
        /\ \A s \in Counters :
             stats'[m][s] = stats[m][s] + IF BumpAt(s, u, d) THEN 1 ELSE 0
        /\ \A C \in {Look, Inside, Away, Here} :
             On(m, C)' = On(m, C)
               + (IF task'[u].op = "get" /\ task'[u].pc \in C THEN 1 ELSE 0)
               - (IF task[u].op = "get" /\ task[u].pc \in C THEN 1 ELSE 0)
  BY <1>0, <1>1, <1>2, OneMoves, Zenon
<1>4. \A s \in Counters : BumpAt(s, u, d) <=> s \in Bumped("get", p, r, o2, q, r2, d)
  BY <1>0, BumpsOf, ZenonT(60)
<1>5. \A C \in {Look, Inside, Away, Here, Undone} : o2 # "get" => q \notin C
  BY <1>0, Zenon DEF Look, Inside, Away, Here, Undone
<1>6. ASSUME NEW C \in {Look, Inside, Away, Here}
      PROVE  On(m, C)' = On(m, C) + By(p, q, C)
  <2>1. On(m, C) \in Nat
    BY CountType, Zenon
  <2>2. On(m, C)' = On(m, C) + (IF o2 = "get" /\ q \in C THEN 1 ELSE 0)
                             - (IF p \in C THEN 1 ELSE 0)
    BY <1>0, <1>3, Zenon
  <2>3. o2 = "get" /\ q \in C <=> q \in C
    BY <1>5, Zenon
  <2> QED
    BY <2>1, <2>2, <2>3, Zenon DEF By
<1>7. Works(By(p, q, Undone))
  <2>1. Work' = Work + (IF Busy(u)' THEN 1 ELSE 0) - (IF Busy(u) THEN 1 ELSE 0)
    BY <1>1, WorkMoves, Zenon
  <2>2. (Busy(u)' <=> q \in Undone) /\ (Busy(u) <=> p \in Undone)
    BY <1>0, <1>5, Zenon DEF Busy
  <2>3. Work \in Nat
    BY CountType, Zenon
  <2> QED
    BY <2>1, <2>2, <2>3, Zenon DEF By, Works
<1>8. Move(m, Bumped("get", p, r, o2, q, r2, d),
           By(p, q, Look), By(p, q, Inside), By(p, q, Away), By(p, q, Here))
  BY <1>3, <1>4, <1>6, Zenon DEF Move
<1> QED
  BY <1>0, <1>3, <1>7, <1>8, Zenon DEF Moves

\* The counts of one node are natural numbers.
LEMMA BookType ==
  ASSUME NEW m
  PROVE  /\ On(m, Look) \in Nat /\ On(m, Inside) \in Nat
         /\ On(m, Away) \in Nat /\ On(m, Here) \in Nat /\ Work \in Nat
BY CountType, Zenon

\* A Get ends.
LEMMA EndBooked ==
  ASSUME IndInv, StatsType, Count, Ends
  PROVE  Ledger
<1>1. PICK u \in Tasks :
        /\ Aside(u) /\ Still /\ left' = left
        /\ task[u].op = "get" /\ task'[u].op = "none" /\ task'[u].pc = "idle"
        /\ task[u].pc \in {"lookup", "lookupHot", "do", "delete", "wake"}
  BY Zenon DEF Ends
<1>2. PICK m \in Nodes : task[u].node = m
  BY <1>1, Zenon DEF IndInv, TaskOK, Formed, Form, FormAt
<1>3. PICK p, r, r2 : task[u].pc = p /\ task[u].res.st = r /\ task'[u].res.st = r2
  BY Zenon
<1>4. PICK d \in BOOLEAN :
        /\ \A n \in Nodes \ {m} : Move(n, {}, 0, 0, 0, 0)
        /\ Moves(m, "get", p, r, "none", "idle", r2, d)
  BY <1>1, <1>2, <1>3, GetBooked, Zenon
<1>5. p \in {"lookup", "lookupHot", "do", "delete", "wake"}
  BY <1>1, <1>3, Zenon
<1>6. CASE p \in {"lookup", "lookupHot"}
  <2>1. /\ Bumped("get", p, r, "none", "idle", r2, d) = {"CacheHits"}
        /\ By(p, "idle", Look) = -1 /\ By(p, "idle", Inside) = 0
        /\ By(p, "idle", Away) = 0 /\ By(p, "idle", Here) = 0 /\ By(p, "idle", Undone) = 0
    BY <1>6, SMTT(30) DEF Bumped, By, Look, Inside, Away, Here, Undone
  <2>2. Move(m, {"CacheHits"}, -1, 0, 0, 0) /\ Works(0)
    BY <1>4, <2>1, Zenon DEF Moves
  <2> QED
    BY <1>1, <1>4, <2>2, Zenon DEF Ledger, Booked
<1>7. CASE p = "do"
  <2>1. /\ Bumped("get", p, r, "none", "idle", r2, d) = {}
        /\ By(p, "idle", Look) = 0 /\ By(p, "idle", Inside) = -1
        /\ By(p, "idle", Away) = 0 /\ By(p, "idle", Here) = 0 /\ By(p, "idle", Undone) = 0
    BY <1>7, SMTT(30) DEF Bumped, By, Look, Inside, Away, Here, Undone
  <2>2. Move(m, {}, 0, -1, 0, 0) /\ Works(0)
    BY <1>4, <2>1, Zenon DEF Moves
  <2> QED
    BY <1>1, <1>4, <2>2, Zenon DEF Ledger, Booked
<1>8. CASE p \in {"delete", "wake"}
  <2>1. /\ Bumped("get", p, r, "none", "idle", r2, d) = {}
        /\ By(p, "idle", Look) = 0 /\ By(p, "idle", Inside) = 0
        /\ By(p, "idle", Away) = 0 /\ By(p, "idle", Here) = 0 /\ By(p, "idle", Undone) = 0
    BY <1>8, SMTT(30) DEF Bumped, By, Look, Inside, Away, Here, Undone
  <2>2. Move(m, {}, 0, 0, 0, 0) /\ Works(0)
    BY <1>4, <2>1, Zenon DEF Moves
  <2> QED
    BY <1>1, <1>4, <2>2, Zenon DEF Ledger, Booked
<1> QED
  BY <1>5, <1>6, <1>7, <1>8, Zenon

\* A Get goes on.
LEMMA AdvanceBooked ==
  ASSUME IndInv, GetterInv, StatsType, Count, Continues
  PROVE  Ledger
<1>1. PICK u \in Tasks : Aside(u) /\ Advances(u)
  BY Zenon DEF Continues
<1>2. task[u].op = "get" /\ Keeps(task[u], task'[u]) /\ left' = left
  BY <1>1, Zenon DEF Advances
<1>3. PICK m \in Nodes : task[u].node = m
  BY <1>2, Zenon DEF IndInv, TaskOK, Formed, Form, FormAt
<1>4. task'[u].op = "get" /\ task'[u].node = m
  BY <1>2, <1>3, Zenon DEF Keeps
<1>5. PICK p, r, q, r2 : /\ task[u].pc = p /\ task[u].res.st = r
                         /\ task'[u].pc = q /\ task'[u].res.st = r2
  BY Zenon
<1>6. PICK d \in BOOLEAN :
        /\ \A n \in Nodes \ {m} : Move(n, {}, 0, 0, 0, 0)
        /\ Moves(m, "get", p, r, "get", q, r2, d)
  BY <1>1, <1>2, <1>3, <1>4, <1>5, GetBooked, Zenon
<1>7. /\ Link(p, q) \/ (p = "local" /\ q = "fill") \/ (p = "fill" /\ q = "done")
      /\ q = "reply" /\ p # "rpc" => faults' # 0
      /\ p = "reply" => (q = "local" <=> r = "net")
      /\ p = "local" /\ r2 = "panic" /\ q # "fill" => faults' # 0
  BY <1>1, <1>5, Zenon DEF Advances, Link
<1>8. r = "net" => faults # 0
  BY <1>2, <1>5, Zenon DEF GetterInv, Calm, Tame
<1>9. r # "ok" => ~ Clean
  BY <1>2, <1>5, Zenon DEF Clean
<1> SUFFICES Booked(m)
  BY <1>6, Zenon DEF Ledger
<1>10. CASE \/ p = "lookup" /\ q = "lookupHot"
            \/ p = "do" /\ q = "recheck"
            \/ p = "recheck" /\ q = "recheckHot"
            \/ p = "rpc" /\ q = "reply"
            \/ p = "fill" /\ q = "done"
            \/ p = "done" /\ q = "delete"
  <2>1. /\ Bumped("get", p, r, "get", q, r2, d) = {}
        /\ By(p, q, Look) = 0 /\ By(p, q, Inside) = 0
        /\ By(p, q, Away) = 0 /\ By(p, q, Here) = 0 /\ By(p, q, Undone) = 0
    BY <1>10, SMTT(30) DEF Bumped, By, Look, Inside, Away, Here, Undone
  <2>2. Move(m, {}, 0, 0, 0, 0) /\ Works(0)
    BY <1>6, <1>10, <2>1, Zenon DEF Moves
  <2> QED
    BY <1>2, <2>2, Zenon DEF Booked
<1>11. CASE p = "lookupHot" /\ q = "do"
  <2>1. /\ Bumped("get", p, r, "get", q, r2, d) = {"Loads"}
        /\ By(p, q, Look) = -1 /\ By(p, q, Inside) = 1
        /\ By(p, q, Away) = 0 /\ By(p, q, Here) = 0 /\ By(p, q, Undone) = 0
    BY <1>11, SMTT(30) DEF Bumped, By, Look, Inside, Away, Here, Undone
  <2>2. Move(m, {"Loads"}, -1, 1, 0, 0) /\ Works(0)
    BY <1>6, <1>11, <2>1, Zenon DEF Moves
  <2> QED
    BY <1>2, <2>2, Zenon DEF Booked
<1>12. CASE p = "do" /\ q = "wait"
  <2>1. /\ Bumped("get", p, r, "get", q, r2, d) = {}
        /\ By(p, q, Look) = 0 /\ By(p, q, Inside) = -1
        /\ By(p, q, Away) = 0 /\ By(p, q, Here) = 0 /\ By(p, q, Undone) = 0
    BY <1>12, SMTT(30) DEF Bumped, By, Look, Inside, Away, Here, Undone
  <2>2. Move(m, {}, 0, -1, 0, 0) /\ Works(0)
    BY <1>6, <1>12, <2>1, Zenon DEF Moves
  <2> QED
    BY <1>2, <2>2, Zenon DEF Booked
<1>13. CASE p \in {"recheck", "recheckHot"} /\ q = "done"
  <2>1. /\ Bumped("get", p, r, "get", q, r2, d) = {"CacheHits", "SecondHits"}
        /\ By(p, q, Look) = 0 /\ By(p, q, Inside) = -1
        /\ By(p, q, Away) = 0 /\ By(p, q, Here) = 0 /\ By(p, q, Undone) = 0
    BY <1>13, SMTT(30) DEF Bumped, By, Look, Inside, Away, Here, Undone
  <2>2. Move(m, {"CacheHits", "SecondHits"}, 0, -1, 0, 0) /\ Works(0)
    BY <1>6, <1>13, <2>1, Zenon DEF Moves
  <2> QED
    BY <1>2, <2>2, Zenon DEF Booked
<1>14. CASE p = "recheckHot" /\ q = "load"
  <2>1. /\ Bumped("get", p, r, "get", q, r2, d) = {"LoadsDeduped"}
        /\ By(p, q, Look) = 0 /\ By(p, q, Inside) = -1
        /\ By(p, q, Away) = 1 /\ By(p, q, Here) = 0 /\ By(p, q, Undone) = 1
    BY <1>14, SMTT(30) DEF Bumped, By, Look, Inside, Away, Here, Undone
  <2>2. Move(m, {"LoadsDeduped"}, 0, -1, 1, 0) /\ Works(1)
    BY <1>6, <1>14, <2>1, Zenon DEF Moves
  <2> QED
    BY <1>2, <2>2, Zenon DEF Booked
<1>15. CASE p = "load" /\ q = "local"
  <2>1. /\ Bumped("get", p, r, "get", q, r2, d) = {}
        /\ By(p, q, Look) = 0 /\ By(p, q, Inside) = 0
        /\ By(p, q, Away) = -1 /\ By(p, q, Here) = 1 /\ By(p, q, Undone) = 0
    BY <1>15, SMTT(30) DEF Bumped, By, Look, Inside, Away, Here, Undone
  <2>2. Move(m, {}, 0, 0, -1, 1) /\ Works(0)
    BY <1>6, <1>15, <2>1, Zenon DEF Moves
  <2> QED
    BY <1>2, <2>2, Zenon DEF Booked
<1>16. CASE p = "load" /\ q = "reply"
  <2>1. /\ Bumped("get", p, r, "get", q, r2, d) = {}
        /\ By(p, q, Look) = 0 /\ By(p, q, Inside) = 0
        /\ By(p, q, Away) = 0 /\ By(p, q, Here) = 0 /\ By(p, q, Undone) = -1
    BY <1>16, SMTT(30) DEF Bumped, By, Look, Inside, Away, Here, Undone
  <2>2. Move(m, {}, 0, 0, 0, 0) /\ Works(-1) /\ faults' # 0
    BY <1>6, <1>7, <1>16, <2>1, Zenon DEF Moves
  <2> QED
    BY <1>2, <2>2, Zenon DEF Booked
<1>17. CASE p = "reply" /\ q = "local"
  <2>1. /\ Bumped("get", p, r, "get", q, r2, d) = {"PeerErrors"}
        /\ By(p, q, Look) = 0 /\ By(p, q, Inside) = 0
        /\ By(p, q, Away) = -1 /\ By(p, q, Here) = 1 /\ By(p, q, Undone) = 1
    BY <1>7, <1>17, SMTT(30) DEF Bumped, By, Look, Inside, Away, Here, Undone
  <2>2. Move(m, {"PeerErrors"}, 0, 0, -1, 1) /\ Works(1) /\ faults # 0
    BY <1>6, <1>7, <1>8, <1>17, <2>1, ZenonT(60) DEF Moves
  <2> QED
    BY <1>2, <2>2, Zenon DEF Booked
<1>18. CASE p = "reply" /\ q = "done" /\ r = "ok"
  <2>1. /\ Bumped("get", p, r, "get", q, r2, d) = {"PeerLoads"}
        /\ By(p, q, Look) = 0 /\ By(p, q, Inside) = 0
        /\ By(p, q, Away) = -1 /\ By(p, q, Here) = 0 /\ By(p, q, Undone) = 0
    BY <1>18, SMTT(30) DEF Bumped, By, Look, Inside, Away, Here, Undone
  <2>2. Move(m, {"PeerLoads"}, 0, 0, -1, 0) /\ Works(0)
    BY <1>6, <1>18, <2>1, Zenon DEF Moves
  <2> QED
    BY <1>2, <2>2, Zenon DEF Booked
<1>19. CASE p = "reply" /\ q = "done" /\ (r = "net" \/ (r = "ctx" /\ d))
  <2>1. /\ Bumped("get", p, r, "get", q, r2, d) = {"PeerErrors"}
        /\ By(p, q, Look) = 0 /\ By(p, q, Inside) = 0
        /\ By(p, q, Away) = -1 /\ By(p, q, Here) = 0 /\ By(p, q, Undone) = 0
    BY <1>19, SMTT(30) DEF Bumped, By, Look, Inside, Away, Here, Undone
  <2>2. Move(m, {"PeerErrors"}, 0, 0, -1, 0) /\ Works(0) /\ ~ Clean
    BY <1>6, <1>9, <1>19, <2>1, Zenon DEF Moves
  <2> QED
    BY <1>2, <2>2, Zenon DEF Booked
<1>20. CASE p = "reply" /\ q = "done" /\ r # "ok" /\ ~ (r = "net" \/ (r = "ctx" /\ d))
  <2>1. /\ Bumped("get", p, r, "get", q, r2, d) = {}
        /\ By(p, q, Look) = 0 /\ By(p, q, Inside) = 0
        /\ By(p, q, Away) = -1 /\ By(p, q, Here) = 0 /\ By(p, q, Undone) = 0
    BY <1>20, SMTT(30) DEF Bumped, By, Look, Inside, Away, Here, Undone
  <2>2. Move(m, {}, 0, 0, -1, 0) /\ Works(0) /\ ~ Clean
    BY <1>6, <1>9, <1>20, <2>1, Zenon DEF Moves
  <2> QED
    BY <1>2, <2>2, Zenon DEF Booked
<1>21. CASE p = "local" /\ q = "fill"
  <2>1. /\ Bumped("get", p, r, "get", q, r2, d) = {"LocalLoads"}
        /\ By(p, q, Look) = 0 /\ By(p, q, Inside) = 0
        /\ By(p, q, Away) = 0 /\ By(p, q, Here) = -1 /\ By(p, q, Undone) = -1
    BY <1>21, SMTT(30) DEF Bumped, By, Look, Inside, Away, Here, Undone
  <2>2. Move(m, {"LocalLoads"}, 0, 0, 0, -1) /\ Works(-1)
    BY <1>6, <1>21, <2>1, Zenon DEF Moves
  <2> QED
    BY <1>2, <2>2, Zenon DEF Booked
<1>22. CASE p = "local" /\ q = "done" /\ r2 # "panic"
  <2>1. /\ Bumped("get", p, r, "get", q, r2, d) = {"LocalLoadErrs"}
        /\ By(p, q, Look) = 0 /\ By(p, q, Inside) = 0
        /\ By(p, q, Away) = 0 /\ By(p, q, Here) = -1 /\ By(p, q, Undone) = -1
    BY <1>22, SMTT(30) DEF Bumped, By, Look, Inside, Away, Here, Undone
  <2>2. Move(m, {"LocalLoadErrs"}, 0, 0, 0, -1) /\ Works(-1)
    BY <1>6, <1>22, <2>1, Zenon DEF Moves
  <2> QED
    BY <1>2, <2>2, Zenon DEF Booked
<1>23. CASE p = "local" /\ q = "done" /\ r2 = "panic"
  <2>1. /\ Bumped("get", p, r, "get", q, r2, d) = {}
        /\ By(p, q, Look) = 0 /\ By(p, q, Inside) = 0
        /\ By(p, q, Away) = 0 /\ By(p, q, Here) = -1 /\ By(p, q, Undone) = -1
    BY <1>23, SMTT(30) DEF Bumped, By, Look, Inside, Away, Here, Undone
  <2>2. Move(m, {}, 0, 0, 0, -1) /\ Works(-1) /\ faults' # 0
    BY <1>6, <1>7, <1>23, <2>1, Zenon DEF Moves
  <2> QED
    BY <1>2, <2>2, Zenon DEF Booked
<1> QED
  BY <1>7, <1>10, <1>11, <1>12, <1>13, <1>14, <1>15, <1>16, <1>17,
     <1>18, <1>19, <1>20, <1>21, <1>22, <1>23, ZenonT(60) DEF Link

\* Every step keeps books like this.
LEMMA ShapeBooked ==
  ASSUME IndInv, GetterInv, StatsType, Count, Shape
  PROVE  Ledger
<1>1. CASE Calls
  <2>1. PICK u \in Procs :
          Aside(u) /\ Enters(u) /\ left[u] > 0 /\ left' = [left EXCEPT ![u] = @ - 1]
    BY <1>1, Zenon DEF Calls
  <2>2. u \in Tasks
    BY Zenon DEF Tasks
  <2>3. \A v \in Tasks \ {u} : Idles(v) /\ (Busy(v)' <=> Busy(v))
    BY <2>1, BesideIdles, Zenon DEF Aside
  <2>4. Busy(u)' <=> Busy(u)
    BY <2>1, Zenon DEF Enters, Busy, Undone
  <2>5. Works(0)
    BY <2>3, <2>4, WorkStays, Zenon
  <2>6. Called
    BY <2>1, Zenon DEF Called
  <2> QED
    BY <2>1, <2>2, <2>3, <2>5, <2>6, EnterBooked, ZenonT(60) DEF Ledger, Booked
<1>2. CASE Forwards
  <2>1. PICK u, t \in Tasks :
          /\ u # t /\ Enters(u) /\ left' = left
          /\ task[t].op = "get" /\ Keeps(task[t], task'[t])
          /\ task[t].pc = "load" /\ task'[t].pc = "rpc"
          /\ \A v \in Tasks \ {u, t} : Beside(v)
    BY <1>2, Zenon DEF Forwards
  <2>2. Idles(t)
    <3>1. \A s \in Counters, d \in BOOLEAN : ~ BumpAt(s, t, d)
      BY <2>1, BumpsNone, Zenon DEF Keeps
    <3> QED
      BY <2>1, <3>1, Zenon DEF Idles, Keeps, InGet, Look, Inside, Away, Here
  <2>3. \A v \in Tasks \ {u} : Idles(v)
    BY <2>1, <2>2, BesideIdles, Zenon
  <2>4. \A v \in Tasks \ {t} : Busy(v)' <=> Busy(v)
    <3>1. Busy(u)' <=> Busy(u)
      BY <2>1, Zenon DEF Enters, Busy, Undone
    <3> QED
      BY <2>1, <3>1, BesideIdles, Zenon
  <2>5. Busy(t) /\ ~ Busy(t)'
    BY <2>1, Zenon DEF Busy, Undone
  <2>6. Works(-1)
    <3>1. Work \in Nat /\ Work' = Work + (IF Busy(t)' THEN 1 ELSE 0) - (IF Busy(t) THEN 1 ELSE 0)
      BY <2>1, <2>4, WorkMoves, Zenon
    <3> QED
      BY <2>5, <3>1, SMTT(30) DEF Works
  <2> QED
    BY <2>1, <2>3, <2>6, EnterBooked, Zenon DEF Ledger, Booked
<1> QED
  BY <1>1, <1>2, ElsewhereBooked, EndBooked, AdvanceBooked, ZenonT(60) DEF Shape

-------------------------------------------------------------------------------
(* The books of a node balance *)

\* The counters of a node against the Gets on their way on it.
Balance(gets, hits, second, refused, loads, deduped, peer, errors, local, bad,
        look, inside, away, here) ==
  /\ gets + second = refused + hits + loads + look
  /\ hits + deduped + look + inside <= gets
  /\ loads + look <= gets
  /\ deduped + second + inside <= loads
  /\ peer + local + bad + away + here <= deduped
  /\ peer + errors + away <= deduped

Balanced(n) ==
  Balance(stats[n]["Gets"], stats[n]["CacheHits"], stats[n]["SecondHits"],
          stats[n]["Refused"], stats[n]["Loads"],
          stats[n]["LoadsDeduped"], stats[n]["PeerLoads"], stats[n]["PeerErrors"],
          stats[n]["LocalLoads"], stats[n]["LocalLoadErrs"],
          On(n, Look), On(n, Inside), On(n, Away), On(n, Here))

\* Every load that began has ended in one way or is on its way.
Settled(n) ==
  stats[n]["PeerLoads"] + stats[n]["LocalLoads"] + stats[n]["LocalLoadErrs"]
    + On(n, Away) + On(n, Here) = stats[n]["LoadsDeduped"]

\* No request has failed and no Getter has returned an error.
Spotless == faults = 0 /\ \A n \in Nodes : stats[n]["LocalLoadErrs"] = 0

StatsInv ==
  /\ StatsType
  /\ \A n \in Nodes : Balanced(n)
  /\ Spotless => Clean /\ \A n \in Nodes : Settled(n)

\* Whatever a step books on a node, its books balance again, and a load is
\* lost to them only with a failure.
LEMMA NodeBalances ==
  ASSUME StatsType, StatsType', NEW n \in Nodes, Balanced(n),
         Booked(n) \/ Move(n, {}, 0, 0, 0, 0)
  PROVE  /\ Balanced(n)'
         /\ stats'[n]["LocalLoadErrs"] >= stats[n]["LocalLoadErrs"]
         /\ Settled(n) /\ Clean /\ faults' = 0 => Settled(n)'
<1> DEFINE g == stats[n]["Gets"]
           g2 == stats'[n]["Gets"]
           h == stats[n]["CacheHits"]
           h2 == stats'[n]["CacheHits"]
           z == stats[n]["SecondHits"]
           z2 == stats'[n]["SecondHits"]
           q == stats[n]["Refused"]
           q2 == stats'[n]["Refused"]
           l == stats[n]["Loads"]
           l2 == stats'[n]["Loads"]
           e == stats[n]["LoadsDeduped"]
           e2 == stats'[n]["LoadsDeduped"]
           p == stats[n]["PeerLoads"]
           p2 == stats'[n]["PeerLoads"]
           x == stats[n]["PeerErrors"]
           x2 == stats'[n]["PeerErrors"]
           c == stats[n]["LocalLoads"]
           c2 == stats'[n]["LocalLoads"]
           b == stats[n]["LocalLoadErrs"]
           b2 == stats'[n]["LocalLoadErrs"]
           i == On(n, Look)
           i2 == On(n, Look)'
           j == On(n, Inside)
           j2 == On(n, Inside)'
           a == On(n, Away)
           a2 == On(n, Away)'
           y == On(n, Here)
           y2 == On(n, Here)'
           Goal == /\ Balance(g2, h2, z2, q2, l2, e2, p2, x2, c2, b2, i2, j2, a2, y2)
                   /\ b2 >= b
                   /\ p + c + b + a + y = e /\ Clean /\ faults' = 0 => p2 + c2 + b2 + a2 + y2 = e2
           Each(C, look, inside, away, here) ==
             /\ g2 = g + IF "Gets" \in C THEN 1 ELSE 0
             /\ h2 = h + IF "CacheHits" \in C THEN 1 ELSE 0
             /\ z2 = z + IF "SecondHits" \in C THEN 1 ELSE 0
             /\ q2 = q + IF "Refused" \in C THEN 1 ELSE 0
             /\ l2 = l + IF "Loads" \in C THEN 1 ELSE 0
             /\ e2 = e + IF "LoadsDeduped" \in C THEN 1 ELSE 0
             /\ p2 = p + IF "PeerLoads" \in C THEN 1 ELSE 0
             /\ x2 = x + IF "PeerErrors" \in C THEN 1 ELSE 0
             /\ c2 = c + IF "LocalLoads" \in C THEN 1 ELSE 0
             /\ b2 = b + IF "LocalLoadErrs" \in C THEN 1 ELSE 0
             /\ i2 = i + look /\ j2 = j + inside /\ a2 = a + away /\ y2 = y + here
<1>1. /\ g \in Nat /\ h \in Nat /\ z \in Nat /\ q \in Nat /\ l \in Nat /\ e \in Nat
      /\ p \in Nat /\ x \in Nat /\ c \in Nat /\ b \in Nat
      /\ i \in Nat /\ j \in Nat /\ a \in Nat /\ y \in Nat
  BY BookType, Zenon DEF StatsType, Counters
<1>2. ASSUME NEW C, NEW look, NEW inside, NEW away, NEW here,
             Move(n, C, look, inside, away, here)
      PROVE  Each(C, look, inside, away, here)
  BY <1>2, Zenon DEF Move, Counters
<1>3. Balance(g, h, z, q, l, e, p, x, c, b, i, j, a, y)
  BY Zenon DEF Balanced
<1>4. Goal => /\ Balanced(n)'
              /\ stats'[n]["LocalLoadErrs"] >= stats[n]["LocalLoadErrs"]
              /\ Settled(n) /\ Clean /\ faults' = 0 => Settled(n)'
  BY Zenon DEF Balanced, Settled
<1> HIDE DEF g, h, z, q, l, e, p, x, c, b,
             g2, h2, z2, q2, l2, e2, p2, x2, c2, b2,
             i, j, a, y, i2, j2, a2, y2
<1> SUFFICES Goal
  BY <1>4, Zenon
<1>5. CASE Move(n, {}, 0, 0, 0, 0)
  <2>1. Each({}, 0, 0, 0, 0)
    BY <1>2, <1>5, SMTT(30)
  <2> QED
    BY <1>1, <1>3, <1>5, <2>1, SMTT(30) DEF Balance
<1>6. CASE Move(n, {"Gets"}, 1, 0, 0, 0)
  <2>1. Each({"Gets"}, 1, 0, 0, 0)
    BY <1>2, <1>6, SMTT(30)
  <2> QED
    BY <1>1, <1>3, <1>6, <2>1, SMTT(30) DEF Balance
<1>7. CASE Move(n, {"CacheHits"}, -1, 0, 0, 0)
  <2>1. Each({"CacheHits"}, -1, 0, 0, 0)
    BY <1>2, <1>7, SMTT(30)
  <2> QED
    BY <1>1, <1>3, <1>7, <2>1, SMTT(30) DEF Balance
<1>8. CASE Move(n, {"Loads"}, -1, 1, 0, 0)
  <2>1. Each({"Loads"}, -1, 1, 0, 0)
    BY <1>2, <1>8, SMTT(30)
  <2> QED
    BY <1>1, <1>3, <1>8, <2>1, SMTT(30) DEF Balance
<1>9. CASE Move(n, {}, 0, -1, 0, 0)
  <2>1. Each({}, 0, -1, 0, 0)
    BY <1>2, <1>9, SMTT(30)
  <2> QED
    BY <1>1, <1>3, <1>9, <2>1, SMTT(30) DEF Balance
<1>10. CASE Move(n, {"CacheHits", "SecondHits"}, 0, -1, 0, 0)
  <2>1. Each({"CacheHits", "SecondHits"}, 0, -1, 0, 0)
    BY <1>2, <1>10, SMTT(30)
  <2> QED
    BY <1>1, <1>3, <1>10, <2>1, SMTT(30) DEF Balance
<1>11. CASE Move(n, {}, 0, 0, -1, 1)
  <2>1. Each({}, 0, 0, -1, 1)
    BY <1>2, <1>11, SMTT(30)
  <2> QED
    BY <1>1, <1>3, <1>11, <2>1, SMTT(30) DEF Balance
<1>12. CASE Move(n, {"PeerLoads"}, 0, 0, -1, 0)
  <2>1. Each({"PeerLoads"}, 0, 0, -1, 0)
    BY <1>2, <1>12, SMTT(30)
  <2> QED
    BY <1>1, <1>3, <1>12, <2>1, SMTT(30) DEF Balance
<1>13. CASE Move(n, {"PeerErrors"}, 0, 0, -1, 0) /\ ~ Clean
  <2>1. Each({"PeerErrors"}, 0, 0, -1, 0)
    BY <1>2, <1>13, SMTT(30)
  <2> QED
    BY <1>1, <1>3, <1>13, <2>1, SMTT(30) DEF Balance
<1>14. CASE Move(n, {}, 0, 0, -1, 0) /\ ~ Clean
  <2>1. Each({}, 0, 0, -1, 0)
    BY <1>2, <1>14, SMTT(30)
  <2> QED
    BY <1>1, <1>3, <1>14, <2>1, SMTT(30) DEF Balance
<1>15. CASE Move(n, {"LoadsDeduped"}, 0, -1, 1, 0)
  <2>1. Each({"LoadsDeduped"}, 0, -1, 1, 0)
    BY <1>2, <1>15, SMTT(30)
  <2> QED
    BY <1>1, <1>3, <1>15, <2>1, SMTT(30) DEF Balance
<1>16. CASE Move(n, {"PeerErrors"}, 0, 0, -1, 1)
  <2>1. Each({"PeerErrors"}, 0, 0, -1, 1)
    BY <1>2, <1>16, SMTT(30)
  <2> QED
    BY <1>1, <1>3, <1>16, <2>1, SMTT(30) DEF Balance
<1>17. CASE Move(n, {"LocalLoads"}, 0, 0, 0, -1)
  <2>1. Each({"LocalLoads"}, 0, 0, 0, -1)
    BY <1>2, <1>17, SMTT(30)
  <2> QED
    BY <1>1, <1>3, <1>17, <2>1, SMTT(30) DEF Balance
<1>18. CASE Move(n, {"LocalLoadErrs"}, 0, 0, 0, -1)
  <2>1. Each({"LocalLoadErrs"}, 0, 0, 0, -1)
    BY <1>2, <1>18, SMTT(30)
  <2> QED
    BY <1>1, <1>3, <1>18, <2>1, SMTT(30) DEF Balance
<1>19. CASE Move(n, {}, 0, 0, 0, -1) /\ faults' # 0
  <2>1. Each({}, 0, 0, 0, -1)
    BY <1>2, <1>19, SMTT(30)
  <2> QED
    BY <1>1, <1>3, <1>19, <2>1, SMTT(30) DEF Balance
<1>20. CASE Move(n, {"Gets", "Refused"}, 0, 0, 0, 0)
  <2>1. Each({"Gets", "Refused"}, 0, 0, 0, 0)
    BY <1>2, <1>20, SMTT(30)
  <2> QED
    BY <1>1, <1>3, <1>20, <2>1, SMTT(30) DEF Balance
<1> HIDE DEF Goal, Each
<1> QED
  BY <1>20, <1>5, <1>6, <1>7, <1>8, <1>9, <1>10, <1>11, <1>12,
     <1>13, <1>14, <1>15, <1>16, <1>17, <1>18, <1>19, ZenonT(60) DEF Booked

\* A Getter that fails is counted, or panicked.
LEMMA BadLoadCounted ==
  ASSUME IndInv, StatsType, Count, Shape,
         NEW u \in Tasks, task[u].op = "get", task[u].pc = "local", task'[u].pc = "done"
  PROVE  faults' # 0 \/ \E n \in Nodes : stats'[n]["LocalLoadErrs"] # 0
<1>1. ~ Beside(u)
  BY Zenon DEF Beside
<1>2. Aside(u) /\ Advances(u)
  <2>1. ~ Elsewhere
    BY <1>1, Zenon DEF Elsewhere, Aside
  <2>2. ~ Calls /\ ~ Forwards /\ ~ Ends
    BY <1>1, Zenon DEF Calls, Forwards, Ends, Enters, Aside, Tasks
  <2> QED
    BY <1>1, <2>1, <2>2, Zenon DEF Shape, Continues, Aside
<1>3. Keeps(task[u], task'[u]) /\ (task'[u].res.st = "panic" => faults' # 0)
  BY <1>2, Zenon DEF Advances
<1>4. PICK m \in Nodes : task[u].node = m
  BY Zenon DEF IndInv, TaskOK, Formed, Form, FormAt
<1>5. task'[u].op = "get" /\ task'[u].node = m
  BY <1>3, <1>4, Zenon DEF Keeps
<1>6. PICK r, r2 : task[u].res.st = r /\ task'[u].res.st = r2
  BY Zenon
<1>7. PICK d \in BOOLEAN : Moves(m, "get", "local", r, "get", "done", r2, d)
  BY <1>2, <1>4, <1>5, <1>6, GetBooked, Zenon
<1>8. stats[m]["LocalLoadErrs"] \in Nat
  BY Zenon DEF StatsType, Counters
<1>9. r2 # "panic" => Bumped("get", "local", r, "get", "done", r2, d) = {"LocalLoadErrs"}
  BY Zenon DEF Bumped
<1>10. r2 # "panic" => stats'[m]["LocalLoadErrs"] = stats[m]["LocalLoadErrs"] + 1
  BY <1>7, <1>9, Zenon DEF Moves, Move, Counters
<1> QED
  BY <1>3, <1>6, <1>8, <1>10, SMTT(30)

\* A counted step is a step of GroupCache.
LEMMA StatsStep ==
  [StatsNext]_<<vars, stats>> =>
    /\ [Next]_vars
    /\ \/ Proceed /\ Count
       \/ vars' = vars /\ stats' = stats
       \/ \E p \in Procs, n \in Nodes : GetNilDest(p, n) /\ CountNilDest(n)
BY Zenon DEF StatsNext, Next

\* Without a step the Gets stay where they are.
LEMMA StatsStutter ==
  ASSUME vars' = vars, stats' = stats, StatsInv PROVE StatsInv'
<1>1. task' = task /\ flight' = flight /\ faults' = faults
  BY Zenon DEF vars
<1>2. Clean' <=> Clean
  BY <1>1, Zenon DEF Clean
<1>3. \A n, C : On(n, C)' = On(n, C)
  BY <1>1, Zenon DEF On
<1>4. \A n : (Balanced(n)' <=> Balanced(n)) /\ (Settled(n)' <=> Settled(n))
  BY <1>3, Zenon DEF Balanced, Settled
<1>5. Spotless' <=> Spotless
  BY <1>1, Zenon DEF Spotless
<1> QED
  BY <1>2, <1>4, <1>5, Zenon DEF StatsInv, StatsType

\* The counters stay numbers.
LEMMA StatsTyped == StatsType /\ Count => StatsType'
<1> SUFFICES ASSUME StatsType, Count PROVE StatsType'
  BY Zenon
<1>1. PICK B :
        stats' = [n \in Nodes |-> [s \in Counters |->
                    stats[n][s] + IF <<n, s>> \in B THEN 1 ELSE 0]]
  BY Zenon DEF Count
<1> QED
  BY <1>1, SMTT(30) DEF StatsType

\* A refused Get is counted, and moves nothing.
LEMMA RefusedBooked ==
  ASSUME StatsType, NEW p \in Procs, NEW m \in Nodes, GetNilDest(p, m), CountNilDest(m)
  PROVE  StatsType' /\ Ledger
<1>1. ASSUME NEW n \in Nodes, NEW s \in Counters
      PROVE  /\ stats[n][s] \in Nat
             /\ stats'[n][s] = stats[n][s]
                  + IF n = m /\ s \in {"Gets", "Refused"} THEN 1 ELSE 0
  BY SMTT(30) DEF StatsType, CountNilDest, Counters
<1>2. StatsType'
  BY SMTT(30) DEF StatsType, CountNilDest, Counters
<1>3. task' = task /\ Called
  BY NilDestFrame, Zenon DEF Called
<1>4. Works(0)
  <2>1. Work \in Nat /\ Work' = Work
    BY <1>3, CountType, Zenon DEF Work
  <2> QED
    BY <2>1, SMTT(30) DEF Works
<1>5. ASSUME NEW n, NEW C PROVE On(n, C)' = On(n, C) + 0
  <2>1. On(n, C) \in Nat /\ On(n, C)' = On(n, C)
    BY <1>3, CountType, Zenon DEF On
  <2> QED
    BY <2>1, SMTT(30)
<1>6. ASSUME NEW n \in Nodes \ {m} PROVE Move(n, {}, 0, 0, 0, 0)
  BY <1>1, <1>5, Zenon DEF Move
<1>7. Move(m, {"Gets", "Refused"}, 0, 0, 0, 0)
  BY <1>1, <1>5, Zenon DEF Move
<1> QED
  BY <1>2, <1>3, <1>4, <1>6, <1>7, ZenonT(60) DEF Ledger, Booked

\* What every counted step does.
Books ==
  /\ StatsType' /\ Ledger
  /\ faults' = 0 => faults = 0
  /\ Clean /\ Spotless' => Clean'

\* It does so.
LEMMA StatsBooked ==
  ASSUME IndInv, GetterInv, StatsType, [StatsNext]_<<vars, stats>>
  PROVE  Books \/ (vars' = vars /\ stats' = stats)
<1>1. faults' = 0 => faults = 0
  BY StatsStep, NextAges, Zenon DEF Ages
<1>2. CASE Proceed /\ Count
  <2>1. Shape
    BY <1>2, NextShape, Zenon
  <2>2. StatsType' /\ Ledger
    BY <1>2, <2>1, StatsTyped, ShapeBooked, Zenon
  <2>3. ASSUME Clean, Spotless' PROVE Clean'
    <3>1. faults' = 0 /\ \A n \in Nodes : stats'[n]["LocalLoadErrs"] = 0
      BY <2>3, Zenon DEF Spotless
    <3>2. Clean' \/ \E u \in Tasks : task[u].op = "get" /\ task[u].pc = "local" /\ task'[u].pc = "done"
      BY <2>1, <2>3, <3>1, Zenon DEF Shape, Fresh
    <3> QED
      BY <1>2, <2>1, <3>1, <3>2, BadLoadCounted, Zenon
  <2> QED
    BY <1>1, <2>2, <2>3, Zenon DEF Books
<1>3. ASSUME NEW p \in Procs, NEW n \in Nodes, GetNilDest(p, n), CountNilDest(n)
      PROVE  Books
  <2>1. task' = task /\ flight' = flight
    BY <1>3, NilDestFrame, Zenon
  <2>2. Clean => Clean'
    BY <2>1, Zenon DEF Clean
  <2> QED
    BY <1>1, <1>3, <2>2, RefusedBooked, Zenon DEF Books
<1> QED
  BY <1>2, <1>3, StatsStep, Zenon

\* The invariant is inductive.
LEMMA NextStats ==
  IndInv /\ GetterInv /\ StatsInv /\ [StatsNext]_<<vars, stats>> => StatsInv'
<1> SUFFICES ASSUME IndInv, GetterInv, StatsInv, Books
             PROVE  StatsInv'
  BY StatsBooked, StatsStutter, Zenon DEF StatsInv
<1>1. faults' = 0 => faults = 0
  BY Zenon DEF Books
<1>2. Ledger
  BY Zenon DEF Books
<1>3. \A n \in Nodes : Booked(n) \/ Move(n, {}, 0, 0, 0, 0)
  <2>1. CASE \A n \in Nodes : Move(n, {}, 0, 0, 0, 0)
    BY <2>1, Zenon
  <2>2. ASSUME NEW m \in Nodes, Booked(m),
               \A n \in Nodes \ {m} : Move(n, {}, 0, 0, 0, 0), NEW n \in Nodes
        PROVE  Booked(n) \/ Move(n, {}, 0, 0, 0, 0)
    <3>1. CASE n = m
      BY <2>2, <3>1, Zenon
    <3>2. CASE n # m
      BY <2>2, <3>2, Zenon
    <3> QED
      BY <3>1, <3>2, Zenon
  <2>3. \/ \A n \in Nodes : Move(n, {}, 0, 0, 0, 0)
        \/ \E m \in Nodes : Booked(m) /\ \A n \in Nodes \ {m} : Move(n, {}, 0, 0, 0, 0)
    BY <1>2, Zenon DEF Ledger
  <2> QED
    BY <2>1, <2>2, <2>3, Zenon
<1>4. StatsType'
  BY Zenon DEF Books
<1>5. \A n \in Nodes : /\ Balanced(n)'
                       /\ stats'[n]["LocalLoadErrs"] >= stats[n]["LocalLoadErrs"]
                       /\ Settled(n) /\ Clean /\ faults' = 0 => Settled(n)'
  BY <1>3, <1>4, NodeBalances, Zenon DEF StatsInv
<1>6. ASSUME Spotless' PROVE Clean' /\ \A n \in Nodes : Settled(n)'
  <2>1. faults' = 0 /\ \A n \in Nodes : stats'[n]["LocalLoadErrs"] = 0
    BY <1>6, Zenon DEF Spotless
  <2>2. Spotless
    <3>1. \A n \in Nodes : stats[n]["LocalLoadErrs"] \in Nat
      BY Zenon DEF StatsInv, StatsType, Counters
    <3>2. \A n \in Nodes : stats[n]["LocalLoadErrs"] = 0
      BY <1>5, <2>1, <3>1, SMTT(30)
    <3> QED
      BY <1>1, <2>1, <3>2, Zenon DEF Spotless
  <2>3. Clean /\ \A n \in Nodes : Settled(n)
    BY <2>2, Zenon DEF StatsInv
  <2>4. Clean'
    BY <1>6, <2>3, Zenon DEF Books
  <2> QED
    BY <1>5, <2>1, <2>3, <2>4, Zenon
<1> QED
  BY <1>5, <1>4, <1>6, Zenon DEF StatsInv

\* Nothing is counted yet, and nothing is on its way.
LEMMA NothingOn ==
  ASSUME Init PROVE Work = 0 /\ \A n, C : On(n, C) = 0
<1>1. \A t \in Tasks : task[t].op # "get"
  BY Zenon DEF Init, NoTask
<1>2. Cardinality({}) = 0
  BY FS_EmptySet, Zenon
<1>3. {t \in Tasks : task[t].op = "get" /\ task[t].pc \in {"load", "local"}} = {}
  BY <1>1, Zenon
<1>4. \A n, C : {t \in Tasks : /\ task[t].op = "get" /\ task[t].node = n
                               /\ task[t].pc \in C} = {}
  BY <1>1, Zenon
<1> QED
  BY <1>2, <1>3, <1>4, Zenon DEF On, Work

\* The invariant holds at first.
LEMMA InitStats == StatsInit => StatsInv
<1> SUFFICES ASSUME StatsInit PROVE StatsInv
  BY Zenon
<1>1. Init /\ \A n \in Nodes, s \in Counters : stats[n][s] = 0
  BY Zenon DEF StatsInit
<1>2. \A n, C : On(n, C) = 0
  BY <1>1, NothingOn, Zenon
<1>3. StatsType
  BY Zenon DEF StatsInit, StatsType
<1>4. \A n \in Nodes : Balanced(n) /\ Settled(n)
  BY <1>1, <1>2, SMTT(30) DEF Balanced, Balance, Settled, Counters
<1>5. Clean
  <2>1. NoTask.op = "none" /\ NoFlight.state = "none"
    BY Zenon DEF NoTask, NoFlight
  <2>2. \A t \in Tasks : task[t] = NoTask
    BY <1>1, Zenon DEF Init
  <2>3. \A n \in Nodes, k \in Keys : flight["get"][n][k] = NoFlight
    BY <1>1, Zenon DEF Init
  <2> QED
    BY <2>1, <2>2, <2>3, Zenon DEF Clean
<1> QED
  BY <1>3, <1>4, <1>5, Zenon DEF StatsInv

\* GroupStats runs GroupCache.
LEMMA StatsInvariance == StatsSpec => [](IndInv /\ GetterInv /\ StatsInv)
<1>1. StatsInit => IndInv /\ GetterInv /\ StatsInv
  BY InitInv, InitGets, InitStats, Zenon DEF StatsInit
<1>2. IndInv /\ GetterInv /\ StatsInv /\ [StatsNext]_<<vars, stats>>
        => (IndInv /\ GetterInv /\ StatsInv)'
  BY StatsStep, NextInv, NextGets, NextStats, ZenonT(60)
<1> QED
  BY <1>1, <1>2, PTL DEF StatsSpec

\* What "Loads // (gets - cacheHits)" comes to, on every node and between any
\* two bumps, for any number of goroutines, evictions and failures: the hits of
\* the second lookup and the Gets without a destination are the difference.
THEOREM AlwaysHitsAndLoads == StatsSpec => []HitsAndLoads
<1>1. StatsInv => HitsAndLoads
  <2> SUFFICES ASSUME StatsInv, NEW n \in Nodes
               PROVE  LET s == stats[n] IN
                      /\ s.Gets + s.SecondHits
                           = s.Refused + s.CacheHits + s.Loads + On(n, Look)
                      /\ s.LoadsDeduped + s.SecondHits <= s.Loads
                      /\ s.CacheHits + s.LoadsDeduped <= s.Gets /\ s.Loads <= s.Gets
    BY Zenon DEF HitsAndLoads, Look
  <2>1. \A s \in Counters : stats[n][s] \in Nat
    BY Zenon DEF StatsInv, StatsType
  <2>2. Balanced(n)
    BY Zenon DEF StatsInv
  <2>3. /\ stats[n].Gets \in Nat /\ stats[n].CacheHits \in Nat
        /\ stats[n].SecondHits \in Nat /\ stats[n].Refused \in Nat
        /\ stats[n].Loads \in Nat /\ stats[n].LoadsDeduped \in Nat
    BY <2>1, Zenon DEF Counters
  <2>4. On(n, Look) \in Nat /\ On(n, Inside) \in Nat
    BY BookType, Zenon
  <2>5. /\ stats[n]["Gets"] + stats[n]["SecondHits"]
             = stats[n]["Refused"] + stats[n]["CacheHits"] + stats[n]["Loads"] + On(n, Look)
        /\ stats[n]["CacheHits"] + stats[n]["LoadsDeduped"] + On(n, Look) + On(n, Inside)
             <= stats[n]["Gets"]
        /\ stats[n]["Loads"] + On(n, Look) <= stats[n]["Gets"]
        /\ stats[n]["LoadsDeduped"] + stats[n]["SecondHits"] + On(n, Inside)
             <= stats[n]["Loads"]
    BY <2>2, Zenon DEF Balanced, Balance
  <2> QED
    BY <2>3, <2>4, <2>5, SMTT(30)
<1> QED
  BY <1>1, StatsInvariance, PTL

-------------------------------------------------------------------------------
(* Sums over the nodes *)

\* Total, as a tally over the nodes.
LEMMA TotalType ==
  ASSUME StatsType, NEW s \in Counters
  PROVE  /\ [n \in Nodes |-> stats[n][s]] \in [Nodes -> Nat]
         /\ Total(s) \in Nat
         /\ Total(s) = 0 <=> \A n \in Nodes : stats[n][s] = 0
<1> DEFINE w == [n \in Nodes |-> stats[n][s]]
<1>1. w \in [Nodes -> Nat] /\ \A n \in Nodes : w[n] = stats[n][s]
  BY Zenon DEF StatsType
<1>2. Total(s) = Tally(w)
  BY Zenon DEF Total
<1> HIDE DEF w
<1>3. Total(s) \in Nat /\ (Total(s) = 0 <=> \A n \in Nodes : w[n] = 0)
  BY <1>1, <1>2, TallyType, FiniteAssumption, Zenon
<1> QED
  BY <1>1, <1>3, Zenon DEF w

\* The loads with a peer and those at the Getter, together.
LEMMA RunningSplits ==
  ASSUME NEW n
  PROVE  On(n, {"load", "rpc", "reply", "local"}) = On(n, Away) + On(n, Here)
<1> DEFINE In(C) == {t \in Tasks : /\ task[t].op = "get" /\ task[t].node = n
                                   /\ task[t].pc \in C}
           A == In(Away)
           B == In(Here)
           R == In({"load", "rpc", "reply", "local"})
<1>1. R = A \cup B /\ A \cap B = {} /\ A \subseteq Tasks /\ B \subseteq Tasks
  <2>1. \A p : p \in {"load", "rpc", "reply", "local"} <=> p \in Away \/ p \in Here
    BY Zenon DEF Away, Here
  <2>2. \A p : ~ (p \in Away /\ p \in Here)
    BY Zenon DEF Away, Here
  <2> QED
    BY <2>1, <2>2, Zenon
<1>2. On(n, {"load", "rpc", "reply", "local"}) = Cardinality(R)
      /\ On(n, Away) = Cardinality(A) /\ On(n, Here) = Cardinality(B)
  BY Zenon DEF On
<1> HIDE DEF A, B, R
<1>3. IsFiniteSet(A) /\ IsFiniteSet(B)
  BY <1>1, TasksFinite, FS_Subset, Zenon
<1>4. Cardinality(A \cup B) = Cardinality(A) + Cardinality(B) - Cardinality(A \cap B)
  BY <1>3, FS_Union, Zenon
<1>5. Cardinality(R) = Cardinality(A) + Cardinality(B) - 0
  BY <1>1, <1>4, FS_EmptySet, Zenon
<1>6. Cardinality(A) \in Nat /\ Cardinality(B) \in Nat
  BY <1>3, FS_CardinalityType, ZenonT(60)
<1> QED
  BY <1>2, <1>5, <1>6, SMTT(30)

\* No load is settled twice, though an error of a peer is followed by a local
\* load, and none is lost while nothing fails: for any number of goroutines.
THEOREM AlwaysLoadsSettled == StatsSpec => []LoadsSettled
<1>1. StatsInv => LoadsSettled
  <2> SUFFICES ASSUME StatsInv, NEW n \in Nodes
               PROVE  LET ended == stats[n].PeerLoads + stats[n].LocalLoads + stats[n].LocalLoadErrs
                          running == On(n, {"load", "rpc", "reply", "local"})
                      IN  /\ ended + running <= stats[n].LoadsDeduped
                          /\ stats[n].PeerLoads + stats[n].PeerErrors <= stats[n].LoadsDeduped
                          /\ faults = 0 /\ Total("LocalLoadErrs") = 0
                               => ended + running = stats[n].LoadsDeduped
    BY Zenon DEF LoadsSettled
  <2>1. \A s \in Counters : stats[n][s] \in Nat
    BY Zenon DEF StatsInv, StatsType
  <2>2. Balanced(n)
    BY Zenon DEF StatsInv
  <2>3. faults = 0 /\ Total("LocalLoadErrs") = 0 => Settled(n)
    <3>1. Total("LocalLoadErrs") = 0 => \A m \in Nodes : stats[m]["LocalLoadErrs"] = 0
      BY TotalType, Zenon DEF StatsInv, Counters
    <3> QED
      BY <3>1, Zenon DEF StatsInv, Spotless
  <2>4. On(n, {"load", "rpc", "reply", "local"}) = On(n, Away) + On(n, Here)
    BY RunningSplits, Zenon
  <2>5. On(n, Away) \in Nat /\ On(n, Here) \in Nat
    BY BookType, Zenon
  <2> HIDE DEF StatsInv
  <2> QED
    BY <2>1, <2>2, <2>3, <2>4, <2>5, SMTT(30) DEF Balanced, Balance, Settled, Counters
<1> QED
  BY <1>1, StatsInvariance, PTL

\* The counters C go up by one on one of the nodes.
Totals(C) == \A s \in Counters : Total(s)' = Total(s) + IF s \in C THEN 1 ELSE 0

\* What one node books, the cluster books.
LEMMA TotalsMove ==
  ASSUME StatsType, StatsType', NEW m \in Nodes, NEW C,
         NEW look, NEW inside, NEW away, NEW here,
         \A n \in Nodes \ {m} : Move(n, {}, 0, 0, 0, 0),
         Move(m, C, look, inside, away, here)
  PROVE  Totals(C)
<1> SUFFICES ASSUME NEW s \in Counters
             PROVE  Total(s)' = Total(s) + IF s \in C THEN 1 ELSE 0
  BY Zenon DEF Totals
<1> DEFINE w == [n \in Nodes |-> stats[n][s]]
           v == [n \in Nodes |-> stats'[n][s]]
<1>1. /\ w \in [Nodes -> Nat] /\ v \in [Nodes -> Nat]
      /\ \A n \in Nodes : w[n] = stats[n][s] /\ v[n] = stats'[n][s]
  BY Zenon DEF StatsType
<1>2. Total(s) = Tally(w) /\ Total(s)' = Tally(v)
  BY Zenon DEF Total
<1> HIDE DEF w, v
<1>3. ASSUME NEW n \in Nodes \ {m} PROVE v[n] = w[n]
  <2>1. Move(n, {}, 0, 0, 0, 0)
    BY Zenon
  <2> QED
    BY <1>1, <2>1, SMTT(30) DEF Move
<1>4. v[m] = w[m] + IF s \in C THEN 1 ELSE 0
  BY <1>1, Zenon DEF Move
<1>5. Tally(w) \in Nat
  BY <1>1, TallyType, FiniteAssumption, Zenon
<1>6. CASE s \in C
  <2>1. v[m] = w[m] + 1
    BY <1>4, <1>6, Zenon
  <2>2. Tally(v) = Tally(w) + 1
    BY <1>1, <1>3, <2>1, TallyMore, FiniteAssumption, SMTT(30)
  <2> QED
    BY <1>2, <1>6, <2>2, Zenon
<1>7. CASE s \notin C
  <2>1. \A n \in Nodes : v[n] = w[n]
    BY <1>1, <1>3, <1>4, <1>7, SMTT(30)
  <2>2. v = w
    BY <1>1, <2>1, SMTT(30)
  <2> QED
    BY <1>2, <1>5, <1>7, <2>2, SMTT(30)
<1> QED
  BY <1>6, <1>7, Zenon

\* The totals of a step that books nothing.
LEMMA TotalsStay ==
  ASSUME StatsType, \A n \in Nodes : Move(n, {}, 0, 0, 0, 0)
  PROVE  Totals({})
<1> SUFFICES ASSUME NEW s \in Counters
             PROVE  Total(s)' = Total(s) + IF s \in {} THEN 1 ELSE 0
  BY Zenon DEF Totals
<1>1. \A n \in Nodes : stats'[n][s] = stats[n][s]
  BY SMTT(30) DEF Move, Counters, StatsType
<1>2. [n \in Nodes |-> stats'[n][s]] = [n \in Nodes |-> stats[n][s]]
  BY <1>1, Zenon
<1>3. Total(s)' = Total(s)
  BY <1>2, Zenon DEF Total
<1>4. Total(s) \in Nat
  BY TotalType, Zenon
<1> QED
  BY <1>3, <1>4, SMTT(30)

\* Bumps that the books of the cluster do not show.
Unrelated == {{}, {"CacheHits"}, {"CacheHits", "SecondHits"}, {"Loads"}, {"PeerLoads"},
              {"PeerErrors"}}

\* The books of the cluster, from those of the node a step is on.
LEMMA BookedTotals ==
  ASSUME StatsType, StatsType', Ledger, GetsOnly, faults = 0, faults' = 0
  PROVE  \/ Totals({"Gets"}) /\ Works(0) /\ Called
         \/ Totals({"Gets", "Refused"}) /\ Works(0) /\ Called
         \/ Totals({"Gets"}) /\ Works(-1) /\ left' = left
         \/ /\ \E C \in Unrelated : Totals(C)
            /\ Works(0) /\ left' = left
         \/ Totals({"LoadsDeduped"}) /\ Works(1) /\ left' = left
         \/ Totals({"LocalLoads"}) /\ Works(-1) /\ left' = left
         \/ Totals({"LocalLoadErrs"}) /\ Works(-1) /\ left' = left
<1>1. CASE /\ \A n \in Nodes : Move(n, {}, 0, 0, 0, 0)
           /\ Works(0) /\ (left' = left \/ ~ GetsOnly)
  <2>1. Totals({})
    BY <1>1, TotalsStay, Zenon
  <2> QED
    BY <1>1, <2>1, Zenon DEF Unrelated
<1>2. ASSUME NEW m \in Nodes, Booked(m),
             \A n \in Nodes \ {m} : Move(n, {}, 0, 0, 0, 0)
      PROVE  \/ Totals({"Gets"}) /\ Works(0) /\ Called
             \/ Totals({"Gets", "Refused"}) /\ Works(0) /\ Called
             \/ Totals({"Gets"}) /\ Works(-1) /\ left' = left
             \/ /\ \E C \in Unrelated : Totals(C)
                /\ Works(0) /\ left' = left
             \/ Totals({"LoadsDeduped"}) /\ Works(1) /\ left' = left
             \/ Totals({"LocalLoads"}) /\ Works(-1) /\ left' = left
             \/ Totals({"LocalLoadErrs"}) /\ Works(-1) /\ left' = left
  <2>1. ASSUME NEW C, NEW look, NEW inside, NEW away, NEW here,
               Move(m, C, look, inside, away, here)
        PROVE  Totals(C)
    BY <1>2, <2>1, TotalsMove, Zenon
  <2> QED
    BY <1>2, <2>1, ZenonT(60) DEF Booked, Unrelated
<1>3. \/ /\ \A n \in Nodes : Move(n, {}, 0, 0, 0, 0)
         /\ Works(0) /\ (left' = left \/ ~ GetsOnly)
      \/ \E m \in Nodes : Booked(m) /\ \A n \in Nodes \ {m} : Move(n, {}, 0, 0, 0, 0)
  BY Zenon DEF Ledger
<1> QED
  BY <1>1, <1>2, <1>3, Zenon

\* The operations the callers have started.
Issued == Tally([p \in Procs |-> MaxOps[p] - left[p]])

InTime == \A p \in Procs : left[p] <= MaxOps[p]

\* A call is one operation more.
LEMMA IssuedMoves ==
  ASSUME left \in [Procs -> Nat], left' \in [Procs -> Nat], InTime
  PROVE  /\ Issued \in Nat
         /\ Called => Issued' = Issued + 1 /\ InTime'
         /\ left' = left => Issued' = Issued /\ InTime'
<1> DEFINE w == [p \in Procs |-> MaxOps[p] - left[p]]
           v == [p \in Procs |-> MaxOps[p] - left'[p]]
<1>0. MaxOps \in [Procs -> Nat] /\ IsFiniteSet(Procs)
  <2>1. Procs \in SUBSET (Procs \cup Handlers)
    BY Zenon
  <2> QED
    BY <2>1, BoundAssumption, FiniteAssumption, FS_Subset, ZenonT(60)
<1>1. Issued = Tally(w) /\ Issued' = Tally(v)
  BY Zenon DEF Issued
<1>2. \A p \in Procs : w[p] = MaxOps[p] - left[p] /\ w[p] \in Nat
  BY <1>0, SMTT(30) DEF InTime
<1>3. /\ w \in [Procs -> Nat]
      /\ v = [p \in Procs |-> v[p]]
      /\ \A p \in Procs : v[p] = MaxOps[p] - left'[p]
  BY <1>2, Zenon
<1>4. left' = left => v = w
  BY Zenon
<1> HIDE DEF w, v
<1>5. Issued \in Nat
  BY <1>0, <1>1, <1>3, TallyType, ZenonT(60)
<1>6. ASSUME Called PROVE Issued' = Issued + 1 /\ InTime'
  <2>1. PICK m \in Procs : left[m] > 0 /\ left' = [left EXCEPT ![m] = @ - 1]
    BY <1>6, Zenon DEF Called
  <2>2. \A p \in Procs : left'[p] = IF p = m THEN left[p] - 1 ELSE left[p]
    BY <2>1, Zenon
  <2>3. \A p \in Procs : left'[p] <= MaxOps[p] /\ left'[p] \in Nat
    BY <1>0, <2>2, SMTT(30) DEF InTime
  <2>4. \A p \in Procs : v[p] \in Nat
    BY <1>0, <1>3, <2>3, SMTT(30)
  <2>5. v[m] = w[m] + 1 /\ \A p \in Procs \ {m} : v[p] = w[p]
    BY <1>0, <1>2, <1>3, <2>2, SMTT(30)
  <2>6. v \in [Procs -> Nat]
    BY <1>3, <2>4, Zenon
  <2>7. w \in [Procs -> Nat] /\ IsFiniteSet(Procs)
    BY <1>0, <1>3, Zenon
  <2>8. Tally(v) = Tally(w) + 1
    BY <2>5, <2>6, <2>7, TallyMore, SMTT(30)
  <2> QED
    BY <1>1, <2>3, <2>8, Zenon DEF InTime
<1>7. ASSUME left' = left PROVE Issued' = Issued /\ InTime'
  BY <1>1, <1>4, <1>7, Zenon DEF InTime
<1> QED
  BY <1>5, <1>6, <1>7, Zenon

\* The step of RequestsCounted, with the bound on the calls.
LEMMA NextRequests ==
  ASSUME GetsOnly, IndInv, IndInv', GetterInv, StatsInv, InTime, RequestsCounted,
         [StatsNext]_<<vars, stats>>
  PROVE  InTime' /\ RequestsCounted'
<1>1. /\ RequestsCounted <=> (faults = 0 =>
           Total("Gets") + Total("LocalLoads") + Total("LocalLoadErrs") + Work
             = Issued + Total("LoadsDeduped"))
      /\ RequestsCounted' <=> (faults' = 0 =>
           Total("Gets")' + Total("LocalLoads")' + Total("LocalLoadErrs")' + Work'
             = Issued' + Total("LoadsDeduped")')
  BY Zenon DEF RequestsCounted, Work, Issued
<1>2. left \in [Procs -> Nat] /\ left' \in [Procs -> Nat]
  BY Zenon DEF IndInv, DataOK
<1>3. CASE vars' = vars /\ stats' = stats
  <2>1. task' = task /\ left' = left /\ faults' = faults
    BY <1>3, Zenon DEF vars
  <2> QED
    BY <1>3, <2>1, Zenon DEF InTime, RequestsCounted, Total
<1>4. CASE Books
  <2>1. faults' = 0 => faults = 0
    BY <1>4, Zenon DEF Books
  <2>2. StatsType /\ StatsType'
    BY <1>4, Zenon DEF Books, StatsInv
  <2>3. Ledger
    BY <1>4, Zenon DEF Books
  <2>4. Called \/ left' = left
    BY <2>3, Zenon DEF Ledger, Booked
  <2>5. InTime'
    BY <1>2, <2>4, IssuedMoves, Zenon
  <2>6. ASSUME faults' = 0
        PROVE  Total("Gets")' + Total("LocalLoads")' + Total("LocalLoadErrs")' + Work'
                 = Issued' + Total("LoadsDeduped")'
    <3> DEFINE g == Total("Gets")
               g2 == Total("Gets")'
               c == Total("LocalLoads")
               c2 == Total("LocalLoads")'
               b == Total("LocalLoadErrs")
               b2 == Total("LocalLoadErrs")'
               e == Total("LoadsDeduped")
               e2 == Total("LoadsDeduped")'
               w == Work
               i == Issued
               i2 == Issued'
    <3>1. faults = 0
      BY <2>1, <2>6, Zenon
    <3>2. g \in Nat /\ c \in Nat /\ b \in Nat /\ e \in Nat
      BY <2>2, TotalType, Zenon DEF Counters
    <3>3. w \in Nat /\ i \in Nat
      BY <1>2, CountType, IssuedMoves, Zenon
    <3> DEFINE Each(x, z, y) == /\ g2 = g + IF "Gets" \in x THEN 1 ELSE 0
                                /\ c2 = c + IF "LocalLoads" \in x THEN 1 ELSE 0
                                /\ b2 = b + IF "LocalLoadErrs" \in x THEN 1 ELSE 0
                                /\ e2 = e + IF "LoadsDeduped" \in x THEN 1 ELSE 0
                                /\ Work' = w + z
                                /\ i2 = i + y
    <3>4. ASSUME NEW x, Totals(x), NEW z, Works(z)
          PROVE  (Called => Each(x, z, 1)) /\ (left' = left => Each(x, z, 0))
      <4>1. /\ g2 = g + IF "Gets" \in x THEN 1 ELSE 0
            /\ c2 = c + IF "LocalLoads" \in x THEN 1 ELSE 0
            /\ b2 = b + IF "LocalLoadErrs" \in x THEN 1 ELSE 0
            /\ e2 = e + IF "LoadsDeduped" \in x THEN 1 ELSE 0
        BY <3>4, Zenon DEF Totals, Counters
      <4>2. (Called => i2 = i + 1) /\ (left' = left => i2 = i)
        BY <1>2, IssuedMoves, Zenon
      <4>3. i = i + 0
        BY <3>3, SMTT(30)
      <4> QED
        BY <3>4, <4>1, <4>2, <4>3, ZenonT(60) DEF Works
    <3>5. g + c + b + w = i + e
      BY <1>1, <3>1, Zenon
    <3> HIDE DEF g, g2, c, c2, b, b2, e, e2, w, i, i2
    <3> SUFFICES g2 + c2 + b2 + Work' = i2 + e2
      BY Zenon DEF g2, c2, b2, i2, e2
    <3> HIDE DEF Each
    <3>6. CASE Totals({"Gets"}) /\ Works(0) /\ Called
      <4>1. Each({"Gets"}, 0, 1)
        BY <3>4, <3>6, Zenon
      <4> QED
        BY <3>2, <3>3, <3>5, <4>1, SMTT(30) DEF Each
    <3>7. CASE Totals({"Gets"}) /\ Works(-1) /\ left' = left
      <4>1. Each({"Gets"}, -1, 0)
        BY <3>4, <3>7, Zenon
      <4> QED
        BY <3>2, <3>3, <3>5, <4>1, SMTT(30) DEF Each
    <3>8. ASSUME NEW x \in Unrelated,
                 Totals(x), Works(0), left' = left
          PROVE  g2 + c2 + b2 + Work' = i2 + e2
      <4>1. Each(x, 0, 0)
        BY <3>4, <3>8, Zenon
      <4>2. /\ "Gets" \notin x /\ "LocalLoads" \notin x
            /\ "LocalLoadErrs" \notin x /\ "LoadsDeduped" \notin x
        BY <3>8, Zenon DEF Unrelated
      <4> QED
        BY <3>2, <3>3, <3>5, <4>1, <4>2, SMTT(30) DEF Each
    <3>9. CASE Totals({"LoadsDeduped"}) /\ Works(1) /\ left' = left
      <4>1. Each({"LoadsDeduped"}, 1, 0)
        BY <3>4, <3>9, Zenon
      <4> QED
        BY <3>2, <3>3, <3>5, <4>1, SMTT(30) DEF Each
    <3>10. CASE Totals({"LocalLoads"}) /\ Works(-1) /\ left' = left
      <4>1. Each({"LocalLoads"}, -1, 0)
        BY <3>4, <3>10, Zenon
      <4> QED
        BY <3>2, <3>3, <3>5, <4>1, SMTT(30) DEF Each
    <3>11. CASE Totals({"LocalLoadErrs"}) /\ Works(-1) /\ left' = left
      <4>1. Each({"LocalLoadErrs"}, -1, 0)
        BY <3>4, <3>11, Zenon
      <4> QED
        BY <3>2, <3>3, <3>5, <4>1, SMTT(30) DEF Each
    <3>12. CASE Totals({"Gets", "Refused"}) /\ Works(0) /\ Called
      <4>1. Each({"Gets", "Refused"}, 0, 1)
        BY <3>4, <3>12, Zenon
      <4> QED
        BY <3>2, <3>3, <3>5, <4>1, SMTT(30) DEF Each
    <3> QED
      BY <2>2, <2>3, <2>6, <3>1, <3>6, <3>7, <3>8, <3>9, <3>10, <3>11, <3>12,
         BookedTotals, ZenonT(60)
  <2> QED
    BY <1>1, <2>5, <2>6, ZenonT(60)
<1> QED
  BY <1>3, <1>4, StatsBooked, ZenonT(60) DEF StatsInv

\* At first no operation has started.
LEMMA InitRequests == StatsInit => InTime /\ RequestsCounted
<1> SUFFICES ASSUME StatsInit PROVE InTime /\ RequestsCounted
  BY Zenon
<1>1. Init /\ StatsType /\ left = MaxOps /\ Work = 0
  BY InitStats, NothingOn, Zenon DEF StatsInit, Init, StatsInv
<1>2. InTime
  BY <1>1, BoundAssumption, SMTT(30) DEF InTime
<1>4. ASSUME NEW s \in Counters PROVE Total(s) = 0
  <2>1. \A n \in Nodes : stats[n][s] = 0
    BY Zenon DEF StatsInit
  <2> QED
    BY <1>1, <2>1, TotalType, Zenon
<1>5. Issued = 0
  <2> DEFINE w == [p \in Procs |-> MaxOps[p] - left[p]]
  <2>1. w \in [Procs -> Nat] /\ \A p \in Procs : w[p] = 0
    BY <1>1, BoundAssumption, SMTT(30)
  <2>2. IsFiniteSet(Procs)
    <3>1. Procs \in SUBSET (Procs \cup Handlers)
      BY Zenon
    <3> QED
      BY <3>1, FiniteAssumption, FS_Subset, Zenon
  <2>3. Issued = Tally(w)
    BY Zenon DEF Issued
  <2> HIDE DEF w
  <2> QED
    BY <2>1, <2>2, <2>3, TallyType, Zenon
<1>6. RequestsCounted <=> (faults = 0 =>
        Total("Gets") + Total("LocalLoads") + Total("LocalLoadErrs") + Work
          = Issued + Total("LoadsDeduped"))
  BY Zenon DEF RequestsCounted, Work, Issued
<1>7. /\ Total("Gets") = 0 /\ Total("LocalLoads") = 0
      /\ Total("LocalLoadErrs") = 0 /\ Total("LoadsDeduped") = 0
  BY <1>4, Zenon DEF Counters
<1> QED
  BY <1>1, <1>2, <1>5, <1>6, <1>7, SMTT(30)

\* The Gets that the nodes count are the callers' and one for every load they
\* did not run themselves, until a request fails: any number of callers and
\* nodes, any interleaving, any errors of the Getter.
THEOREM AlwaysRequestsCounted ==
  ASSUME GetsOnly PROVE StatsSpec => []RequestsCounted
<1>1. StatsInit => InTime /\ RequestsCounted
  BY InitRequests, Zenon
<1>2. /\ IndInv /\ IndInv' /\ GetterInv /\ StatsInv
      /\ InTime /\ RequestsCounted /\ [StatsNext]_<<vars, stats>>
      => InTime' /\ RequestsCounted'
  BY NextRequests, Zenon
<1> QED
  BY <1>1, <1>2, StatsInvariance, PTL DEF StatsSpec

===============================================================================
