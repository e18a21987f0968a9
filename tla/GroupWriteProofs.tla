-------------------------- MODULE GroupWriteProofs ---------------------------
(***************************************************************************)
(* After an acknowledged write of the one writer, while the nodes agree on *)
(* the peers, no older copy is left that no load put there meanwhile: for  *)
(* any nodes, keys, readers, handlers, failures and evictions.             *)
(***************************************************************************)
EXTENDS GroupCacheProofs

\* All callers but one only read.
OneWriter == \E w \in Procs : \A p \in Procs \ {w} : Ops[p] \subseteq {"get"}

Writer == CHOOSE w \in Procs : \A p \in Procs \ {w} : Ops[p] \subseteq {"get"}

\* Every node has the list of all, and had no other.
Steady == \A n \in Nodes : peers[n] = Nodes /\ gen[n] = 0

Master(k) == Owner(Nodes, k)

\* A Get whose value may still get into a cache, or to a peer.
Bears(r) ==
  /\ r.op = "get"
  /\ r.pc = "fill" \/ r.res.st = "ok"
  /\ \/ r.pc \in {"reply", "fill"}
     \/ r.pc \in {"done", "delete"} /\ r.node = Master(r.key)
     \/ r.pc = "wake" /\ r.parent # Nil

Carried(k, x) ==
  \E t \in Tasks : Bears(task[t]) /\ task[t].key = k /\ task[t].res.ver = x

\* The owner's flight hands version x of k to the duplicates.
Ended(k, x) ==
  LET f == flight["get"][Master(k)][k]
  IN  f.state = "done" /\ f.res.st = "ok" /\ f.res.ver = x

\* A request that was given up will store it.
Delayed(k, x) == \E msg \in late : msg.op = "set" /\ k \in msg.keys /\ msg.ver = x

\* A reader anywhere may yet be given version x of k.
Afloat(k, x) == x \in Copies(Master(k), k) \/ Carried(k, x) \/ Ended(k, x) \/ Delayed(k, x)

\* A request for a key is served by its owner.
Served == \A t \in Tasks : task[t].parent # Nil => task[t].node = Master(task[t].key)

\* Every goroutine but the writer's reads.
Reads ==
  \A t \in Tasks : /\ t # Writer => task[t].op \in {"none", "get"}
                   /\ task[t].op \in {"none", "get"} => task[t].seen = NoneSeen

\* The value a write leaves in the caches it reaches.
Value(r) == IF r.op = "set" THEN r.seen[r.key] ELSE 0

\* The requests of a write carry its key and its value.
Sends(r) ==
  r.op \notin {"none", "get"} => \A msg \in r.pend :
    IF r.op = "removekeys" THEN msg.op = "removekeys"
    ELSE msg.op = r.op /\ msg.keys = {r.key} /\ msg.ver = Value(r)

\* The version x of k that the writer is setting.
Setting(k, x) ==
  LET r == task[Writer] IN r.op = "set" /\ r.key = k /\ x = r.seen[k]

Fed(k, x) == Afloat(k, x) \/ x = src[k] \/ Setting(k, x)

-------------------------------------------------------------------------------
(* What is written *)

\* Version v (0: none) replaces the copies of the keys K on node m.
Puts(m, K, v) ==
  \A n \in Nodes, k \in Keys :
    /\ main'[n][k] = IF n = m /\ k \in K THEN v ELSE main[n][k]
    /\ hot'[n][k] = IF n = m /\ k \in K THEN 0 ELSE hot[n][k]

\* RemoteSet and Set: the hot cache loses the key, the main cache gains it.
LEMMA StorePuts ==
  ASSUME IndInv, NEW m, NEW K, NEW v, Store(m, K, v)
  PROVE  Puts(m, K, v)
<1>1. main \in [Nodes -> [Keys -> Version]] /\ hot \in [Nodes -> [Keys -> Version]]
  BY Zenon DEF IndInv, DataOK
<1> QED
  BY <1>1, Zenon DEF Store, Puts

\* LocalRemove is a store of nothing.
LEMMA RemovePuts ==
  ASSUME IndInv, NEW m, NEW K, LocalRemove(m, K)
  PROVE  Puts(m, K, 0)
<1>1. Store(m, K, 0)
  BY Zenon DEF LocalRemove, Store
<1> QED
  BY <1>1, StorePuts, Zenon

\* What a peer does with a request.
LEMMA ApplyPuts ==
  ASSUME IndInv, NEW msg, msg.op \in {"set", "remove", "removekeys"}, Apply(msg)
  PROVE  Puts(msg.to, msg.keys, IF msg.op = "set" THEN msg.ver ELSE 0)
<1>2. CASE msg.op = "set"
  BY <1>2, StorePuts, Zenon DEF Apply
<1>3. CASE msg.op = "remove"
  BY <1>3, RemovePuts, Zenon DEF Apply
<1>4. CASE msg.op = "removekeys"
  BY <1>4, RemovePuts, Zenon DEF Apply, handleRemoveKeysRequest
<1> QED
  BY <1>2, <1>3, <1>4, Zenon

\* The copies afterwards.
LEMMA PutCopies ==
  ASSUME NEW m, NEW K, NEW v, Puts(m, K, v), NEW n \in Nodes, NEW k \in Keys,
         NEW x \in Copies(n, k)'
  PROVE  IF n = m /\ k \in K THEN x = v /\ v # 0 ELSE x \in Copies(n, k)
BY Zenon DEF Puts, Copies

\* The request of a Set or Remove carries its key and its value.
LEMMA RequestOf ==
  ASSUME IndInv, NEW t \in Tasks, NEW q, task[t].op \in {"set", "remove"}
  PROVE  /\ Request(t, q).op = task[t].op /\ Request(t, q).to = q
         /\ Request(t, q).keys = {task[t].key} /\ Request(t, q).ver = Value(task[t])
BY Zenon DEF Request, Value

-------------------------------------------------------------------------------
(* What a step changes *)

\* The steps that change a cache.
CacheStep(t) ==
  \/ PeerValue(t) \/ PopulateMain(t) \/ WriteOwner(t) \/ WriteHere(t)
  \/ \E msg \in task[t].pend : Broadcast(t, msg)
  \/ \E k \in task[t].todo : RemoveKeysHere(t, k)

\* The steps that may hold back a request.
Losing(t) ==
  WriteOwnerFails(t) \/ \E msg \in task[t].pend : BroadcastFails(t, msg)

Frame(t) ==
  /\ src' = src /\ raced \subseteq raced'
  /\ (main' = main /\ hot' = hot) \/ CacheStep(t)
  /\ late' = late \/ Losing(t)
  /\ flight' = flight \/ DoLead(t) \/ LeaderDone(t) \/ LeaderReturn(t)
  /\ floor' = floor \/ \E r : Return(t, r)

\* What a goroutine changes beside the goroutines.
LEMMA GoroutineFrame ==
  ASSUME NEW t, Step(t) \/ Fault(t)
  PROVE  Frame(t)
<1>1. CASE DoLead(t) \/ DoJoin(t) \/ DoJoinLate(t)
  BY <1>1, ZenonT(60) DEF DoLead, DoJoin, DoJoinLate, Stay, Quiet, Caches, Frame
<1>2. CASE LeaderDone(t) \/ LeaderReturn(t) \/ DuplicateReturn(t)
  BY <1>2, ZenonT(60) DEF LeaderDone, LeaderReturn, DuplicateReturn, Stay, Quiet, Caches, Frame
<1>3. CASE LookupMain(t) \/ LookupHot(t)
  BY <1>3, ZenonT(60) DEF LookupMain, LookupHot, Hit, Stay, Caches, Frame
<1>4. CASE LoadFromPeer(t) \/ LoadHere(t) \/ PeerError(t)
  BY <1>4, ZenonT(60) DEF LoadFromPeer, LoadHere, PeerError, Stay, Quiet, Caches, Frame
<1>5. CASE PeerValue(t) \/ PopulateMain(t)
  BY <1>5, ZenonT(60) DEF PeerValue, PopulateMain, Stay, Quiet, Frame, CacheStep
<1>6. CASE RunGetter(t)
  BY <1>6, ZenonT(60) DEF RunGetter, Stay, Caches, Frame
<1>7. CASE WriteOwner(t) \/ WriteHere(t)
  BY <1>7, ZenonT(60) DEF WriteOwner, WriteHere, Overlapped, Stay, Frame, CacheStep
<1>8. CASE WritePick(t) \/ SetList(t) \/ RemoveList(t) \/ BroadcastEnd(t)
  BY <1>8, ZenonT(60) DEF WritePick, SetList, RemoveList, BroadcastEnd, Stay, Quiet, Caches,
                          Frame
<1>9. ASSUME NEW msg \in task[t].pend, Broadcast(t, msg)
      PROVE  Frame(t)
  BY <1>9, ZenonT(60) DEF Broadcast, Overlapped, Stay, Frame, CacheStep
<1>10. ASSUME NEW k \in task[t].todo, GroupByOwner(t, k) \/ RemoveKeysHere(t, k)
       PROVE  Frame(t)
  BY <1>10, ZenonT(60) DEF GroupByOwner, RemoveKeysHere, Overlapped, Stay, Quiet, Caches,
                           Frame, CacheStep
<1>11. CASE RemoveKeysList(t) \/ RemoveKeysReturn(t)
  BY <1>11, ZenonT(60) DEF RemoveKeysList, RemoveKeysReturn, Stay, Quiet, Caches, Frame
<1>12. ASSUME NEW st, PeerUnreachable(t, st) \/ ReplyLost(t, st)
       PROVE  Frame(t)
  BY <1>12, ZenonT(60) DEF PeerUnreachable, ReplyLost, Stay, Caches, Frame
<1>13. CASE WriteOwnerFails(t)
  BY <1>13, ZenonT(60) DEF WriteOwnerFails, Stay, Caches, Frame, Losing
<1>14. ASSUME NEW msg \in task[t].pend, BroadcastFails(t, msg)
       PROVE  Frame(t)
  BY <1>14, ZenonT(60) DEF BroadcastFails, Stay, Caches, Frame, Losing
<1> QED
  BY <1>1, <1>2, <1>3, <1>4, <1>5, <1>6, <1>7, <1>8, <1>9, <1>10, <1>11, <1>12, <1>13,
     <1>14, ZenonT(60) DEF Step, Fault

-------------------------------------------------------------------------------
(* Where a version comes from *)

\* The writer is a caller.
LEMMA WriterTask ==
  ASSUME OneWriter
  PROVE  /\ Writer \in Procs /\ Writer \in Tasks
         /\ \A p \in Procs \ {Writer} : Ops[p] \subseteq {"get"}
<1>1. Writer \in Procs /\ \A p \in Procs \ {Writer} : Ops[p] \subseteq {"get"}
  BY Zenon DEF OneWriter, Writer
<1> QED
  BY <1>1, Zenon DEF Tasks

\* A goroutine that writes is the writer's.
LEMMA WritesAlone ==
  ASSUME IndInv, Reads, NEW t \in Tasks,
         task[t].pc \in {"pick", "owner", "here", "list", "fan", "group", "rkhere", "rklist"}
  PROVE  /\ t = Writer
         /\ task[t].op \in {"set", "remove", "removekeys"}
         /\ task[t].pc \in {"pick", "owner", "here", "list"} => task[t].op # "removekeys"
<1>1. Form(task[t])
  BY Zenon DEF IndInv, TaskOK, Formed
<1> QED
  BY <1>1, ZenonT(60) DEF Reads, Form, FormAt

\* Set and Remove, on the owner.
LEMMA OwnerPuts ==
  ASSUME IndInv, Reads, NEW t \in Tasks, WriteOwner(t)
  PROVE  t = Writer /\ Puts(task[t].owner, {task[t].key}, Value(task[t]))
<1> DEFINE msg == Request(t, task[t].owner)
<1>1. task[t].pc = "owner" /\ Apply(msg)
  BY Zenon DEF WriteOwner
<1>2. t = Writer /\ task[t].op \in {"set", "remove"}
  BY <1>1, WritesAlone, Zenon
<1>3. /\ msg.op = task[t].op /\ msg.to = task[t].owner
      /\ msg.keys = {task[t].key} /\ msg.ver = Value(task[t])
  BY <1>2, RequestOf
<1> HIDE DEF msg
<1>4. Puts(msg.to, msg.keys, IF msg.op = "set" THEN msg.ver ELSE 0)
  BY <1>1, <1>2, <1>3, ApplyPuts
<1>5. (IF msg.op = "set" THEN msg.ver ELSE 0) = Value(task[t])
  BY <1>3, Zenon DEF Value
<1> QED
  BY <1>2, <1>3, <1>4, <1>5, Zenon

\* Set and Remove, on the caller's node.
LEMMA HerePuts ==
  ASSUME IndInv, Reads, NEW t \in Tasks, WriteHere(t)
  PROVE  t = Writer /\ Puts(task[t].node, {task[t].key}, Value(task[t]))
<1>1. /\ task[t].pc = "here"
      /\ IF task[t].op = "set" THEN Store(task[t].node, {task[t].key}, task[t].seen[task[t].key])
                               ELSE LocalRemove(task[t].node, {task[t].key})
  BY Zenon DEF WriteHere
<1>2. t = Writer
  BY <1>1, WritesAlone, Zenon
<1>3. CASE task[t].op = "set"
  BY <1>1, <1>2, <1>3, StorePuts, Zenon DEF Value
<1>4. CASE task[t].op # "set"
  BY <1>1, <1>2, <1>4, RemovePuts, Zenon DEF Value
<1> QED
  BY <1>3, <1>4, Zenon

\* The broadcast.
LEMMA BroadcastPuts ==
  ASSUME IndInv, Reads, Sends(task[Writer]), NEW t \in Tasks, NEW msg, Broadcast(t, msg)
  PROVE  /\ t = Writer
         /\ IF task[t].op = "removekeys" THEN Puts(msg.to, msg.keys, 0)
            ELSE Puts(msg.to, {task[t].key}, Value(task[t]))
<1>1. task[t].pc = "fan" /\ msg \in task[t].pend /\ Apply(msg)
  BY Zenon DEF Broadcast
<1>2. t = Writer /\ task[t].op \in {"set", "remove", "removekeys"}
  BY <1>1, WritesAlone, Zenon
<1>3. IF task[t].op = "removekeys" THEN msg.op = "removekeys"
      ELSE msg.op = task[t].op /\ msg.keys = {task[t].key} /\ msg.ver = Value(task[t])
  BY <1>1, <1>2, Zenon DEF Sends
<1>4. Puts(msg.to, msg.keys, IF msg.op = "set" THEN msg.ver ELSE 0)
  BY <1>1, <1>2, <1>3, ApplyPuts
<1>5. task[t].op # "removekeys" => (IF msg.op = "set" THEN msg.ver ELSE 0) = Value(task[t])
  BY <1>3, Zenon DEF Value
<1> QED
  BY <1>2, <1>3, <1>4, <1>5, Zenon

\* RemoveKeys, on the caller's node.
LEMMA KeysPuts ==
  ASSUME IndInv, Reads, NEW t \in Tasks, NEW k, RemoveKeysHere(t, k)
  PROVE  t = Writer /\ task[t].op = "removekeys" /\ Puts(task[t].node, {k}, 0)
<1>1. task[t].pc = "rkhere" /\ LocalRemove(task[t].node, {k})
  BY Zenon DEF RemoveKeysHere
<1>2. Form(task[t])
  BY Zenon DEF IndInv, TaskOK, Formed
<1> QED
  BY <1>1, <1>2, WritesAlone, RemovePuts, Zenon DEF Form, FormAt

\* A version that appears in a cache was on its way to it.
LEMMA CopiesFlow ==
  ASSUME IndInv, Reads, Sends(task[Writer]), NEW t \in Tasks, CacheStep(t),
         NEW n \in Nodes, NEW k \in Keys, NEW x \in Copies(n, k)'
  PROVE  x \in Copies(n, k) \/ Carried(k, x) \/ Setting(k, x)
<1>1. ASSUME NEW m, NEW K, NEW v, Puts(m, K, v), t = Writer,
             v = 0 \/ (K = {task[t].key} /\ v = Value(task[t]))
      PROVE  x \in Copies(n, k) \/ Setting(k, x)
  <2>1. IF n = m /\ k \in K THEN x = v /\ v # 0 ELSE x \in Copies(n, k)
    BY <1>1, PutCopies, Zenon
  <2> QED
    BY <1>1, <2>1, Zenon DEF Value, Setting
<1>2. CASE WriteOwner(t)
  BY <1>1, <1>2, OwnerPuts, Zenon
<1>3. CASE WriteHere(t)
  BY <1>1, <1>3, HerePuts, Zenon
<1>4. ASSUME NEW msg, Broadcast(t, msg)
      PROVE  x \in Copies(n, k) \/ Setting(k, x)
  BY <1>1, <1>4, BroadcastPuts, Zenon
<1>5. ASSUME NEW q, RemoveKeysHere(t, q)
      PROVE  x \in Copies(n, k) \/ Setting(k, x)
  BY <1>1, <1>5, KeysPuts, Zenon
<1>6. main \in [Nodes -> [Keys -> Version]] /\ hot \in [Nodes -> [Keys -> Version]]
  BY Zenon DEF IndInv, DataOK
<1>7. Form(task[t])
  BY Zenon DEF IndInv, TaskOK, Formed
<1>8. CASE PeerValue(t)
  <2>1. /\ task[t].pc = "reply" /\ task[t].res.st = "ok" /\ main' = main
        /\ hot' = hot \/ hot' = [hot EXCEPT ![task[t].node][task[t].key] = task[t].res.ver]
    BY <1>8, Zenon DEF PeerValue
  <2>2. Bears(task[t])
    BY <1>7, <2>1, Zenon DEF Form, FormAt, Bears
  <2>3. x \in Copies(n, k) \/ (k = task[t].key /\ x = task[t].res.ver)
    BY <1>6, <2>1 DEF Copies
  <2> QED
    BY <2>2, <2>3, Zenon DEF Carried
<1>9. CASE PopulateMain(t)
  <2>1. /\ task[t].pc = "fill" /\ hot' = hot
        /\ main' = main \/ main' = [main EXCEPT ![task[t].node][task[t].key] = task[t].res.ver]
    BY <1>9, Zenon DEF PopulateMain
  <2>2. Bears(task[t])
    BY <1>7, <2>1, Zenon DEF Form, FormAt, Bears
  <2>3. x \in Copies(n, k) \/ (k = task[t].key /\ x = task[t].res.ver)
    BY <1>6, <2>1 DEF Copies
  <2> QED
    BY <2>2, <2>3, Zenon DEF Carried
<1> QED
  BY <1>2, <1>3, <1>4, <1>5, <1>8, <1>9, Zenon DEF CacheStep

\* A request that is held back is one of the writer's.
LEMMA LateFlow ==
  ASSUME IndInv, Reads, Sends(task[Writer]), NEW t \in Tasks, Losing(t),
         NEW k \in Keys, NEW x, Delayed(k, x)'
  PROVE  Delayed(k, x) \/ Setting(k, x)
<1>1. ASSUME NEW msg, Fail(msg), t = Writer,
             msg.op = "set" => /\ task[t].op = "set" /\ msg.keys = {task[t].key}
                               /\ msg.ver = Value(task[t])
      PROVE  Delayed(k, x) \/ Setting(k, x)
  BY <1>1, Zenon DEF Fail, Delayed, Setting, Value
<1>2. CASE WriteOwnerFails(t)
  <2>1. task[t].pc = "owner" /\ Fail(Request(t, task[t].owner))
    BY <1>2, Zenon DEF WriteOwnerFails
  <2>2. t = Writer /\ task[t].op \in {"set", "remove"}
    BY <2>1, WritesAlone, Zenon
  <2>3. LET msg == Request(t, task[t].owner) IN
        msg.op = task[t].op /\ msg.keys = {task[t].key} /\ msg.ver = Value(task[t])
    BY <2>2, RequestOf, SMTT(30)
  <2> QED
    BY <1>1, <2>1, <2>2, <2>3, Zenon
<1>3. ASSUME NEW msg \in task[t].pend, BroadcastFails(t, msg)
      PROVE  Delayed(k, x) \/ Setting(k, x)
  <2>1. task[t].pc = "fan" /\ Fail(msg)
    BY <1>3, Zenon DEF BroadcastFails
  <2>2. t = Writer /\ task[t].op \in {"set", "remove", "removekeys"}
    BY <2>1, WritesAlone, Zenon
  <2>3. IF task[t].op = "removekeys" THEN msg.op = "removekeys"
        ELSE msg.op = task[t].op /\ msg.keys = {task[t].key} /\ msg.ver = Value(task[t])
    BY <1>3, <2>2, Zenon DEF Sends
  <2> QED
    BY <1>1, <2>1, <2>2, <2>3, Zenon
<1> QED
  BY <1>2, <1>3, Zenon DEF Losing

\* A flight that ends hands out what its leader bears.
LEMMA EndedFlow ==
  ASSUME IndInv, NEW t \in Tasks, DoLead(t) \/ LeaderDone(t) \/ LeaderReturn(t),
         NEW k \in Keys, NEW x, Master(k) \in Nodes, Ended(k, x)'
  PROVE  Ended(k, x) \/ Carried(k, x)
<1>1. PICK f :
             /\ SetFlight(t, f) /\ task[t].pc \in {"do", "done", "delete"}
             /\ f.state = "done" =>
                  /\ task[t].pc = "done"
                  /\ f.res.st = "ok" => f.res = task[t].res
  <2>1. NewFlight.state = "pending" /\ NoFlight.state = "none" /\ NewFlight.res.st = "err"
    BY Zenon DEF NewFlight, NoFlight, Res
  <2>2. CASE DoLead(t)
    BY <2>1, <2>2, Zenon DEF DoLead
  <2>3. CASE LeaderReturn(t)
    BY <2>1, <2>3, Zenon DEF LeaderReturn
  <2>4. CASE LeaderDone(t)
    <3> DEFINE r == IF task[t].res.st = "panic" THEN NewFlight.res ELSE task[t].res
    <3>1. task[t].pc = "done" /\ SetFlight(t, [state |-> "done", res |-> r])
      BY <2>4, Zenon DEF LeaderDone
    <3>2. r.st = "ok" => r = task[t].res
      BY <2>1, Zenon
    <3> HIDE DEF r
    <3>3. [state |-> "done", res |-> r].res = r
      BY Zenon
    <3> QED
      BY <3>1, <3>2, <3>3, Zenon
  <2> QED
    BY <2>2, <2>3, <2>4, Zenon
<1>2. task[t].node \in Nodes /\ task[t].key \in Keys
  BY <1>1, Place, Zenon
<1>3. task[t].op \in {"get", "set", "remove"}
  BY <1>1, Zenon DEF IndInv, TaskOK, Formed, Form, FormAt
<1>4. CASE task[t].op # "get"
  <2>1. flight'["get"] = flight["get"]
    BY <1>1, <1>3, <1>4, OtherFlight, Zenon
  <2> QED
    BY <2>1, Zenon DEF Ended
<1>5. CASE task[t].op = "get"
  <2>1. flight'["get"][Master(k)][k] = IF Master(k) = task[t].node /\ k = task[t].key THEN f
                                       ELSE flight["get"][Master(k)][k]
    BY <1>1, <1>2, <1>5, GetFlight, SMTT(30)
  <2>2. CASE Master(k) = task[t].node /\ k = task[t].key
    <3>1. f.state = "done" /\ f.res.st = "ok" /\ f.res.ver = x
      BY <2>1, <2>2, Zenon DEF Ended
    <3>2. Bears(task[t]) /\ task[t].res.ver = x
      BY <1>1, <1>5, <2>2, <3>1, Zenon DEF Bears
    <3> QED
      BY <2>2, <3>2, Zenon DEF Carried
  <2>3. CASE ~ (Master(k) = task[t].node /\ k = task[t].key)
    BY <2>1, <2>3, Zenon DEF Ended
  <2> QED
    BY <2>2, <2>3, Zenon
<1> QED
  BY <1>4, <1>5, Zenon

\* What a goroutine bears, it was given.
Brings(s) == Bears(s) => Afloat(s.key, s.res.ver) \/ s.res.ver = src[s.key]

\* A goroutine that goes from r to s reads, and serves its parent on the owner.
Reader(r, s) ==
  \/ s = r
  \/ /\ r.op \in {"none", "get"} /\ s.op \in {"none", "get"}
     /\ s.seen \in {r.seen, NoneSeen}
     /\ s.parent # Nil => \/ s.parent = r.parent /\ s.node = r.node /\ s.key = r.key
                          \/ s.node = Master(s.key)

\* What happens to goroutine u in a step of t.
Passes(t, u) ==
  /\ Brings(task'[u])
  /\ u # t \/ task[t].op \in {"none", "get"} => Reader(task[u], task'[u])

\* A goroutine that is left alone.
LEMMA SameBrings ==
  ASSUME NEW u \in Tasks, task'[u] = task[u]
  PROVE  Brings(task'[u])
BY Zenon DEF Brings, Afloat, Carried

\* The same, beside a step of t.
LEMMA SamePasses ==
  ASSUME NEW t, NEW u \in Tasks, task'[u] = task[u]
  PROVE  Passes(t, u)
BY SameBrings, Zenon DEF Passes, Reader

\* One that goes on with what it has.
LEMMA StillPasses ==
  ASSUME NEW t, NEW u \in Tasks,
         task'[u].op = task[u].op, task'[u].seen = task[u].seen,
         task'[u].node = task[u].node, task'[u].key = task[u].key,
         task'[u].res = task[u].res, task'[u].parent \in {task[u].parent, Nil},
         u # t => task[u].op = "get",
         Bears(task'[u]) => Bears(task[u])
  PROVE  Passes(t, u)
<1>1. Brings(task'[u])
  BY Zenon DEF Brings, Afloat, Carried
<1>2. u # t \/ task[t].op \in {"none", "get"} => Reader(task[u], task'[u])
  BY Zenon DEF Reader
<1> QED
  BY <1>1, <1>2, Zenon DEF Passes

\* Goto.
LEMMA GotoPasses ==
  ASSUME IndInv, NEW t \in Tasks, NEW p, Goto(t, p),
         p \notin {"do", "recheck", "wait", "local", "recheckHot", "lookupHot", "load", "pick"} =>
           p = "done" /\ (Bears(task[t]) \/ task[t].res.st # "ok")
  PROVE  \A u \in Tasks : Passes(t, u)
<1>1. task \in [Tasks -> Task] /\ task[t] \in Task
  BY Zenon DEF IndInv, TaskOK
<1>2. (\A u \in Tasks \ {t} : task'[u] = task[u]) /\ task'[t] = [task[t] EXCEPT !.pc = p]
  BY <1>1, Zenon DEF Goto
<1>3. /\ task'[t].node = task[t].node /\ task'[t].key = task[t].key
      /\ task'[t].parent = task[t].parent /\ task'[t].op = task[t].op
      /\ task'[t].res = task[t].res /\ task'[t].pc = p /\ task'[t].seen = task[t].seen
  BY <1>1, <1>2, ZenonT(60) DEF Task
<1>4. Bears(task'[t]) => Bears(task[t])
  BY <1>3, Zenon DEF Bears
<1>5. Passes(t, t)
  BY <1>3, <1>4, StillPasses, Zenon
<1> QED
  BY <1>2, <1>5, SamePasses, Zenon

\* A callback, or the Getter, has a result.
LEMMA ResultPasses ==
  ASSUME IndInv, NEW t \in Tasks, NEW p \in {"done", "fill", "reply"}, NEW r,
         task' = [task EXCEPT ![t].pc = p, ![t].res = r],
         p = "reply" => r.st # "ok",
         p = "fill" => r.ver = src[task[t].key],
         p = "done" /\ r.st = "ok" /\ task[t].node = Master(task[t].key) =>
           Afloat(task[t].key, r.ver)
  PROVE  \A u \in Tasks : Passes(t, u)
<1>1. task \in [Tasks -> Task] /\ task[t] \in Task
  BY Zenon DEF IndInv, TaskOK
<1>2. /\ \A u \in Tasks \ {t} : task'[u] = task[u]
      /\ task'[t] = [task[t] EXCEPT !.pc = p, !.res = r]
  BY <1>1, ZenonT(60)
<1>3. /\ task'[t].node = task[t].node /\ task'[t].key = task[t].key
      /\ task'[t].parent = task[t].parent /\ task'[t].op = task[t].op
      /\ task'[t].seen = task[t].seen
      /\ task'[t].pc = p /\ task'[t].res = r
  BY <1>1, <1>2, ZenonT(60) DEF Task
<1>4. Brings(task'[t])
  BY <1>3, Zenon DEF Brings, Bears
<1>5. Passes(t, t)
  BY <1>3, <1>4, Zenon DEF Passes, Reader
<1> QED
  BY <1>2, <1>5, SamePasses, Zenon

\* Return ends the goroutine and answers its parent.
LEMMA ReturnFields ==
  ASSUME IndInv, NEW t \in Tasks, NEW r, Return(t, r)
  PROVE  /\ task'[t] = NoTask
         /\ \A u \in Tasks \ {t} :
              \/ task'[u] = task[u]
              \/ /\ u = task[t].parent /\ task[u].op = "get" /\ task[u].key = task[t].key
                 /\ task'[u].pc = "reply" /\ task'[u].res = Wire(r)
                 /\ task'[u].op = task[u].op /\ task'[u].key = task[u].key
                 /\ task'[u].node = task[u].node /\ task'[u].parent = task[u].parent
                 /\ task'[u].seen = task[u].seen
<1>1. \A u \in Tasks : task'[u] = IF u = t THEN NoTask
                 ELSE IF u = task[t].parent
                      THEN [task[u] EXCEPT !.pc = "reply", !.res = Wire(r)]
                      ELSE task[u]
  BY ZenonT(60) DEF Return
<1>2. ASSUME NEW u \in Tasks, u # t, u = task[t].parent
      PROVE  /\ task[u].op = "get" /\ task[u].key = task[t].key
             /\ task'[u].pc = "reply" /\ task'[u].res = Wire(r)
             /\ task'[u].op = task[u].op /\ task'[u].key = task[u].key
             /\ task'[u].node = task[u].node /\ task'[u].parent = task[u].parent
             /\ task'[u].seen = task[u].seen
  <2>1. u # Nil
    BY TaskAssumption, Zenon DEF Tasks
  <2>2. task[u].pc = "rpc" /\ task[u].key = task[t].key
    BY <1>2, <2>1, Zenon DEF IndInv, Forwarding, Descends
  <2>3. task[u] \in Task /\ Form(task[u])
    BY Zenon DEF IndInv, TaskOK, Formed
  <2>4. task'[u] = [task[u] EXCEPT !.pc = "reply", !.res = Wire(r)]
    BY <1>1, <1>2, Zenon
  <2>5. /\ task'[u].node = task[u].node /\ task'[u].key = task[u].key
        /\ task'[u].op = task[u].op /\ task'[u].parent = task[u].parent
        /\ task'[u].seen = task[u].seen
        /\ task'[u].pc = "reply" /\ task'[u].res = Wire(r)
    BY <2>3, <2>4, ZenonT(60) DEF Task
  <2>6. task[u].op = "get"
    BY <2>2, <2>3, Zenon DEF Form, FormAt
  <2> QED
    BY <2>2, <2>5, <2>6, Zenon
<1> QED
  BY <1>1, <1>2, Zenon

\* An answer to a peer was afloat.
LEMMA ReturnPasses ==
  ASSUME IndInv, NEW t \in Tasks, NEW r, Return(t, r),
         task[t].parent # Nil /\ r.st = "ok" => Afloat(task[t].key, r.ver)
  PROVE  \A u \in Tasks : Passes(t, u)
<1>1. Wire(r).st = "ok" => r.st = "ok" /\ Wire(r) = r
  BY Zenon DEF Wire, Res
<1>2. task'[t] = NoTask
  BY ReturnFields, Zenon
<1>3. NoTask.op = "none" /\ NoTask.seen = NoneSeen /\ NoTask.parent = Nil
  BY AtRest, Zenon
<1>4. Passes(t, t)
  BY <1>2, <1>3, Zenon DEF Passes, Reader, Brings, Bears
<1>5. ASSUME NEW u \in Tasks \ {t} PROVE Passes(t, u)
  <2>1. CASE task'[u] = task[u]
    BY <2>1, SamePasses, Zenon
  <2>2. CASE task'[u] # task[u]
    <3>1. /\ u = task[t].parent /\ task[u].op = "get" /\ task[u].key = task[t].key
          /\ task'[u].pc = "reply" /\ task'[u].res = Wire(r)
          /\ task'[u].op = task[u].op /\ task'[u].key = task[u].key
          /\ task'[u].node = task[u].node /\ task'[u].parent = task[u].parent
          /\ task'[u].seen = task[u].seen
      BY <2>2, ReturnFields, Zenon
    <3>2. u # Nil
      BY TaskAssumption, Zenon DEF Tasks
    <3>3. Brings(task'[u])
      BY <1>1, <3>1, <3>2, Zenon DEF Brings, Bears
    <3> QED
      BY <3>1, <3>3, Zenon DEF Passes, Reader
  <2> QED
    BY <2>1, <2>2, Zenon
<1> QED
  BY <1>4, <1>5, Zenon

\* lookupCache.
LEMMA LookupPasses ==
  ASSUME IndInv, GetterInv, Served, NEW t \in Tasks, LookupMain(t) \/ LookupHot(t)
  PROVE  \A u \in Tasks : Passes(t, u)
<1> DEFINE n == task[t].node
           k == task[t].key
<1>1. task[t].pc \in {"lookup", "recheck", "lookupHot", "recheckHot"}
  BY Zenon DEF LookupMain, LookupHot
<1>2. \/ \E v \in Copies(n, k) : Return(t, Res("ok", v)) \/ Finish(t, Res("ok", v))
      \/ \E p \in {"lookupHot", "recheckHot", "do", "load"} : Goto(t, p)
  <2>1. CASE LookupMain(t)
    BY <2>1, Zenon DEF LookupMain, Hit, Copies
  <2>2. CASE LookupHot(t)
    BY <2>2, Zenon DEF LookupHot, Hit, Copies
  <2> QED
    BY <2>1, <2>2, Zenon
<1>3. ASSUME NEW v \in Copies(n, k), Return(t, Res("ok", v)) \/ Finish(t, Res("ok", v))
      PROVE  \A u \in Tasks : Passes(t, u)
  <2>1. n = Master(k) => Afloat(k, v)
    BY Zenon DEF Afloat
  <2>2. task[t].parent # Nil => Afloat(k, v)
    BY <2>1, Zenon DEF Served
  <2> DEFINE r == Res("ok", v)
  <2>3. r.ver = v
    BY ResParts, Zenon
  <2>4. Return(t, r) \/ task' = [task EXCEPT ![t].pc = "done", ![t].res = r]
    BY <1>3, Zenon DEF Finish
  <2> HIDE DEF r
  <2>5. CASE Return(t, r)
    BY <2>2, <2>3, <2>5, ReturnPasses, Zenon
  <2>6. CASE task' = [task EXCEPT ![t].pc = "done", ![t].res = r]
    BY <2>1, <2>3, <2>6, ResultPasses, Zenon
  <2> QED
    BY <2>4, <2>5, <2>6, Zenon
<1>4. ASSUME NEW p \in {"lookupHot", "recheckHot", "do", "load"}, Goto(t, p)
      PROVE  \A u \in Tasks : Passes(t, u)
  BY <1>4, GotoPasses, Zenon
<1> QED
  BY <1>2, <1>3, <1>4, Zenon

\* wg.Done: the duplicates take the leader's result.
LEMMA DonePasses ==
  ASSUME IndInv, Served, Reads, NEW t \in Tasks, LeaderDone(t)
  PROVE  \A u \in Tasks : Passes(t, u)
<1> DEFINE r == IF task[t].res.st = "panic" THEN NewFlight.res ELSE task[t].res
<1>1. task[t].pc = "done"
  BY Zenon DEF LeaderDone
<1>2. task' = [u \in Tasks |->
                 IF u = t THEN [task[t] EXCEPT !.pc = "delete"]
                 ELSE IF /\ task[u].pc = "wait" /\ task[u].op = task[t].op
                         /\ task[u].node = task[t].node /\ task[u].key = task[t].key
                      THEN [task[u] EXCEPT !.pc = "wake", !.res = r]
                      ELSE task[u]]
  BY Zenon DEF LeaderDone
<1>3. r.st = "ok" => r = task[t].res
  BY Zenon DEF NewFlight, Res
<1> HIDE DEF r
<1>4. task \in [Tasks -> Task]
  BY Zenon DEF IndInv, TaskOK
<1>5. ASSUME NEW u \in Tasks PROVE Passes(t, u)
  <2>1. task[u] \in Task
    BY <1>4, Zenon
  <2>2. CASE u = t
    <3>1. task'[u] = [task[u] EXCEPT !.pc = "delete"]
      BY <1>2, <2>2, Zenon
    <3>2. /\ task'[u].op = task[u].op /\ task'[u].node = task[u].node
          /\ task'[u].key = task[u].key /\ task'[u].res = task[u].res
          /\ task'[u].parent = task[u].parent /\ task'[u].seen = task[u].seen
          /\ task'[u].pc = "delete"
      BY <2>1, <3>1, ZenonT(60) DEF Task
    <3>3. Bears(task'[u]) => Bears(task[u])
      BY <1>1, <2>2, <3>2, Zenon DEF Bears
    <3> QED
      BY <2>2, <3>2, <3>3, StillPasses, Zenon
  <2>3. CASE /\ u # t /\ task[u].pc = "wait" /\ task[u].op = task[t].op
             /\ task[u].node = task[t].node /\ task[u].key = task[t].key
    <3>1. task'[u] = [task[u] EXCEPT !.pc = "wake", !.res = r]
      BY <1>2, <2>3, Zenon
    <3>2. /\ task'[u].op = task[u].op /\ task'[u].node = task[u].node
          /\ task'[u].key = task[u].key /\ task'[u].res = r
          /\ task'[u].pc = "wake" /\ task'[u].parent = task[u].parent
          /\ task'[u].seen = task[u].seen
      BY <2>1, <3>1, ZenonT(60) DEF Task
    <3>3. ASSUME Bears(task'[u])
          PROVE  Afloat(task'[u].key, task'[u].res.ver)
      <4>1. /\ r = task[t].res /\ task[t].res.st = "ok" /\ task[t].op = "get"
            /\ task[u].parent # Nil
        BY <1>3, <2>3, <3>2, <3>3, Zenon DEF Bears
      <4>2. task[t].node = Master(task[t].key)
        BY <2>3, <4>1, Zenon DEF Served
      <4>3. Bears(task[t])
        BY <1>1, <4>1, <4>2, Zenon DEF Bears
      <4>4. Afloat(task[t].key, task[t].res.ver)
        BY <4>3, Zenon DEF Afloat, Carried
      <4> QED
        BY <2>3, <3>2, <4>1, <4>4, Zenon
    <3>4. task[u].op \in {"none", "get"}
      BY <2>3, Zenon DEF Reads
    <3> QED
      BY <3>2, <3>3, <3>4, Zenon DEF Passes, Brings, Reader
  <2>4. CASE task'[u] = task[u]
    BY <2>4, SamePasses, Zenon
  <2> QED
    BY <1>2, <2>2, <2>3, <2>4, Zenon
<1> QED
  BY <1>5, Zenon

\* The ends of a call: what it answers was afloat.
LEMMA EndPasses ==
  ASSUME IndInv, GetterInv, Served, NEW t \in Tasks,
         DoJoinLate(t) \/ LeaderReturn(t) \/ DuplicateReturn(t) \/ RemoveKeysReturn(t)
  PROVE  \A u \in Tasks : Passes(t, u)
<1>1. task[t].parent # Nil => task[t].op = "get" /\ task[t].node = Master(task[t].key)
  BY Zenon DEF GetterInv, Asking, Served
<1>2. CASE DoJoinLate(t)
  <2>1. Flight(t).state = "done" /\ Return(t, Flight(t).res)
    BY <1>2, Zenon DEF DoJoinLate
  <2>2. task[t].parent # Nil /\ Flight(t).res.st = "ok" => Afloat(task[t].key, Flight(t).res.ver)
    BY <1>1, <2>1, Zenon DEF Afloat, Ended, Flight
  <2> QED
    BY <2>1, <2>2, ReturnPasses, Zenon
<1>3. CASE LeaderReturn(t) \/ DuplicateReturn(t)
  <2>1. task[t].pc \in {"delete", "wake"} /\ Return(t, task[t].res)
    BY <1>3, Zenon DEF LeaderReturn, DuplicateReturn
  <2>2. task[t].parent # Nil /\ task[t].res.st = "ok" => Bears(task[t])
    BY <1>1, <2>1, Zenon DEF Bears
  <2>3. task[t].parent # Nil /\ task[t].res.st = "ok" => Afloat(task[t].key, task[t].res.ver)
    BY <2>2, Zenon DEF Afloat, Carried
  <2> QED
    BY <2>1, <2>3, ReturnPasses, Zenon
<1>4. CASE RemoveKeysReturn(t)
  <2>1. task[t].op = "removekeys" /\ Return(t, Res(task[t].sent, 0))
    BY <1>4, Zenon DEF RemoveKeysReturn, At
  <2> QED
    BY <1>1, <2>1, ReturnPasses, Zenon
<1> QED
  BY <1>2, <1>3, <1>4, Zenon

\* Requests to a peer.
LEMMA AskPasses ==
  ASSUME IndInv, GetterInv, Steady, Reads, NEW t \in Tasks,
         LoadFromPeer(t) \/ \E st \in {"net", "ctx"} : PeerUnreachable(t, st) \/ ReplyLost(t, st)
  PROVE  \A u \in Tasks : Passes(t, u)
<1>0. task \in [Tasks -> Task]
  BY Zenon DEF IndInv, TaskOK
<1>1. CASE LoadFromPeer(t)
  <2> DEFINE n == task[t].node
             k == task[t].key
             free == {h \in Handlers : task[h].pc = "idle"}
  <2>1. /\ task[t].pc = "load" /\ free # {}
        /\ task' = [task EXCEPT ![t].pc = "rpc",
                                ![CHOOSE h \in free : TRUE] = GetTask(Owner(peers[n], k), k, t)]
    BY <1>1, Zenon DEF LoadFromPeer
  <2>2. PICK h \in Handlers :
          /\ task[h].pc = "idle"
          /\ task' = [task EXCEPT ![t].pc = "rpc", ![h] = GetTask(Owner(peers[n], k), k, t)]
    <3>1. (CHOOSE h \in free : TRUE) \in free
      BY <2>1, Zenon
    <3> QED
      BY <2>1, <3>1, Zenon
  <2>3. h \in Tasks /\ h # t
    BY <2>1, <2>2, Zenon DEF Tasks
  <2>4. Form(task[t]) /\ Form(task[h]) /\ task[t] \in Task
    BY <1>0, <2>3, Zenon DEF IndInv, TaskOK, Formed
  <2>5. n \in Nodes /\ task[t].op = "get" /\ task[h].op = "none"
    BY <2>1, <2>2, <2>4, Zenon DEF Form, FormAt
  <2>6. Owner(peers[n], k) = Master(k)
    BY <2>5, Zenon DEF Steady, Master
  <2> DEFINE new == GetTask(Master(k), k, t)
             me == [task[t] EXCEPT !.pc = "rpc"]
  <2>7. /\ new.op = "get" /\ new.pc = "lookup" /\ new.seen = NoneSeen
        /\ new.node = Master(k) /\ new.key = k
    BY Zenon DEF GetTask, NoTask
  <2>8. /\ me.op = "get" /\ me.pc = "rpc" /\ me.seen = task[t].seen /\ me.node = n
        /\ me.key = k /\ me.parent = task[t].parent
    BY <2>4, <2>5, ZenonT(60) DEF Task
  <2>9. \A u \in Tasks : task'[u] = IF u = h THEN new ELSE IF u = t THEN me ELSE task[u]
    BY <1>0, <2>2, <2>3, <2>6, Zenon
  <2> HIDE DEF me, new, free
  <2>10. Passes(t, h)
    BY <2>3, <2>5, <2>7, <2>9, Zenon DEF Passes, Reader, Brings, Bears
  <2>11. Passes(t, t)
    BY <2>3, <2>5, <2>8, <2>9, Zenon DEF Passes, Reader, Brings, Bears
  <2> QED
    BY <2>9, <2>10, <2>11, SamePasses, Zenon
<1>2. ASSUME NEW st \in {"net", "ctx"}, PeerUnreachable(t, st)
      PROVE  \A u \in Tasks : Passes(t, u)
  <2> DEFINE r == Res(st, 0)
  <2>1. task' = [task EXCEPT ![t].pc = "reply", ![t].res = r]
    BY <1>2, Zenon DEF PeerUnreachable
  <2>2. r.st # "ok"
    BY ResParts, Zenon
  <2> HIDE DEF r
  <2> QED
    BY <2>1, <2>2, ResultPasses, Zenon
<1>3. ASSUME NEW st \in {"net", "ctx"}, ReplyLost(t, st)
      PROVE  \A u \in Tasks : Passes(t, u)
  <2> DEFINE r == Res(st, 0)
  <2>1. r.st # "ok"
    BY ResParts, Zenon
  <2>2. task' = [u \in Tasks |->
                   IF u = t THEN [task[t] EXCEPT !.pc = "reply", !.res = r]
                   ELSE IF task[u].parent = t THEN [task[u] EXCEPT !.parent = Nil]
                   ELSE task[u]]
    BY <1>3, Zenon DEF ReplyLost
  <2> HIDE DEF r
  <2>3. ASSUME NEW u \in Tasks PROVE Passes(t, u)
    <3>1. task[u] \in Task
      BY <1>0, Zenon
    <3>2. CASE u = t
      <4>1. task'[u] = [task[u] EXCEPT !.pc = "reply", !.res = r]
        BY <2>2, <3>2, Zenon
      <4>2. /\ task'[u].op = task[u].op /\ task'[u].node = task[u].node
            /\ task'[u].key = task[u].key /\ task'[u].parent = task[u].parent
            /\ task'[u].seen = task[u].seen /\ task'[u].pc = "reply" /\ task'[u].res = r
        BY <3>1, <4>1, ZenonT(60) DEF Task
      <4> QED
        BY <2>1, <3>2, <4>2, Zenon DEF Passes, Reader, Brings, Bears
    <3>3. CASE u # t /\ task[u].parent = t
      <4>1. task'[u] = [task[u] EXCEPT !.parent = Nil]
        BY <2>2, <3>3, Zenon
      <4>2. /\ task'[u].op = task[u].op /\ task'[u].node = task[u].node
            /\ task'[u].key = task[u].key /\ task'[u].res = task[u].res
            /\ task'[u].pc = task[u].pc /\ task'[u].parent = Nil
            /\ task'[u].seen = task[u].seen
        BY <3>1, <4>1, ZenonT(60) DEF Task
      <4>3. Bears(task'[u]) => Bears(task[u])
        BY <4>2, Zenon DEF Bears
      <4>4. task[u].op = "get"
        BY <3>3, TaskAssumption, Zenon DEF GetterInv, Asking, Tasks
      <4> QED
        BY <4>2, <4>3, <4>4, StillPasses, Zenon
    <3>4. CASE u # t /\ task[u].parent # t
      BY <2>2, <3>4, SamePasses, Zenon
    <3> QED
      BY <3>2, <3>3, <3>4, Zenon
  <2> QED
    BY <2>3, Zenon
<1> QED
  BY <1>1, <1>2, <1>3, Zenon

\* A write bears nothing.
LEMMA WritingPasses ==
  ASSUME IndInv, NEW t \in Tasks, Writing(t)
  PROVE  \A u \in Tasks : Passes(t, u)
<1>1. /\ task'[t].op # "get" /\ task[t].op \notin {"none", "get"}
      /\ \A u \in Tasks \ {t} : task'[u] = task[u]
  <2>1. /\ task'[t].op # "get"
        /\ \A u \in Tasks \ {t} : task'[u] = task[u]
    BY WritingKeeps, Zenon
  <2>2. task[t].pc \in {"pick", "owner", "here", "list", "fan", "rklist", "group", "rkhere"}
    BY ZenonT(60)
       DEF Writing, WritePick, WriteOwner, WriteOwnerFails, WriteHere, SetList, RemoveList,
           BroadcastEnd, RemoveKeysList, Broadcast, BroadcastFails, GroupByOwner,
           RemoveKeysHere, At
  <2>3. Form(task[t])
    BY Zenon DEF IndInv, TaskOK, Formed
  <2>4. task[t].op \notin {"none", "get"}
    BY <2>2, <2>3, ZenonT(60) DEF Form, FormAt
  <2> QED
    BY <2>1, <2>4, Zenon
<1>2. Passes(t, t)
  BY <1>1, Zenon DEF Passes, Brings, Bears
<1> QED
  BY <1>1, <1>2, SamePasses, Zenon

\* A load on the node itself.
LEMMA LoadPasses ==
  ASSUME IndInv, NEW t \in Tasks,
         \/ DoLead(t) \/ DoJoin(t) \/ LoadHere(t) \/ PeerValue(t) \/ PeerError(t)
         \/ RunGetter(t) \/ PopulateMain(t)
  PROVE  \A u \in Tasks : Passes(t, u)
<1>1. CASE DoLead(t) \/ DoJoin(t) \/ LoadHere(t)
  <2>1. \E p \in {"recheck", "pick", "wait", "local"} : Goto(t, p)
    BY <1>1, Zenon DEF DoLead, DoJoin, LoadHere
  <2> QED
    BY <2>1, GotoPasses, Zenon
<1>2. CASE PeerValue(t) \/ PopulateMain(t)
  <2>1. Form(task[t])
    BY Zenon DEF IndInv, TaskOK, Formed
  <2>2. /\ Goto(t, "done")
        /\ task[t].pc = "fill" \/ (task[t].pc = "reply" /\ task[t].res.st = "ok")
    BY <1>2, Zenon DEF PeerValue, PopulateMain
  <2>3. Bears(task[t])
    BY <2>1, <2>2, Zenon DEF Form, FormAt, Bears
  <2> QED
    BY <2>2, <2>3, GotoPasses, Zenon
<1>3. CASE PeerError(t)
  <2>1. task[t].res.st # "ok" /\ \E p \in {"local", "done"} : Goto(t, p)
    BY <1>3, Zenon DEF PeerError
  <2> QED
    BY <2>1, GotoPasses, Zenon
<1>4. CASE RunGetter(t)
  <2>1. \/ task' = [task EXCEPT ![t].pc = "fill", ![t].res = Res("ok", src[task[t].key])]
        \/ \E o : o # "ok" /\ Finish(t, Res(o, 0))
    BY <1>4, Zenon DEF RunGetter
  <2>2. CASE task' = [task EXCEPT ![t].pc = "fill", ![t].res = Res("ok", src[task[t].key])]
    <3> DEFINE r == Res("ok", src[task[t].key])
    <3>1. r.ver = src[task[t].key] /\ task' = [task EXCEPT ![t].pc = "fill", ![t].res = r]
      BY <2>2, ResParts, SMTT(30)
    <3> HIDE DEF r
    <3> QED
      BY <3>1, ResultPasses, Zenon
  <2>3. ASSUME NEW o, o # "ok", Finish(t, Res(o, 0))
        PROVE  \A u \in Tasks : Passes(t, u)
    <3> DEFINE r == Res(o, 0)
    <3>1. r.st # "ok" /\ task' = [task EXCEPT ![t].pc = "done", ![t].res = r]
      BY <2>3, ResParts, Zenon DEF Finish
    <3> HIDE DEF r
    <3> QED
      BY <3>1, ResultPasses, Zenon
  <2> QED
    BY <2>1, <2>2, <2>3, Zenon
<1> QED
  BY <1>1, <1>2, <1>3, <1>4, Zenon

\* Every goroutine.
LEMMA TasksPass ==
  ASSUME IndInv, GetterInv, Served, Steady, Reads, NEW t \in Tasks, Step(t) \/ Fault(t)
  PROVE  \A u \in Tasks : Passes(t, u)
BY LookupPasses, DonePasses, EndPasses, AskPasses, WritingPasses, LoadPasses, ZenonT(60)
   DEF Step, Fault, Writing

\* How a call begins.
Begins(s) ==
  /\ s.op \in {"get", "set", "remove", "removekeys"}
  /\ s.pc \in {"lookup", "do", "group"}
  /\ s.parent = Nil /\ s.pend = {} /\ s.sent = "ok"
  /\ \A k \in Keys : s.seen[k] <= src[k]
  /\ s.op = "get" => s.seen = NoneSeen
  /\ s.op \in {"set", "remove"} =>
       /\ s.pc = "do" /\ s.keys = {} /\ s.key \in Keys /\ s.seen[s.key] = src[s.key]
  /\ s.op = "removekeys" => s.pc = "group" /\ s.key = Nil /\ s.todo = s.keys

\* A caller enters the API and touches nothing else.
LEMMA StartFields ==
  ASSUME IndInv, NEW p \in Procs, StartOp(p)
  PROVE  /\ p \in Tasks /\ task[p].op = "none"
         /\ \A u \in Tasks \ {p} : task'[u] = task[u]
         /\ Begins(task'[p]) /\ task'[p].op \in Ops[p]
         /\ UNCHANGED <<src, main, hot, flight, late, floor, raced>>
<1>1. p \in Tasks
  BY Zenon DEF Tasks
<1>2. task \in [Tasks -> Task] /\ Form(task[p])
  BY <1>1, Zenon DEF IndInv, TaskOK, Formed
<1>3. \A k \in Keys : src[k] \in Nat /\ 0 <= src[k]
  BY DEF IndInv, DataOK, Version
<1>4. ASSUME NEW op, NEW n, NEW rec, Start(p, op, n, rec), Begins(rec), rec.op = op
      PROVE  /\ task[p].op = "none"
             /\ \A u \in Tasks \ {p} : task'[u] = task[u]
             /\ Begins(task'[p]) /\ task'[p].op \in Ops[p]
             /\ UNCHANGED <<src, main, hot, flight, late, floor, raced>>
  <2>1. /\ task[p].pc = "idle" /\ op \in Ops[p] /\ task' = [task EXCEPT ![p] = rec]
        /\ UNCHANGED <<src, main, hot, flight, late, floor, raced>>
    BY <1>4, Zenon DEF Start, Quiet
  <2>2. task[p].op = "none"
    BY <1>2, <2>1, Zenon DEF Form, FormAt
  <2>3. task'[p] = rec /\ \A u \in Tasks \ {p} : task'[u] = task[u]
    BY <1>1, <1>2, <2>1, Zenon
  <2> QED
    BY <1>4, <2>1, <2>2, <2>3, Zenon
<1>5. ASSUME NEW n, NEW k \in Keys PROVE Begins(GetTask(n, k, Nil)) /\ GetTask(n, k, Nil).op = "get"
  BY <1>3, Zenon DEF GetTask, NoTask, NoneSeen, Begins
<1>6. ASSUME NEW n, NEW k \in Keys, NEW op \in {"set", "remove"}
      PROVE  Begins(WriteTask(op, n, k)) /\ WriteTask(op, n, k).op = op
  BY <1>3 DEF WriteTask, NoTask, NoneSeen, Begins
<1>7. ASSUME NEW n, NEW K, StartRemoveKeys(p, n, K)
      PROVE  \E rec : Start(p, "removekeys", n, rec) /\ Begins(rec) /\ rec.op = "removekeys"
  <2> DEFINE rec == [NoTask EXCEPT !.op = "removekeys", !.node = n, !.keys = K, !.todo = K,
                                   !.seen = [k \in Keys |-> IF k \in K THEN src[k] ELSE 0],
                                   !.pc = "group"]
  <2>1. Start(p, "removekeys", n, rec)
    BY <1>7, Zenon DEF StartRemoveKeys
  <2>2. Begins(rec) /\ rec.op = "removekeys"
    BY <1>3 DEF NoTask, NoneSeen, Begins
  <2> QED
    BY <2>1, <2>2, Zenon
<1>8. \E op, n, rec : Start(p, op, n, rec) /\ Begins(rec) /\ rec.op = op
  <2>1. PICK n \in Nodes :
          \/ \E k \in Keys : \/ StartGet(p, n, k) \/ StartSet(p, n, k)
                             \/ StartRemove(p, n, k)
          \/ \E K \in SUBSET Keys : StartRemoveKeys(p, n, K)
    BY Zenon DEF StartOp
  <2>2. ASSUME NEW k \in Keys, StartGet(p, n, k)
        PROVE  \E op, m, rec : Start(p, op, m, rec) /\ Begins(rec) /\ rec.op = op
    BY <1>5, <2>2, Zenon DEF StartGet
  <2>3. ASSUME NEW k \in Keys, StartSet(p, n, k)
        PROVE  \E op, m, rec : Start(p, op, m, rec) /\ Begins(rec) /\ rec.op = op
    BY <1>6, <2>3, Zenon DEF StartSet
  <2>4. ASSUME NEW k \in Keys, StartRemove(p, n, k)
        PROVE  \E op, m, rec : Start(p, op, m, rec) /\ Begins(rec) /\ rec.op = op
    BY <1>6, <2>4, Zenon DEF StartRemove
  <2> QED
    BY <1>7, <2>1, <2>2, <2>3, <2>4, Zenon
<1> QED
  BY <1>1, <1>4, <1>8, Zenon

\* No step makes up a version: what a reader may be given, or a cache holds,
\* was there before, is the source's, or is being set.
LEMMA NextFlow ==
  ASSUME IndInv, GetterInv, Served, Steady, Reads, Sends(task[Writer]), [Next]_vars,
         NEW n \in Nodes, NEW k \in Keys, NEW x
  PROVE  /\ Afloat(k, x)' => Fed(k, x)
         /\ x \in Copies(n, k)' => x \in Copies(n, k) \/ Fed(k, x)
<1>0. Master(k) \in Nodes
  BY OwnerNearest, Zenon DEF Master
<1> DEFINE Goal == /\ Afloat(k, x)' => Fed(k, x)
                   /\ x \in Copies(n, k)' => x \in Copies(n, k) \/ Fed(k, x)
<1>1. ASSUME \A m \in Nodes : x \in Copies(m, k)' => x \in Copies(m, k) \/ Fed(k, x),
             Carried(k, x)' => Fed(k, x), Ended(k, x)' => Fed(k, x),
             Delayed(k, x)' => Fed(k, x)
      PROVE  Goal
  <2>1. x \in Copies(Master(k), k)' => Fed(k, x)
    BY <1>0, <1>1, Zenon DEF Fed, Afloat
  <2> QED
    BY <1>1, <2>1, Zenon DEF Afloat
<1>2. ASSUME \A u \in Tasks : Brings(task'[u])
      PROVE  Carried(k, x)' => Fed(k, x)
  BY <1>2, Zenon DEF Carried, Brings, Fed
<1>3. ASSUME late' = late PROVE Delayed(k, x)' => Fed(k, x)
  BY <1>3, Zenon DEF Delayed, Fed, Afloat
<1>4. ASSUME flight' = flight PROVE Ended(k, x)' => Fed(k, x)
  BY <1>4, Zenon DEF Ended, Fed, Afloat
<1>5. ASSUME main' = main, hot' = hot
      PROVE  \A m \in Nodes : x \in Copies(m, k)' => x \in Copies(m, k) \/ Fed(k, x)
  BY <1>5, Zenon DEF Copies
<1>6. ASSUME NEW t \in Tasks, Step(t) \/ Fault(t)
      PROVE  Goal
  <2>1. Frame(t)
    BY <1>6, GoroutineFrame, Zenon
  <2>2. \A u \in Tasks : Brings(task'[u])
    BY <1>6, TasksPass, Zenon DEF Passes
  <2>3. \A m \in Nodes : x \in Copies(m, k)' => x \in Copies(m, k) \/ Fed(k, x)
    <3>1. CASE CacheStep(t)
      BY <3>1, CopiesFlow, Zenon DEF Fed, Afloat
    <3> QED
      BY <1>5, <2>1, <3>1, Zenon DEF Frame
  <2>4. Ended(k, x)' => Fed(k, x)
    <3>1. CASE DoLead(t) \/ LeaderDone(t) \/ LeaderReturn(t)
      BY <1>0, <3>1, EndedFlow, Zenon DEF Fed, Afloat
    <3> QED
      BY <1>4, <2>1, <3>1, Zenon DEF Frame
  <2>5. Delayed(k, x)' => Fed(k, x)
    <3>1. CASE Losing(t)
      BY <3>1, LateFlow, Zenon DEF Fed, Afloat
    <3> QED
      BY <1>3, <2>1, <3>1, Zenon DEF Frame
  <2> QED
    BY <1>1, <1>2, <2>2, <2>3, <2>4, <2>5, Zenon
<1>7. ASSUME NEW p \in Procs, StartOp(p)
      PROVE  Goal
  <2>1. /\ \A u \in Tasks \ {p} : task'[u] = task[u]
        /\ Begins(task'[p])
        /\ main' = main /\ hot' = hot /\ flight' = flight /\ late' = late
    BY <1>7, StartFields, Zenon
  <2>2. Brings(task'[p])
    BY <2>1, Zenon DEF Begins, Brings, Bears
  <2>3. \A u \in Tasks : Brings(task'[u])
    BY <2>1, <2>2, SameBrings, Zenon
  <2> QED
    BY <1>1, <1>2, <1>3, <1>4, <1>5, <2>1, <2>3, Zenon
<1>8. ASSUME task' = task, flight' = flight, late' = late,
             \A m \in Nodes : x \in Copies(m, k)' => x \in Copies(m, k)
      PROVE  Goal
  <2>1. \A u \in Tasks : Brings(task'[u])
    BY <1>8, SameBrings, Zenon
  <2> QED
    BY <1>1, <1>2, <1>3, <1>4, <1>8, <2>1, Zenon
<1>9. ASSUME NEW msg \in late, DeliverLate(msg)
      PROVE  Goal
  <2>1. Apply(msg) /\ late' \subseteq late /\ task' = task /\ flight' = flight
    BY <1>9, Zenon DEF DeliverLate
  <2>2. msg.op \in {"set", "remove", "removekeys"}
    BY Zenon DEF IndInv, DataOK, Message
  <2>3. Puts(msg.to, msg.keys, IF msg.op = "set" THEN msg.ver ELSE 0)
    BY <2>1, <2>2, ApplyPuts, SMTT(30)
  <2>4. ASSUME NEW m \in Nodes, x \in Copies(m, k)'
        PROVE  x \in Copies(m, k) \/ Fed(k, x)
    <3> DEFINE v == IF msg.op = "set" THEN msg.ver ELSE 0
    <3>1. x \in Copies(m, k) \/ (k \in msg.keys /\ x = v /\ v # 0)
      BY <2>3, <2>4, PutCopies, SMTT(30)
    <3>2. k \in msg.keys /\ x = v /\ v # 0 => Delayed(k, x)
      BY Zenon DEF Delayed
    <3> QED
      BY <3>1, <3>2, Zenon DEF Fed, Afloat
  <2>5. Delayed(k, x)' => Fed(k, x)
    BY <2>1, Zenon DEF Delayed, Fed, Afloat
  <2>6. \A u \in Tasks : Brings(task'[u])
    BY <2>1, SameBrings, Zenon
  <2> QED
    BY <1>1, <1>2, <1>4, <2>1, <2>4, <2>5, <2>6, Zenon
<1>10. ASSUME NEW m \in Nodes, NEW S \in SUBSET Nodes, SetPeers(m, S)
       PROVE  Goal
  BY <1>8, <1>10, Zenon DEF SetPeers, Copies
<1>11. ASSUME NEW q \in Keys, WriteSource(q)
       PROVE  Goal
  BY <1>8, <1>11, Zenon DEF WriteSource, Quiet, Caches, Copies
<1>12. ASSUME NEW m \in Nodes, NEW q \in Keys, Evict(m, q)
       PROVE  Goal
  <2>1. main \in [Nodes -> [Keys -> Version]] /\ hot \in [Nodes -> [Keys -> Version]]
    BY Zenon DEF IndInv, DataOK
  <2>2. task' = task /\ flight' = flight /\ late' = late
    BY <1>12, Zenon DEF Evict, Quiet
  <2>3. \A j \in Nodes : main'[j][k] \in {main[j][k], 0} /\ hot'[j][k] \in {hot[j][k], 0}
    <3>1. CASE main' = [main EXCEPT ![m][q] = 0] /\ hot' = hot
      BY <2>1, <3>1, Zenon
    <3>2. CASE hot' = [hot EXCEPT ![m][q] = 0] /\ main' = main
      BY <2>1, <3>2, Zenon
    <3> QED
      BY <1>12, <3>1, <3>2, Zenon DEF Evict
  <2>4. \A j \in Nodes : x \in Copies(j, k)' => x \in Copies(j, k)
    BY <2>3, Zenon DEF Copies
  <2> QED
    BY <1>8, <2>2, <2>4, Zenon
<1>13. CASE UNCHANGED vars
  BY <1>8, <1>13, Zenon DEF vars, Copies
<1>14. ASSUME NEW p, NEW m, GetNilDest(p, m)
       PROVE  Goal
  BY <1>8, <1>14, NilDestFrame, Zenon DEF Copies
<1> QED
  BY <1>6, <1>7, <1>9, <1>10, <1>11, <1>12, <1>13, <1>14, ZenonT(60) DEF Next, Proceed

-------------------------------------------------------------------------------
(* When a write takes effect *)

\* With no load of k under way and no request held back, the write replaces
\* all there is of k.
LEMMA Effect ==
  ASSUME IndInv, GetterInv, NEW t \in Tasks, Writing(t), NEW k \in Keys, NEW K, k \in K,
         Overlapped(t, K), k \notin raced', late' = late, Master(k) \in Nodes,
         NEW v, Puts(Master(k), K, v), NEW x, Afloat(k, x)'
  PROVE  x = v /\ v # 0
<1>1. /\ flight' = flight /\ task'[t].op # "get"
      /\ \A u \in Tasks \ {t} : task'[u] = task[u]
  BY WritingKeeps, Zenon
<1>2. /\ \A n \in Nodes : flight["get"][n][k].state = "none"
      /\ \A msg \in late : k \notin msg.keys
  BY Zenon DEF Overlapped
<1>3. ~ Delayed(k, x)' /\ ~ Ended(k, x)'
  BY <1>1, <1>2, Zenon DEF Delayed, Ended
<1>4. ASSUME NEW u \in Tasks, Leads(task[u]), task[u].key = k PROVE FALSE
  <2>1. task[u].node \in Nodes
    BY <1>4, Place, Zenon
  <2>2. flight["get"][task[u].node][k].state = Stage(task[u])
    BY <1>4, Zenon DEF GetterInv, LeaderRegistered, Registered
  <2> QED
    BY <1>2, <2>1, <2>2, Zenon DEF Stage
<1>5. ASSUME NEW u \in Tasks, Bears(task[u]), task[u].key = k PROVE FALSE
  <2>1. CASE task[u].pc \in {"reply", "fill", "done", "delete"}
    BY <1>4, <1>5, <2>1, Zenon DEF Bears, Leads
  <2>2. CASE task[u].pc = "wake" /\ task[u].parent # Nil
    <3>1. PICK q \in Tasks : task[q].pc = "rpc" /\ task[q].key = k
      BY <1>5, <2>2, Zenon DEF IndInv, Forwarding, Descends
    <3>2. task[q].op = "get"
      BY <3>1, Zenon DEF IndInv, TaskOK, Formed, Form, FormAt
    <3> QED
      BY <1>4, <3>1, <3>2, Zenon DEF Leads
  <2> QED
    BY <1>5, <2>1, <2>2, Zenon DEF Bears
<1>6. ~ Carried(k, x)'
  <2>1. ASSUME NEW u \in Tasks, Bears(task'[u]), task'[u].key = k PROVE FALSE
    <3>1. u # t
      BY <1>1, <2>1, Zenon DEF Bears
    <3> QED
      BY <1>1, <1>5, <2>1, <3>1, Zenon
  <2> QED
    BY <2>1, Zenon DEF Carried
<1>7. x \in Copies(Master(k), k)'
  BY <1>3, <1>6, Zenon DEF Afloat
<1> QED
  BY <1>7, PutCopies, Zenon

-------------------------------------------------------------------------------
(* The writer *)

\* Set, Remove and RemoveKeys, alone in their flights: the owner comes first,
\* and RemoveKeys has a request for the owner of each key it grouped.
Orderly(r) ==
  /\ Sends(r)
  /\ r.op \in {"set", "remove"} =>
       /\ r.pc \in {"do", "pick", "owner", "here", "list", "fan", "done", "delete"}
       /\ r.keys = {} /\ r.key \in Keys
       /\ r.pc \in {"owner", "here", "list"} => r.owner = Master(r.key) /\ r.ogen = 0
  /\ r.op = "removekeys" =>
       /\ r.pc \in {"group", "rkhere", "rklist", "fan"}
       /\ r.key = Nil
       /\ \A k \in r.keys :
            /\ r.node # Master(k)
            /\ r.pc \in {"rkhere", "rklist"} \/ (r.pc = "group" /\ k \notin r.todo)
            => \E msg \in r.pend : msg.to = Master(k) /\ k \in msg.keys

\* Goroutine r is in the flight of group g for k on node n.
Within(r, g, n, k) == r.op = g /\ r.node = n /\ r.key = k /\ r.pc # "do"

\* The flights of setGroup and removeGroup are the writer's.
OwnFlights ==
  \A g \in {"set", "remove"}, n \in Nodes, k \in Keys :
    flight[g][n][k].state # "none" => Within(task[Writer], g, n, k)

\* A write is made for a version the source has, and for no older one than the
\* writes before it.
Levels ==
  \A k \in Keys :
    LET r == task[Writer] IN
    /\ r.seen[k] <= src[k]
    /\ \A c \in {"one", "many"} :
         floor[c][k] <= src[k] /\ (r.op = "set" /\ r.key = k => floor[c][k] <= r.seen[k])

Control == Served /\ Reads /\ Orderly(task[Writer]) /\ OwnFlights /\ Levels

\* The write r has reached the owner of k.
Landed(r, k) ==
  \/ /\ r.op \in {"set", "remove"} /\ r.key = k
     /\ \/ r.pc \in {"list", "fan"}
        \/ r.pc = "here" /\ r.owner # r.node
        \/ r.pc \in {"done", "delete"} /\ r.res.st = "ok"
  \/ /\ r.op = "removekeys" /\ k \in r.keys /\ r.node = Master(k)
     /\ r.pc \in {"rklist", "fan"} \/ (r.pc = "rkhere" /\ k \notin r.todo)
  \/ /\ r.op = "removekeys" /\ k \in r.keys /\ r.node # Master(k)
     /\ r.pc = "fan" /\ r.sent = "ok"
     /\ \A msg \in r.pend : ~ (msg.to = Master(k) /\ k \in msg.keys)

\* The Set or Remove r of k has reached node n.
Reached(r, n, k) ==
  /\ r.op \in {"set", "remove"} /\ r.key = k
  /\ \/ r.pc = "list" /\ n = r.node
     \/ r.pc = "fan" /\ r.sent = "ok" /\ \A msg \in r.pend : msg.to # n
     \/ r.pc \in {"done", "delete"} /\ r.res.st = "ok" /\ r.sent = "ok"

\* Nothing older than version v of k is left for readers, or on node n.
Above(k, v) == \A x \in Version : Afloat(k, x) => x >= v
CopiesAbove(n, k, v) == \A x \in Copies(n, k) : x >= v

Current(k) ==
  LET r == task[Writer] IN
  /\ Landed(r, k) => Above(k, r.seen[k])
  /\ \A n \in Nodes : Reached(r, n, k) => CopiesAbove(n, k, r.seen[k])
  /\ Above(k, floor["one"][k])
  /\ \A n \in Nodes : CopiesAbove(n, k, floor["one"][k])
  /\ Above(k, floor["many"][k])

\* The inductive invariant.
WriteInv == Steady => Control /\ \A k \in Keys \ raced : Current(k)

-------------------------------------------------------------------------------
(* Versions do not sink *)

\* A step leaves nothing older than v if there was nothing older, and neither
\* the source nor the writer's Set is.
LEMMA Rises ==
  ASSUME IndInv, IndInv', GetterInv, Steady, Control, [Next]_vars, NEW n \in Nodes, NEW k \in Keys,
         NEW v \in Nat, v <= src[k], \A x : Setting(k, x) => x >= v, Above(k, v)
  PROVE  /\ \A x \in Version : Afloat(k, x)' => x >= v
         /\ CopiesAbove(n, k, v) => \A x \in Copies(n, k)' : x >= v
<1>1. ASSUME NEW x \in Version
      PROVE  /\ Afloat(k, x)' => Fed(k, x)
             /\ x \in Copies(n, k)' => x \in Copies(n, k) \/ Fed(k, x)
  BY NextFlow, Zenon DEF Control, Orderly
<1>2. src[k] >= v
  BY Zenon DEF IndInv, DataOK, Version
<1>3. ASSUME NEW x \in Version, Fed(k, x) PROVE x >= v
  BY <1>2, <1>3, Zenon DEF Fed, Above
<1>4. Copies(n, k)' \subseteq Version
  <2>1. main' \in [Nodes -> [Keys -> Version]] /\ hot' \in [Nodes -> [Keys -> Version]]
    BY Zenon DEF IndInv, DataOK
  <2> QED
    BY <2>1, SMTT(30) DEF Copies
<1> QED
  BY <1>1, <1>3, <1>4, Zenon DEF CopiesAbove

\* The writer's record, and what it was made for.
LEMMA WriterSeen ==
  ASSUME OneWriter, IndInv, NEW k \in Keys
  PROVE  /\ task[Writer] \in Task /\ Form(task[Writer])
         /\ task[Writer].seen[k] \in Nat /\ src[k] \in Nat
         /\ \A c \in {"one", "many"} : floor[c][k] \in Nat
<1>1. task[Writer] \in Task /\ Form(task[Writer])
  BY WriterTask, Zenon DEF IndInv, TaskOK, Formed
<1>2. task[Writer].seen \in [Keys -> Version]
  BY <1>1, Zenon DEF Task
<1>3. Version \subseteq Nat
  BY SMTT(30) DEF Version
<1>4. src \in [Keys -> Version] /\ floor \in [{"one", "many"} -> [Keys -> Version]]
  BY Zenon DEF IndInv, DataOK
<1> QED
  BY <1>1, <1>2, <1>3, <1>4, Zenon

\* What the invariant says of a write that has landed, and of the writes that
\* were acknowledged, carries over.
LEMMA CurrentRises ==
  ASSUME OneWriter, IndInv, IndInv', GetterInv, Steady, Control, [Next]_vars,
         NEW n \in Nodes, NEW k \in Keys, Current(k)
  PROVE  /\ Landed(task[Writer], k) =>
              \A x \in Version : Afloat(k, x)' => x >= task[Writer].seen[k]
         /\ Reached(task[Writer], n, k) =>
              \A x \in Copies(n, k)' : x >= task[Writer].seen[k]
         /\ \A x \in Version : Afloat(k, x)' => x >= floor["one"][k]
         /\ \A x \in Copies(n, k)' : x >= floor["one"][k]
         /\ \A x \in Version : Afloat(k, x)' => x >= floor["many"][k]
<1> DEFINE r == task[Writer]
<1>1. r.seen[k] \in Nat /\ src[k] \in Nat /\ floor["one"][k] \in Nat /\ floor["many"][k] \in Nat
  BY WriterSeen, Zenon
<1>2. r.seen[k] <= src[k] /\ \A x : Setting(k, x) => x >= r.seen[k]
  BY <1>1, SMTT(30) DEF Control, Levels, Setting
<1>3. ASSUME NEW c \in {"one", "many"}
      PROVE  floor[c][k] <= src[k] /\ \A x : Setting(k, x) => x >= floor[c][k]
  BY <1>1, <1>3, Zenon DEF Control, Levels, Setting
<1>4. ASSUME Landed(r, k)
      PROVE  /\ \A x \in Version : Afloat(k, x)' => x >= r.seen[k]
             /\ CopiesAbove(n, k, r.seen[k]) => \A x \in Copies(n, k)' : x >= r.seen[k]
  BY <1>1, <1>2, <1>4, Rises, Zenon DEF Current
<1>5. ASSUME NEW c \in {"one", "many"}
      PROVE  /\ \A x \in Version : Afloat(k, x)' => x >= floor[c][k]
             /\ CopiesAbove(n, k, floor[c][k]) => \A x \in Copies(n, k)' : x >= floor[c][k]
  BY <1>1, <1>3, <1>5, Rises, Zenon DEF Current
<1>6. Reached(r, n, k) => Landed(r, k)
  BY Zenon DEF Reached, Landed
<1> QED
  BY <1>4, <1>5, <1>6, Zenon DEF Current

\* A key stays current when what lands or is acknowledged is: the step puts it
\* there, or it was there.
LEMMA CurrentKept ==
  ASSUME OneWriter, IndInv, IndInv', GetterInv, Steady, Control, [Next]_vars,
         NEW k \in Keys, Current(k), Nodes # {},
         Landed(task'[Writer], k) =>
           \/ Landed(task[Writer], k) /\ task'[Writer].seen = task[Writer].seen
           \/ \A x \in Version : Afloat(k, x)' => x >= task'[Writer].seen[k],
         \A n \in Nodes : Reached(task'[Writer], n, k) =>
           \/ Reached(task[Writer], n, k) /\ task'[Writer].seen = task[Writer].seen
           \/ \A x \in Copies(n, k)' : x >= task'[Writer].seen[k],
         \/ floor'["one"][k] = floor["one"][k]
         \/ /\ floor'["one"][k] = task[Writer].seen[k]
            /\ \A n \in Nodes : Reached(task[Writer], n, k),
         \/ floor'["many"][k] = floor["many"][k]
         \/ floor'["many"][k] = task[Writer].seen[k] /\ Landed(task[Writer], k)
  PROVE  Current(k)'
<1> DEFINE r == task[Writer]
           s == task'[Writer]
<1>1. ASSUME NEW n \in Nodes
      PROVE  /\ Landed(r, k) => \A x \in Version : Afloat(k, x)' => x >= r.seen[k]
             /\ Reached(r, n, k) => \A x \in Copies(n, k)' : x >= r.seen[k]
             /\ \A x \in Version : Afloat(k, x)' => x >= floor["one"][k]
             /\ \A x \in Copies(n, k)' : x >= floor["one"][k]
             /\ \A x \in Version : Afloat(k, x)' => x >= floor["many"][k]
  BY CurrentRises, Zenon
<1>2. ASSUME NEW n \in Nodes PROVE Reached(r, n, k) => Landed(r, k)
  BY Zenon DEF Reached, Landed
<1> HIDE DEF r, s
<1>3. Landed(s, k) => \A x \in Version : Afloat(k, x)' => x >= s.seen[k]
  BY <1>1, Zenon DEF r, s
<1>4. \A n \in Nodes : Reached(s, n, k) => \A x \in Copies(n, k)' : x >= s.seen[k]
  BY <1>1, Zenon DEF r, s
<1>5. \A x \in Version : Afloat(k, x)' => x >= floor'["one"][k]
  BY <1>1, <1>2, Zenon DEF r
<1>6. \A n \in Nodes : \A x \in Copies(n, k)' : x >= floor'["one"][k]
  BY <1>1, Zenon DEF r
<1>7. \A x \in Version : Afloat(k, x)' => x >= floor'["many"][k]
  BY <1>1, Zenon DEF r
<1> QED
  BY <1>3, <1>4, <1>5, <1>6, <1>7, Zenon DEF s, Current, Above, CopiesAbove

-------------------------------------------------------------------------------
(* Steps that are not the writer's *)

\* No node gets its list back.
LEMMA NextSteady ==
  ASSUME IndInv, [Next]_vars, Steady'
  PROVE  Steady
<1>1. peers \in [Nodes -> SUBSET Nodes] /\ gen \in [Nodes -> Nat]
  BY Zenon DEF IndInv, DataOK
<1>2. CASE peers' = peers /\ gen' = gen
  BY <1>2, Zenon DEF Steady
<1>3. ASSUME NEW n \in Nodes, NEW S, SetPeers(n, S) PROVE FALSE
  <2>1. gen' = [gen EXCEPT ![n] = @ + 1]
    BY <1>3, Zenon DEF SetPeers
  <2>2. gen'[n] = gen[n] + 1 /\ gen[n] \in Nat
    BY <1>1, <2>1, Zenon
  <2> QED
    BY <2>2, SMTT(30) DEF Steady
<1>4. CASE UNCHANGED vars
  BY <1>2, <1>4, Zenon DEF vars
<1>5. ASSUME NEW p \in Procs, StartOp(p) PROVE peers' = peers /\ gen' = gen
  BY <1>5, ZenonT(60) DEF StartOp, StartGet, StartSet, StartRemove, StartRemoveKeys, Start
<1>6. ASSUME NEW msg, DeliverLate(msg) PROVE peers' = peers /\ gen' = gen
  BY <1>6, Zenon DEF DeliverLate, Stay
<1>7. ASSUME NEW k, WriteSource(k) PROVE peers' = peers /\ gen' = gen
  BY <1>7, Zenon DEF WriteSource
<1>8. ASSUME NEW n, NEW k, Evict(n, k) PROVE peers' = peers /\ gen' = gen
  BY <1>8, Zenon DEF Evict, Stay
<1>9. ASSUME NEW p, NEW n, GetNilDest(p, n) PROVE peers' = peers /\ gen' = gen
  BY <1>9, NilDestFrame, Zenon
<1> QED
  BY <1>2, <1>3, <1>4, <1>5, <1>6, <1>7, <1>8, <1>9, GoroutineAges, ZenonT(60)
     DEF Next, Proceed

\* A goroutine that reads raises no floor.
LEMMA FloorKept ==
  ASSUME IndInv, NEW t \in Tasks, task[t].seen = NoneSeen, floor' = floor \/ \E q : Return(t, q)
  PROVE  \A c \in {"one", "many"}, k \in Keys : floor'[c][k] = floor[c][k]
<1>1. ASSUME NEW q, Return(t, q), NEW c \in {"one", "many"}, NEW k \in Keys
      PROVE  floor'[c][k] = floor[c][k]
  <2>1. task[t].seen[k] = 0
    BY Zenon DEF NoneSeen
  <2>2. floor[c][k] \in Nat
    BY <1>1, SMTT(30) DEF IndInv, DataOK, Version
  <2>3. floor'[c][k] = IF /\ q.st = "ok" /\ task[t].sent = "ok"
                          /\ k \in (IF c = "one" THEN {task[t].key} ELSE task[t].keys)
                          /\ task[t].seen[k] > floor[c][k]
                       THEN task[t].seen[k] ELSE floor[c][k]
    BY <1>1, Zenon DEF Return
  <2> QED
    BY <2>1, <2>2, <2>3, SMTT(30)
<1> QED
  BY <1>1, Zenon

\* Nor does it touch a flight of a write.
LEMMA WriteFlights ==
  ASSUME IndInv, NEW t \in Tasks, task[t].op \in {"none", "get"},
         flight' = flight \/ DoLead(t) \/ LeaderDone(t) \/ LeaderReturn(t)
  PROVE  flight'["set"] = flight["set"] /\ flight'["remove"] = flight["remove"]
<1>1. flight \in [{"get", "set", "remove"} -> [Nodes -> [Keys ->
                   [state : {"none", "pending", "done"}, res : Result]]]]
  BY Zenon DEF IndInv, DataOK
<1>2. CASE DoLead(t) \/ LeaderDone(t) \/ LeaderReturn(t)
  <2>1. task[t].pc \in {"do", "done", "delete"} /\ \E f : SetFlight(t, f)
    BY <1>2, Zenon DEF DoLead, LeaderDone, LeaderReturn
  <2>2. task[t].op = "get"
    BY <2>1, Zenon DEF IndInv, TaskOK, Formed, Form, FormAt
  <2> QED
    BY <1>1, <2>1, <2>2, Zenon DEF SetFlight
<1> QED
  BY <1>2, Zenon

\* A step that leaves a write of the writer where it is, and begins none.
Aloof ==
  /\ IF task[Writer].op \in {"none", "get"} THEN task'[Writer].op \in {"none", "get"}
                                            ELSE task'[Writer] = task[Writer]
  /\ flight'["set"] = flight["set"] /\ flight'["remove"] = flight["remove"]
  /\ \A c \in {"one", "many"}, k \in Keys : floor'[c][k] = floor[c][k]
  /\ \A k \in Keys : src[k] <= src'[k]

\* It keeps the writer in order.
LEMMA AloofControl ==
  ASSUME OneWriter, IndInv, IndInv', Control, Reads', Served', Aloof
  PROVE  Control'
<1> DEFINE r == task[Writer]
           s == task'[Writer]
<1>1. s = r \/ (r.op \in {"none", "get"} /\ s.op \in {"none", "get"} /\ s.seen = NoneSeen)
  BY WriterTask, Zenon DEF Aloof, Reads
<1>2. Orderly(s)
  BY <1>1, Zenon DEF Control, Orderly, Sends
<1>3. ASSUME NEW g \in {"set", "remove"}, NEW n \in Nodes, NEW k \in Keys,
             flight'[g][n][k].state # "none"
      PROVE  Within(s, g, n, k)
  <2>1. flight'[g] = flight[g]
    BY Zenon DEF Aloof
  <2>2. Within(r, g, n, k)
    BY <1>3, <2>1, Zenon DEF Control, OwnFlights
  <2> QED
    BY <1>1, <2>2, Zenon DEF Within
<1>4. ASSUME NEW k \in Keys
      PROVE  /\ s.seen[k] <= src'[k]
             /\ \A c \in {"one", "many"} :
                  /\ floor'[c][k] <= src'[k]
                  /\ s.op = "set" /\ s.key = k => floor'[c][k] <= s.seen[k]
  <2>1. /\ r.seen[k] \in Nat /\ src[k] \in Nat
        /\ \A c \in {"one", "many"} : floor[c][k] \in Nat
    BY WriterSeen, Zenon
  <2>2. src'[k] \in Nat /\ src[k] <= src'[k]
    <3>1. src' \in [Keys -> Nat] /\ src[k] <= src'[k]
      BY SMTT(30) DEF IndInv, DataOK, Version, Aloof
    <3> QED
      BY <3>1, Zenon
  <2>3. /\ r.seen[k] <= src[k]
        /\ \A c \in {"one", "many"} :
             floor[c][k] <= src[k] /\ (r.op = "set" /\ r.key = k => floor[c][k] <= r.seen[k])
    BY Zenon DEF Control, Levels
  <2>4. \A c \in {"one", "many"} : floor'[c][k] = floor[c][k] /\ floor'[c][k] <= src'[k]
    BY <2>1, <2>2, <2>3, SMTT(30) DEF Aloof
  <2>5. CASE s = r
    BY <2>1, <2>2, <2>3, <2>4, <2>5, SMTT(30)
  <2>6. CASE s.op \in {"none", "get"} /\ s.seen = NoneSeen
    BY <2>2, <2>4, <2>6, SMTT(30) DEF NoneSeen
  <2> QED
    BY <1>1, <2>5, <2>6, Zenon
<1> QED
  BY <1>2, <1>3, <1>4, Zenon DEF Control, OwnFlights, Levels

\* And every key current.
LEMMA AloofCurrent ==
  ASSUME OneWriter, IndInv, IndInv', GetterInv, Steady, Control, [Next]_vars, Aloof,
         NEW k \in Keys, Current(k), Nodes # {}
  PROVE  Current(k)'
<1> DEFINE r == task[Writer]
           s == task'[Writer]
<1>1. s = r \/ s.op \in {"none", "get"}
  BY Zenon DEF Aloof
<1>2. Landed(s, k) => Landed(r, k) /\ s.seen = r.seen
  BY <1>1, Zenon DEF Landed
<1>3. \A n \in Nodes : Reached(s, n, k) => Reached(r, n, k) /\ s.seen = r.seen
  BY <1>1, Zenon DEF Reached
<1>4. floor'["one"][k] = floor["one"][k] /\ floor'["many"][k] = floor["many"][k]
  BY Zenon DEF Aloof
<1> QED
  BY <1>2, <1>3, <1>4, CurrentKept, Zenon

\* The goroutines that read.
LEMMA ReaderAloof ==
  ASSUME OneWriter, IndInv, GetterInv, Steady, Control, NEW t \in Tasks, Step(t) \/ Fault(t),
         task[t].op \in {"none", "get"}
  PROVE  Aloof
<1>1. Frame(t) /\ \A u \in Tasks : Passes(t, u)
  BY GoroutineFrame, TasksPass, Zenon DEF Control
<1>2. Reader(task[Writer], task'[Writer])
  BY <1>1, WriterTask, Zenon DEF Passes
<1>3. task[t].seen = NoneSeen
  BY Zenon DEF Control, Reads
<1>4. \A c \in {"one", "many"}, k \in Keys : floor'[c][k] = floor[c][k]
  BY <1>1, <1>3, FloorKept, Zenon DEF Frame
<1>5. flight'["set"] = flight["set"] /\ flight'["remove"] = flight["remove"]
  BY <1>1, WriteFlights, Zenon DEF Frame
<1>6. \A k \in Keys : src[k] <= src'[k]
  <2>1. src \in [Keys -> Nat] /\ src' = src
    BY <1>1, SMTT(30) DEF Frame, IndInv, DataOK, Version
  <2> QED
    BY <2>1, SMTT(30)
<1> QED
  BY <1>2, <1>4, <1>5, <1>6, Zenon DEF Aloof, Reader

\* A write of the writer takes a step of its own.
LEMMA WriterStep ==
  ASSUME OneWriter, IndInv, Control, task[Writer].op \notin {"none", "get"},
         Step(Writer) \/ Fault(Writer)
  PROVE  \/ DoLead(Writer) \/ LeaderDone(Writer) \/ LeaderReturn(Writer)
         \/ RemoveKeysReturn(Writer) \/ Writing(Writer)
<1> DEFINE r == task[Writer]
<1>1. r \in Task /\ Form(r)
  BY WriterTask, Zenon DEF IndInv, TaskOK, Formed
<1>2. r.pc \notin {"lookup", "lookupHot", "recheck", "recheckHot", "load", "rpc", "reply",
                   "local", "fill", "wait", "wake"}
  BY <1>1, Zenon DEF Form, FormAt, Control, Orderly
<1>3. ~ (DoJoin(Writer) \/ DoJoinLate(Writer))
  <2>1. SUFFICES ASSUME r.pc = "do", Flight(Writer).state \in {"pending", "done"} PROVE FALSE
    BY Zenon DEF DoJoin, DoJoinLate
  <2>2. r.op \in {"set", "remove"} /\ r.node \in Nodes /\ r.key \in Keys
    BY <1>1, <2>1, Zenon DEF Form, FormAt
  <2> QED
    BY <2>1, <2>2, Zenon DEF Control, OwnFlights, Within, Flight
<1>4. ~ (\/ LookupMain(Writer) \/ LookupHot(Writer) \/ LoadFromPeer(Writer)
         \/ LoadHere(Writer) \/ PeerValue(Writer) \/ PeerError(Writer)
         \/ RunGetter(Writer) \/ PopulateMain(Writer) \/ DuplicateReturn(Writer)
         \/ \E st : PeerUnreachable(Writer, st) \/ ReplyLost(Writer, st))
  BY <1>2, ZenonT(60)
     DEF LookupMain, LookupHot, LoadFromPeer, LoadHere, PeerValue, PeerError, RunGetter,
         PopulateMain, DuplicateReturn, PeerUnreachable, ReplyLost
<1> QED
  BY <1>3, <1>4, ZenonT(60) DEF Step, Fault, Writing

\* It stays a write until it returns.
LEMMA WriterStays ==
  ASSUME OneWriter, IndInv, Control, task[Writer].op \notin {"none", "get"},
         Step(Writer) \/ Fault(Writer)
  PROVE  task'[Writer] = NoTask \/ task'[Writer].op = task[Writer].op
<1>1. Writer \in Tasks
  BY WriterTask, Zenon
<1>2. CASE DoLead(Writer)
  BY <1>1, <1>2, GotoFacts, Zenon DEF DoLead
<1>3. CASE LeaderDone(Writer)
  <2>1. task'[Writer] = [task[Writer] EXCEPT !.pc = "delete"]
    BY <1>1, <1>3, ZenonT(60) DEF LeaderDone
  <2>2. task[Writer] \in Task
    BY <1>1, Zenon DEF IndInv, TaskOK
  <2> QED
    BY <2>1, <2>2, Zenon DEF Task
<1>4. CASE LeaderReturn(Writer) \/ RemoveKeysReturn(Writer)
  BY <1>1, <1>4, ReturnFields, Zenon DEF LeaderReturn, RemoveKeysReturn
<1>5. CASE Writing(Writer)
  BY <1>1, <1>5, WritingKeeps, Zenon
<1> QED
  BY <1>2, <1>3, <1>4, <1>5, WriterStep, Zenon

\* The others go on reading, and requests are served by the owner.
LEMMA NextReads ==
  ASSUME OneWriter, IndInv, GetterInv, GetterInv', Steady, Control, [Next]_vars
  PROVE  Reads' /\ Served'
<1> DEFINE Fine(u) == /\ u # Writer => task'[u].op \in {"none", "get"}
                      /\ task'[u].op \in {"none", "get"} => task'[u].seen = NoneSeen
                      /\ task'[u].parent # Nil => task'[u].node = Master(task'[u].key)
<1>1. ASSUME NEW u \in Tasks, Reader(task[u], task'[u]) PROVE Fine(u)
  <2>1. /\ u # Writer => task[u].op \in {"none", "get"}
        /\ task[u].op \in {"none", "get"} => task[u].seen = NoneSeen
        /\ task[u].parent # Nil => task[u].node = Master(task[u].key)
    BY Zenon DEF Control, Reads, Served
  <2> QED
    BY <1>1, <2>1, Zenon DEF Reader
<1>2. ASSUME task' = task PROVE \A u \in Tasks : Fine(u)
  BY <1>1, <1>2, Zenon DEF Reader
<1>3. NoTask.op = "none" /\ NoTask.seen = NoneSeen /\ NoTask.parent = Nil
  BY AtRest, Zenon
<1>4. ASSUME NEW t \in Tasks, Step(t) \/ Fault(t)
      PROVE  \A u \in Tasks : Fine(u)
  <2>1. \A u \in Tasks : u # t \/ task[t].op \in {"none", "get"} => Fine(u)
    BY <1>1, <1>4, TasksPass, Zenon DEF Passes, Control
  <2>2. CASE task[t].op \notin {"none", "get"}
    <3>1. t = Writer
      BY <2>2, Zenon DEF Control, Reads
    <3>2. task'[t] = NoTask \/ task'[t].op = task[t].op
      BY <1>4, <2>2, <3>1, WriterStays, Zenon
    <3>3. task'[t].parent # Nil => task'[t].op = "get"
      BY Zenon DEF GetterInv, Asking
    <3>4. Fine(t)
      BY <1>3, <2>2, <3>1, <3>2, <3>3, Zenon
    <3> QED
      BY <2>1, <3>4, Zenon
  <2> QED
    BY <2>1, <2>2, Zenon
<1>5. ASSUME NEW p \in Procs, StartOp(p)
      PROVE  \A u \in Tasks : Fine(u)
  <2>1. /\ \A u \in Tasks \ {p} : task'[u] = task[u]
        /\ Begins(task'[p]) /\ task'[p].op \in Ops[p]
    BY <1>5, StartFields, Zenon
  <2>2. p # Writer => task'[p].op = "get"
    BY <2>1, WriterTask, Zenon
  <2>3. Fine(p)
    BY <2>1, <2>2, Zenon DEF Begins
  <2> QED
    BY <1>1, <2>1, <2>3, Zenon DEF Reader
<1>6. \A u \in Tasks : Fine(u)
  BY <1>2, <1>4, <1>5, NilDestFrame, ZenonT(60)
     DEF Next, Proceed, vars, DeliverLate, SetPeers, WriteSource, Evict
<1> QED
  BY <1>6, Zenon DEF Reads, Served

-------------------------------------------------------------------------------
(* Set and Remove *)

\* The step replaces all there is of k on its owner, unless that is overlapped.
Struck(k) ==
  /\ late' = late
  /\ \E K, v : /\ k \in K /\ Overlapped(Writer, K)
               /\ v \in {0, task[Writer].seen[k]} /\ Puts(Master(k), K, v)

\* It replaces the copies of k on node n.
Covers(n, k) == \E v \in {0, task[Writer].seen[k]} : Puts(n, {k}, v)

\* A write goes on.
Onward ==
  LET r == task[Writer]
      s == task'[Writer]
  IN  /\ s.op = r.op /\ s.node = r.node /\ s.key = r.key /\ s.seen = r.seen
      /\ s.pc # "do"
      /\ Orderly(s)
      /\ \A k \in Keys : Landed(s, k) => Landed(r, k) \/ Struck(k)
      /\ \A n \in Nodes, k \in Keys : Reached(s, n, k) =>
           Reached(r, n, k) \/ Covers(n, k) \/ (n = Master(k) /\ Landed(r, k))

\* What the steps of a write start from.
LEMMA WriterRecord ==
  ASSUME OneWriter, IndInv, Steady, Control
  PROVE  /\ Writer \in Tasks /\ task \in [Tasks -> Task]
         /\ task[Writer] \in Task /\ Form(task[Writer])
         /\ Orderly(task[Writer]) /\ Reads
         /\ task[Writer].pc # "idle" =>
              /\ task[Writer].node \in Nodes
              /\ peers[task[Writer].node] = Nodes /\ gen[task[Writer].node] = 0
         /\ Value(task[Writer]) \in {0, task[Writer].seen[task[Writer].key]}
<1>1. /\ Writer \in Tasks /\ task \in [Tasks -> Task]
      /\ task[Writer] \in Task /\ Form(task[Writer])
  BY WriterTask, Zenon DEF IndInv, TaskOK, Formed
<1>2. task[Writer].pc # "idle" => task[Writer].node \in Nodes
  BY <1>1, Zenon DEF Form, FormAt
<1>3. Value(task[Writer]) \in {0, task[Writer].seen[task[Writer].key]}
  BY Zenon DEF Value
<1> QED
  BY <1>1, <1>2, <1>3, Zenon DEF Control, Steady

\* It picks the owner.
LEMMA PickOnward ==
  ASSUME OneWriter, IndInv, Steady, Control, WritePick(Writer)
  PROVE  Onward
<1> DEFINE r == task[Writer]
           s == task'[Writer]
<1>1. /\ Writer \in Tasks /\ task \in [Tasks -> Task] /\ r \in Task /\ Form(r)
      /\ Orderly(r)
      /\ r.pc # "idle" => r.node \in Nodes /\ peers[r.node] = Nodes /\ gen[r.node] = 0
  BY WriterRecord, Zenon
<1>2. r.pc = "pick"
  BY Zenon DEF WritePick
<1>3. r.op \in {"set", "remove"} /\ r.key \in Keys /\ r.node \in Nodes
  BY <1>1, <1>2, Zenon DEF Form, FormAt
<1>4. /\ Picked(r.node, r.key) = Master(r.key)
      /\ ~ Remote(r.node, r.key) => Master(r.key) = r.node
  BY <1>1, <1>2, <1>3, Zenon DEF Picked, Remote, Master
<1>5. s = [r EXCEPT !.pc = IF Remote(r.node, r.key) THEN "owner" ELSE "here",
                    !.ogen = gen[r.node], !.owner = Picked(r.node, r.key)]
  BY <1>1, ZenonT(60) DEF WritePick
<1>6. /\ s.op = r.op /\ s.node = r.node /\ s.key = r.key /\ s.seen = r.seen
      /\ s.keys = r.keys /\ s.pend = r.pend /\ s.ogen = gen[r.node]
      /\ s.owner = Picked(r.node, r.key)
      /\ s.pc = IF Remote(r.node, r.key) THEN "owner" ELSE "here"
  BY <1>1, <1>5, ZenonT(60) DEF Task
<1> HIDE DEF r, s
<1>7. s.ogen = 0 /\ s.owner = Master(s.key) /\ (s.pc = "here" => s.owner = s.node)
      /\ s.pc \in {"owner", "here"}
  BY <1>1, <1>2, <1>4, <1>6, Zenon
<1>8. Orderly(s)
  BY <1>1, <1>3, <1>6, <1>7, Zenon DEF Orderly, Sends, Value
<1>9. \A k \in Keys : ~ Landed(s, k)
  BY <1>3, <1>6, <1>7, Zenon DEF Landed
<1>10. \A n \in Nodes, k \in Keys : ~ Reached(s, n, k)
  BY <1>3, <1>6, <1>7, Zenon DEF Reached
<1> QED
  BY <1>6, <1>7, <1>8, <1>9, <1>10, Zenon DEF r, s, Onward

\* It tells the owner.
LEMMA OwnerOnward ==
  ASSUME OneWriter, IndInv, Steady, Control, WriteOwner(Writer)
  PROVE  Onward
<1> DEFINE r == task[Writer]
           s == task'[Writer]
<1>1. /\ Writer \in Tasks /\ task \in [Tasks -> Task] /\ r \in Task /\ Form(r)
      /\ Orderly(r) /\ Reads /\ Value(r) \in {0, r.seen[r.key]}
  BY WriterRecord, Zenon
<1>2. /\ r.pc = "owner" /\ Overlapped(Writer, {r.key}) /\ late' = late /\ Goto(Writer, "here")
  BY Zenon DEF WriteOwner
<1>3. r.op \in {"set", "remove"} /\ r.key \in Keys
  BY <1>1, <1>2, Zenon DEF Form, FormAt
<1>4. Puts(r.owner, {r.key}, Value(r))
  BY <1>1, OwnerPuts, Zenon
<1>5. s = [r EXCEPT !.pc = "here"]
  BY <1>1, <1>2, Zenon DEF Goto
<1>6. /\ s.op = r.op /\ s.node = r.node /\ s.key = r.key /\ s.seen = r.seen
      /\ s.keys = r.keys /\ s.pend = r.pend /\ s.ogen = r.ogen
      /\ s.owner = r.owner /\ s.pc = "here"
  BY <1>1, <1>5, ZenonT(60) DEF Task
<1>7. r.owner = Master(r.key) /\ r.ogen = 0
  BY <1>1, <1>2, <1>3, Zenon DEF Orderly
<1>8. Struck(r.key)
  BY <1>1, <1>2, <1>4, <1>7, Zenon DEF Struck
<1> HIDE DEF r, s
<1>9. Orderly(s)
  BY <1>1, <1>3, <1>6, <1>7, Zenon DEF Orderly, Sends, Value
<1>10. \A k \in Keys : Landed(s, k) => k = r.key
  BY <1>3, <1>6, Zenon DEF Landed
<1>11. \A n \in Nodes, k \in Keys : ~ Reached(s, n, k)
  BY <1>3, <1>6, Zenon DEF Reached
<1> QED
  BY <1>6, <1>8, <1>9, <1>10, <1>11, Zenon DEF r, s, Onward

\* The owner cannot be told: the write ends with an error.
LEMMA FailsOnward ==
  ASSUME OneWriter, IndInv, Steady, Control, WriteOwnerFails(Writer)
  PROVE  Onward
<1> DEFINE r == task[Writer]
           s == task'[Writer]
           e == Res("err", 0)
<1>1. /\ Writer \in Tasks /\ task \in [Tasks -> Task] /\ r \in Task /\ Form(r) /\ Orderly(r)
  BY WriterRecord, Zenon
<1>2. r.pc = "owner" /\ task' = [task EXCEPT ![Writer].pc = "done", ![Writer].res = e]
  BY Zenon DEF WriteOwnerFails, Finish
<1>3. r.op \in {"set", "remove"} /\ r.key \in Keys
  BY <1>1, <1>2, Zenon DEF Form, FormAt
<1>4. e.st = "err"
  BY ResParts, Zenon
<1> HIDE DEF e
<1>5. s = [r EXCEPT !.pc = "done", !.res = e]
  BY <1>1, <1>2, ZenonT(60)
<1>6. /\ s.op = r.op /\ s.node = r.node /\ s.key = r.key /\ s.seen = r.seen
      /\ s.keys = r.keys /\ s.pend = r.pend /\ s.pc = "done" /\ s.res = e
  BY <1>1, <1>5, ZenonT(60) DEF Task
<1> HIDE DEF r, s
<1>7. Orderly(s)
  BY <1>1, <1>3, <1>6, Zenon DEF Orderly, Sends, Value
<1>8. \A k \in Keys : ~ Landed(s, k)
  BY <1>3, <1>4, <1>6, Zenon DEF Landed
<1>9. \A n \in Nodes, k \in Keys : ~ Reached(s, n, k)
  BY <1>3, <1>4, <1>6, Zenon DEF Reached
<1> QED
  BY <1>6, <1>7, <1>8, <1>9, Zenon DEF r, s, Onward

\* It writes to the caller's node, which may be the owner.
LEMMA HereOnward ==
  ASSUME OneWriter, IndInv, Steady, Control, WriteHere(Writer)
  PROVE  Onward
<1> DEFINE r == task[Writer]
           s == task'[Writer]
<1>1. /\ Writer \in Tasks /\ task \in [Tasks -> Task] /\ r \in Task /\ Form(r)
      /\ Orderly(r) /\ Reads /\ Value(r) \in {0, r.seen[r.key]}
  BY WriterRecord, Zenon
<1>2. /\ r.pc = "here" /\ late' = late /\ Goto(Writer, "list")
      /\ r.owner = r.node => Overlapped(Writer, {r.key})
  BY Zenon DEF WriteHere
<1>3. r.op \in {"set", "remove"} /\ r.key \in Keys
  BY <1>1, <1>2, Zenon DEF Form, FormAt
<1>4. Puts(r.node, {r.key}, Value(r))
  BY <1>1, HerePuts, Zenon
<1>5. s = [r EXCEPT !.pc = "list"]
  BY <1>1, <1>2, Zenon DEF Goto
<1>6. /\ s.op = r.op /\ s.node = r.node /\ s.key = r.key /\ s.seen = r.seen
      /\ s.keys = r.keys /\ s.pend = r.pend /\ s.ogen = r.ogen
      /\ s.owner = r.owner /\ s.pc = "list"
  BY <1>1, <1>5, ZenonT(60) DEF Task
<1>7. r.owner = Master(r.key) /\ r.ogen = 0
  BY <1>1, <1>2, <1>3, Zenon DEF Orderly
<1>8. r.owner = r.node => Struck(r.key)
  BY <1>1, <1>2, <1>4, <1>7, Zenon DEF Struck
<1>9. Covers(r.node, r.key)
  BY <1>1, <1>4, Zenon DEF Covers
<1> HIDE DEF r, s
<1>10. Orderly(s)
  BY <1>1, <1>3, <1>6, <1>7, Zenon DEF Orderly, Sends, Value
<1>11. \A k \in Keys : Landed(s, k) => k = r.key /\ (Landed(r, k) \/ r.owner = r.node)
  BY <1>2, <1>3, <1>6, Zenon DEF Landed
<1>12. \A n \in Nodes, k \in Keys : Reached(s, n, k) => n = r.node /\ k = r.key
  BY <1>3, <1>6, Zenon DEF Reached
<1> QED
  BY <1>6, <1>8, <1>9, <1>10, <1>11, <1>12, ZenonT(60) DEF r, s, Onward

\* It lists the nodes to tell: all but its own and the owner.
LEMMA ListOnward ==
  ASSUME OneWriter, IndInv, Steady, Control, SetList(Writer) \/ RemoveList(Writer)
  PROVE  Onward
<1> DEFINE r == task[Writer]
           s == task'[Writer]
           P == {Request(Writer, q) : q \in Nodes \ {r.node, Master(r.key)}}
<1>1. /\ Writer \in Tasks /\ task \in [Tasks -> Task] /\ r \in Task /\ Form(r)
      /\ Orderly(r)
      /\ r.pc # "idle" => r.node \in Nodes /\ peers[r.node] = Nodes /\ gen[r.node] = 0
  BY WriterRecord, Zenon
<1>2. r.pc = "list"
  BY Zenon DEF SetList, RemoveList, At
<1>3. r.op \in {"set", "remove"} /\ r.key \in Keys /\ r.node \in Nodes
  BY <1>1, <1>2, Zenon DEF Form, FormAt
<1>4. r.owner = Master(r.key) /\ r.ogen = 0
  BY <1>1, <1>2, <1>3, Zenon DEF Orderly
<1>5. Master(r.key) # Nil
  BY <1>3, OwnerNearest, NodeAssumption, Zenon DEF Master
<1>6. task' = [task EXCEPT ![Writer].pc = "fan", ![Writer].pend = P]
  <2>1. CASE SetList(Writer)
    <3>1. task' = [task EXCEPT ![Writer].pc = "fan",
                     ![Writer].pend = {Request(Writer, q) :
                                         q \in (peers[r.node] \ {r.node}) \ {r.owner}}]
      BY <1>4, <1>5, <2>1, ZenonT(60) DEF SetList
    <3>2. (peers[r.node] \ {r.node}) \ {r.owner} = Nodes \ {r.node, Master(r.key)}
      BY <1>1, <1>2, <1>4, Zenon
    <3> QED
      BY <3>1, <3>2, Zenon
  <2>2. CASE RemoveList(Writer)
    <3>1. task' = [task EXCEPT ![Writer].pc = "fan",
                     ![Writer].pend = {Request(Writer, q) :
                                         q \in peers[r.node] \ ({r.node} \cup {r.owner})}]
      BY <1>1, <1>2, <1>4, <2>2, ZenonT(60) DEF RemoveList
    <3>2. peers[r.node] \ ({r.node} \cup {r.owner}) = Nodes \ {r.node, Master(r.key)}
      BY <1>1, <1>2, <1>4, Zenon
    <3> QED
      BY <3>1, <3>2, Zenon
  <2> QED
    BY <2>1, <2>2, Zenon
<1>7. \A msg \in P : /\ msg.op = r.op /\ msg.keys = {r.key} /\ msg.ver = Value(r)
  BY <1>1, <1>3, RequestOf, SMTT(30)
<1>8. ASSUME NEW n \in Nodes, \A msg \in P : msg.to # n
      PROVE  n \in {r.node, Master(r.key)}
  <2>1. SUFFICES ASSUME n \notin {r.node, Master(r.key)} PROVE FALSE
    BY Zenon
  <2>2. Request(Writer, n) \in P
    BY <2>1, Zenon
  <2> QED
    BY <1>1, <1>3, <1>8, <2>2, RequestOf, SMTT(30)
<1> HIDE DEF P
<1>9. s = [r EXCEPT !.pc = "fan", !.pend = P]
  BY <1>1, <1>6, ZenonT(60)
<1>10. /\ s.op = r.op /\ s.node = r.node /\ s.key = r.key /\ s.seen = r.seen
       /\ s.keys = r.keys /\ s.pend = P /\ s.pc = "fan"
  BY <1>1, <1>9, ZenonT(60) DEF Task
<1> HIDE DEF r, s
<1>11. Orderly(s)
  BY <1>1, <1>3, <1>7, <1>10, Zenon DEF Orderly, Sends, Value
<1>12. \A k \in Keys : Landed(s, k) => Landed(r, k)
  BY <1>2, <1>3, <1>10, Zenon DEF Landed
<1>13. ASSUME NEW n \in Nodes, NEW k \in Keys, Reached(s, n, k)
       PROVE  Reached(r, n, k) \/ (n = Master(k) /\ Landed(r, k))
  <2>1. k = r.key /\ n \in {r.node, Master(r.key)}
    BY <1>8, <1>10, <1>13, Zenon DEF Reached
  <2> QED
    BY <1>2, <1>3, <2>1, Zenon DEF Reached, Landed
<1> QED
  BY <1>10, <1>11, <1>12, <1>13, Zenon DEF r, s, Onward

\* All of them have answered.
LEMMA EndOnward ==
  ASSUME OneWriter, IndInv, Steady, Control, BroadcastEnd(Writer)
  PROVE  Onward
<1> DEFINE r == task[Writer]
           s == task'[Writer]
           e == Res(IF r.op = "remove" THEN r.sent ELSE "ok", 0)
<1>1. /\ Writer \in Tasks /\ task \in [Tasks -> Task] /\ r \in Task /\ Form(r) /\ Orderly(r)
  BY WriterRecord, Zenon
<1>2. /\ r.pc = "fan" /\ r.op # "removekeys" /\ r.pend = {}
      /\ task' = [task EXCEPT ![Writer].pc = "done", ![Writer].res = e]
  BY Zenon DEF BroadcastEnd, Finish
<1>3. r.op \in {"set", "remove"} /\ r.key \in Keys
  BY <1>1, <1>2, Zenon DEF Form, FormAt
<1> HIDE DEF e
<1>4. s = [r EXCEPT !.pc = "done", !.res = e]
  BY <1>1, <1>2, ZenonT(60)
<1>5. /\ s.op = r.op /\ s.node = r.node /\ s.key = r.key /\ s.seen = r.seen
      /\ s.keys = r.keys /\ s.pend = r.pend /\ s.sent = r.sent /\ s.pc = "done"
  BY <1>1, <1>4, ZenonT(60) DEF Task
<1> HIDE DEF r, s
<1>6. Orderly(s)
  BY <1>1, <1>3, <1>5, Zenon DEF Orderly, Sends, Value
<1>7. \A k \in Keys : Landed(s, k) => Landed(r, k)
  BY <1>2, <1>3, <1>5, Zenon DEF Landed
<1>8. \A n \in Nodes, k \in Keys : Reached(s, n, k) => Reached(r, n, k)
  BY <1>2, <1>3, <1>5, Zenon DEF Reached
<1> QED
  BY <1>5, <1>6, <1>7, <1>8, Zenon DEF r, s, Onward

\* One of them is told.
LEMMA BroadcastOnward ==
  ASSUME OneWriter, IndInv, Steady, Control, NEW msg, Broadcast(Writer, msg)
  PROVE  Onward
<1> DEFINE r == task[Writer]
           s == task'[Writer]
<1>1. /\ Writer \in Tasks /\ task \in [Tasks -> Task] /\ r \in Task /\ Form(r)
      /\ Orderly(r) /\ Reads /\ Value(r) \in {0, r.seen[r.key]}
  BY WriterRecord, Zenon
<1>2. /\ r.pc = "fan" /\ msg \in r.pend /\ late' = late
      /\ r.op = "removekeys" => Overlapped(Writer, msg.keys)
      /\ task' = [task EXCEPT ![Writer].pend = @ \ {msg}]
  BY Zenon DEF Broadcast
<1>3. /\ r.op \in {"set", "remove", "removekeys"}
      /\ r.op # "removekeys" => r.key \in Keys
  BY <1>1, <1>2, Zenon DEF Form, FormAt
<1>4. IF r.op = "removekeys" THEN Puts(msg.to, msg.keys, 0)
      ELSE Puts(msg.to, {r.key}, Value(r))
  BY <1>1, BroadcastPuts, Zenon DEF Orderly
<1>5. s = [r EXCEPT !.pend = @ \ {msg}]
  BY <1>1, <1>2, ZenonT(60)
<1>6. /\ s.op = r.op /\ s.node = r.node /\ s.key = r.key /\ s.seen = r.seen
      /\ s.keys = r.keys /\ s.pend = r.pend \ {msg} /\ s.sent = r.sent /\ s.pc = r.pc
  BY <1>1, <1>5, ZenonT(60) DEF Task
<1>7. ASSUME NEW k \in Keys, r.op = "removekeys", msg.to = Master(k), k \in msg.keys
      PROVE  Struck(k)
  BY <1>2, <1>4, <1>7, Zenon DEF Struck
<1>8. r.op # "removekeys" => Covers(msg.to, r.key)
  BY <1>1, <1>4, Zenon DEF Covers
<1> HIDE DEF r, s
<1>9. Orderly(s)
  BY <1>1, <1>2, <1>3, <1>6, Zenon DEF Orderly, Sends, Value
<1>10. ASSUME NEW k \in Keys, Landed(s, k) PROVE Landed(r, k) \/ Struck(k)
  BY <1>2, <1>3, <1>6, <1>7, <1>10, Zenon DEF Landed
<1>11. ASSUME NEW n \in Nodes, NEW k \in Keys, Reached(s, n, k)
       PROVE  Reached(r, n, k) \/ Covers(n, k)
  BY <1>2, <1>3, <1>6, <1>8, <1>11, Zenon DEF Reached
<1> QED
  BY <1>2, <1>6, <1>9, <1>10, <1>11, Zenon DEF r, s, Onward

\* One of them cannot be told.
LEMMA LossOnward ==
  ASSUME OneWriter, IndInv, Steady, Control, NEW msg, BroadcastFails(Writer, msg)
  PROVE  Onward
<1> DEFINE r == task[Writer]
           s == task'[Writer]
<1>1. /\ Writer \in Tasks /\ task \in [Tasks -> Task] /\ r \in Task /\ Form(r) /\ Orderly(r)
  BY WriterRecord, Zenon
<1>2. /\ r.pc = "fan"
      /\ task' = [task EXCEPT ![Writer].pend = @ \ {msg}, ![Writer].sent = "err"]
  BY Zenon DEF BroadcastFails
<1>3. /\ r.op \in {"set", "remove", "removekeys"}
      /\ r.op # "removekeys" => r.key \in Keys
  BY <1>1, <1>2, Zenon DEF Form, FormAt
<1>4. s = [r EXCEPT !.pend = @ \ {msg}, !.sent = "err"]
  BY <1>1, <1>2, ZenonT(60)
<1>5. /\ s.op = r.op /\ s.node = r.node /\ s.key = r.key /\ s.seen = r.seen
      /\ s.keys = r.keys /\ s.pend = r.pend \ {msg} /\ s.sent = "err" /\ s.pc = r.pc
  BY <1>1, <1>4, ZenonT(60) DEF Task
<1> HIDE DEF r, s
<1>6. Orderly(s)
  BY <1>1, <1>2, <1>3, <1>5, Zenon DEF Orderly, Sends, Value
<1>7. ASSUME NEW k \in Keys, Landed(s, k) PROVE Landed(r, k)
  BY <1>2, <1>3, <1>5, <1>7, Zenon DEF Landed
<1>8. \A n \in Nodes, k \in Keys : ~ Reached(s, n, k)
  BY <1>2, <1>3, <1>5, Zenon DEF Reached
<1> QED
  BY <1>2, <1>5, <1>6, <1>7, <1>8, Zenon DEF r, s, Onward

-------------------------------------------------------------------------------
(* RemoveKeys *)

\* A key joins the request for its owner.
LEMMA GroupOnward ==
  ASSUME OneWriter, IndInv, Steady, Control, NEW q, GroupByOwner(Writer, q)
  PROVE  Onward
<1> DEFINE r == task[Writer]
           s == task'[Writer]
           P == Grouped(Writer, q)
           o == Owner(peers[r.node], q)
           mine == {msg \in r.pend : msg.to = o /\ msg.gen = gen[r.node]}
           new == [op |-> "removekeys", to |-> o, gen |-> gen[r.node], ver |-> 0,
                   keys |-> {q} \cup UNION {msg.keys : msg \in mine}]
           d == IF r.todo = {q} THEN r.keys ELSE r.todo \ {q}
           p == IF r.todo = {q} THEN "rkhere" ELSE r.pc
<1>1. /\ Writer \in Tasks /\ task \in [Tasks -> Task] /\ r \in Task /\ Form(r) /\ Orderly(r)
      /\ r.pc # "idle" => r.node \in Nodes /\ peers[r.node] = Nodes /\ gen[r.node] = 0
  BY WriterRecord, Zenon
<1>2. /\ r.pc = "group" /\ q \in r.todo
      /\ s = [r EXCEPT !.pend = P, !.todo = d, !.pc = p]
  BY <1>1, ZenonT(60) DEF GroupByOwner
<1>3. r.op = "removekeys"
  BY <1>1, <1>2, Zenon DEF Form, FormAt
<1>4. /\ \A msg \in r.pend : msg.op = "removekeys"
      /\ \A k \in r.keys : r.node # Master(k) /\ k \notin r.todo =>
           \E msg \in r.pend : msg.to = Master(k) /\ k \in msg.keys
  BY <1>1, <1>2, <1>3, Zenon DEF Orderly, Sends
<1>5. \A msg \in P : msg.op = "removekeys"
  BY <1>4, SMTT(30) DEF Grouped
<1>6. ASSUME NEW k, NEW m, NEW msg \in r.pend, msg.to = m, k \in msg.keys
      PROVE  \E x \in P : x.to = m /\ k \in x.keys
  <2>1. CASE ~ Remote(r.node, q)
    BY <1>6, <2>1, Zenon DEF Grouped
  <2>2. CASE Remote(r.node, q) /\ msg \notin mine
    BY <1>6, <2>2, Zenon DEF Grouped
  <2>3. CASE Remote(r.node, q) /\ msg \in mine
    <3>1. new \in P /\ m = o
      BY <1>6, <2>3, Zenon DEF Grouped
    <3>2. new.to = o /\ k \in new.keys
      BY <1>6, <2>3, Zenon
    <3> QED
      BY <3>1, <3>2, Zenon
  <2> QED
    BY <2>1, <2>2, <2>3, Zenon
<1>7. r.node # Master(q) => \E msg \in P : msg.to = Master(q) /\ q \in msg.keys
  <2>1. SUFFICES ASSUME r.node # Master(q) PROVE new \in P /\ new.to = Master(q) /\ q \in new.keys
    BY Zenon
  <2>2. o = Master(q) /\ Remote(r.node, q)
    BY <1>1, <1>2, <2>1, Zenon DEF Remote, Master
  <2>3. new \in P
    BY <2>2, Zenon DEF Grouped
  <2> QED
    BY <2>2, <2>3, Zenon
<1> HIDE DEF P
<1>8. /\ s.op = r.op /\ s.node = r.node /\ s.key = r.key /\ s.seen = r.seen
      /\ s.keys = r.keys /\ s.pend = P /\ s.todo = d /\ s.pc = p
  BY <1>1, <1>2, ZenonT(60) DEF Task
<1>9. s.pc \in {"group", "rkhere"} /\ (s.pc = "rkhere" => s.todo = s.keys)
  BY <1>2, <1>8, Zenon
<1>10. ASSUME NEW k \in r.keys, r.node # Master(k), s.pc = "rkhere" \/ k \notin s.todo
       PROVE  \E msg \in P : msg.to = Master(k) /\ k \in msg.keys
  <2>1. k = q \/ k \notin r.todo
    BY <1>2, <1>8, <1>10, Zenon
  <2>2. CASE k = q
    BY <1>7, <1>10, <2>2, Zenon
  <2>3. CASE k \notin r.todo
    <3>1. PICK msg \in r.pend : msg.to = Master(k) /\ k \in msg.keys
      BY <1>4, <1>10, <2>3, Zenon
    <3> QED
      BY <1>6, <3>1, Zenon
  <2> QED
    BY <2>1, <2>2, <2>3, Zenon
<1> HIDE DEF r, s
<1>11. Orderly(s)
  BY <1>1, <1>3, <1>5, <1>8, <1>9, <1>10, Zenon DEF Orderly, Sends
<1>12. \A k \in Keys : ~ Landed(s, k)
  BY <1>3, <1>8, <1>9, Zenon DEF Landed
<1>13. \A n \in Nodes, k \in Keys : ~ Reached(s, n, k)
  BY <1>3, <1>8, Zenon DEF Reached
<1> QED
  BY <1>8, <1>9, <1>11, <1>12, <1>13, Zenon DEF r, s, Onward

\* A key is removed from the caller's node, which may be its owner.
LEMMA KeysHereOnward ==
  ASSUME OneWriter, IndInv, Steady, Control, NEW q, RemoveKeysHere(Writer, q)
  PROVE  Onward
<1> DEFINE r == task[Writer]
           s == task'[Writer]
           d == r.todo \ {q}
           p == IF r.todo = {q} THEN "rklist" ELSE r.pc
<1>1. /\ Writer \in Tasks /\ task \in [Tasks -> Task] /\ r \in Task /\ Form(r)
      /\ Orderly(r) /\ Reads
  BY WriterRecord, Zenon
<1>2. /\ r.pc = "rkhere" /\ q \in r.todo /\ late' = late /\ Overlapped(Writer, {q})
      /\ s = [r EXCEPT !.todo = d, !.pc = p]
  BY <1>1, ZenonT(60) DEF RemoveKeysHere
<1>3. r.op = "removekeys"
  BY <1>1, <1>2, Zenon DEF Form, FormAt
<1>4. Puts(r.node, {q}, 0)
  BY <1>1, KeysPuts, Zenon
<1>5. r.node = Master(q) => Struck(q)
  <2>1. SUFFICES ASSUME r.node = Master(q) PROVE Struck(q)
    BY Zenon
  <2> HIDE DEF r
  <2>2. Puts(Master(q), {q}, 0)
    BY <1>4, <2>1, Zenon
  <2> QED
    BY <1>2, <2>2, Zenon DEF Struck
<1>6. /\ s.op = r.op /\ s.node = r.node /\ s.key = r.key /\ s.seen = r.seen
      /\ s.keys = r.keys /\ s.pend = r.pend /\ s.todo = d /\ s.pc = p
  BY <1>1, <1>2, ZenonT(60) DEF Task
<1>7. s.pc \in {"rkhere", "rklist"} /\ (s.pc = "rklist" => s.todo = {})
  BY <1>2, <1>6, Zenon
<1>8. \A k : k \notin s.todo => k \notin r.todo \/ k = q
  BY <1>6, Zenon
<1> HIDE DEF r, s
<1>9. Orderly(s)
  BY <1>1, <1>2, <1>3, <1>6, <1>7, Zenon DEF Orderly, Sends
<1>10. ASSUME NEW k \in Keys, Landed(s, k) PROVE Landed(r, k) \/ Struck(k)
  <2>1. k \in r.keys /\ r.node = Master(k) /\ k \notin s.todo
    BY <1>3, <1>6, <1>7, <1>10, Zenon DEF Landed
  <2> QED
    BY <1>2, <1>3, <1>5, <1>8, <2>1, Zenon DEF Landed
<1>11. \A n \in Nodes, k \in Keys : ~ Reached(s, n, k)
  BY <1>3, <1>6, Zenon DEF Reached
<1> QED
  BY <1>6, <1>7, <1>9, <1>10, <1>11, Zenon DEF r, s, Onward

\* The nodes that own none of the keys join those to be told.
LEMMA KeysListOnward ==
  ASSUME OneWriter, IndInv, Steady, Control, RemoveKeysList(Writer)
  PROVE  Onward
<1> DEFINE r == task[Writer]
           s == task'[Writer]
           m(q) == [op |-> "removekeys", to |-> q, gen |-> gen[r.node], ver |-> 0,
                    keys |-> r.keys]
<1>1. /\ Writer \in Tasks /\ task \in [Tasks -> Task] /\ r \in Task /\ Form(r) /\ Orderly(r)
  BY WriterRecord, Zenon
<1>2. PICK S : /\ r.pc = "rklist"
               /\ s = [r EXCEPT !.pc = "fan", !.pend = @ \cup {m(q) : q \in S}]
  BY <1>1, ZenonT(60) DEF RemoveKeysList
<1> DEFINE P == r.pend \cup {m(q) : q \in S}
<1>3. r.op = "removekeys"
  BY <1>1, <1>2, Zenon DEF Form, FormAt
<1>4. /\ \A msg \in r.pend : msg.op = "removekeys"
      /\ \A k \in r.keys : r.node # Master(k) =>
           \E msg \in r.pend : msg.to = Master(k) /\ k \in msg.keys
  BY <1>1, <1>2, <1>3, Zenon DEF Orderly, Sends
<1>5. r.pend \subseteq P /\ \A msg \in P : msg.op = "removekeys"
  BY <1>4, SMTT(30)
<1>6. s = [r EXCEPT !.pc = "fan", !.pend = P]
  BY <1>2, Zenon
<1> HIDE DEF P
<1>7. /\ s.op = r.op /\ s.node = r.node /\ s.key = r.key /\ s.seen = r.seen
      /\ s.keys = r.keys /\ s.pend = P /\ s.pc = "fan"
  BY <1>1, <1>6, ZenonT(60) DEF Task
<1> HIDE DEF r, s
<1>8. Orderly(s)
  BY <1>1, <1>3, <1>5, <1>7, Zenon DEF Orderly, Sends
<1>9. ASSUME NEW k \in Keys, Landed(s, k) PROVE Landed(r, k)
  <2>1. k \in r.keys /\ r.node = Master(k)
    BY <1>3, <1>4, <1>5, <1>7, <1>9, Zenon DEF Landed
  <2> QED
    BY <1>2, <1>3, <2>1, Zenon DEF Landed
<1>10. \A n \in Nodes, k \in Keys : ~ Reached(s, n, k)
  BY <1>3, <1>7, Zenon DEF Reached
<1> QED
  BY <1>7, <1>8, <1>9, <1>10, Zenon DEF r, s, Onward

\* Every step of a write, up to its return.
LEMMA WritingOnward ==
  ASSUME OneWriter, IndInv, Steady, Control, Writing(Writer)
  PROVE  Onward
BY PickOnward, OwnerOnward, FailsOnward, HereOnward, ListOnward, EndOnward,
   BroadcastOnward, LossOnward, GroupOnward, KeysHereOnward, KeysListOnward, ZenonT(60)
   DEF Writing

-------------------------------------------------------------------------------
(* The writer's steps keep the invariant *)

\* As long as the write is the same, it is made for the same version.
LEMMA LevelsKept ==
  ASSUME Levels, src' = src, floor' = floor, task'[Writer].seen = task[Writer].seen,
         task'[Writer].op = task[Writer].op, task'[Writer].key = task[Writer].key
  PROVE  Levels'
BY Zenon DEF Levels

\* A flight of a write, and its leader.
LEMMA FlightOwner ==
  ASSUME Control, NEW g \in {"set", "remove"}, NEW n \in Nodes, NEW k \in Keys,
         flight[g][n][k].state # "none"
  PROVE  task[Writer].op = g /\ task[Writer].node = n /\ task[Writer].key = k
<1>1. Within(task[Writer], g, n, k)
  BY Zenon DEF Control, OwnFlights
<1> QED
  BY <1>1, Zenon DEF Within

\* A step of a write.
LEMMA WritingTurn ==
  ASSUME OneWriter, IndInv, IndInv', GetterInv, Steady, Control, Reads', Served',
         [Next]_vars, Writing(Writer), Nodes # {}
  PROVE  Control' /\ \A k \in Keys \ raced' : Current(k) => Current(k)'
<1> DEFINE r == task[Writer]
           s == task'[Writer]
<1>1. Writer \in Tasks /\ Onward
  BY WriterTask, WritingOnward, Zenon
<1>2. flight' = flight
  BY <1>1, WritingKeeps, Zenon
<1>3. src' = src /\ floor' = floor
  BY ZenonT(60)
     DEF Writing, WritePick, WriteOwner, WriteOwnerFails, WriteHere, SetList, RemoveList,
         BroadcastEnd, RemoveKeysList, Broadcast, BroadcastFails, GroupByOwner,
         RemoveKeysHere, Stay, Quiet
<1>4. /\ s.op = r.op /\ s.node = r.node /\ s.key = r.key /\ s.seen = r.seen
      /\ s.pc # "do" /\ Orderly(s)
  BY <1>1, Zenon DEF Onward
<1>5. Levels'
  BY <1>3, <1>4, LevelsKept, Zenon DEF Control
<1>6. OwnFlights'
  BY <1>2, <1>4, Zenon DEF Control, OwnFlights, Within
<1>7. ASSUME NEW k \in Keys, k \notin raced', Current(k) PROVE Current(k)'
  <2>1. Master(k) \in Nodes
    BY OwnerNearest, Zenon DEF Master
  <2>2. r.seen[k] \in Nat
    BY WriterSeen, Zenon
  <2>3. ASSUME Struck(k), NEW x \in Version, Afloat(k, x)' PROVE x >= r.seen[k]
    <3>1. PICK K, v : /\ k \in K /\ Overlapped(Writer, K)
                      /\ v \in {0, r.seen[k]} /\ Puts(Master(k), K, v)
      BY <2>3, Zenon DEF Struck
    <3>2. x = v /\ v # 0
      BY <1>1, <1>7, <2>1, <2>3, <3>1, Effect, ZenonT(60) DEF Struck
    <3> QED
      BY <2>2, <3>1, <3>2, SMTT(30)
  <2>4. ASSUME NEW n \in Nodes, Covers(n, k), NEW x \in Copies(n, k)' PROVE x >= r.seen[k]
    <3>1. PICK v \in {0, r.seen[k]} : Puts(n, {k}, v)
      BY <2>4, Zenon DEF Covers
    <3>2. x = v /\ v # 0
      BY <2>4, <3>1, PutCopies, SMTT(30)
    <3> QED
      BY <2>2, <3>1, <3>2, SMTT(30)
  <2>5. ASSUME Landed(r, k), NEW x \in Copies(Master(k), k)' PROVE x >= r.seen[k]
    <3>1. \A y \in Version : Afloat(k, y)' => y >= r.seen[k]
      BY <1>7, <2>1, <2>5, CurrentRises, Zenon
    <3>2. x \in Version /\ Afloat(k, x)'
      <4>1. main' \in [Nodes -> [Keys -> Version]] /\ hot' \in [Nodes -> [Keys -> Version]]
        BY Zenon DEF IndInv, DataOK
      <4>2. x \in Version
        BY <2>1, <2>5, <4>1, SMTT(30) DEF Copies
      <4> QED
        BY <2>5, <4>2, Zenon DEF Afloat
    <3> QED
      BY <3>1, <3>2, Zenon
  <2>6. Landed(s, k) => \/ Landed(r, k) /\ s.seen = r.seen
                        \/ \A x \in Version : Afloat(k, x)' => x >= s.seen[k]
    BY <1>1, <1>4, <2>3, Zenon DEF Onward
  <2>7. \A n \in Nodes : Reached(s, n, k) =>
          \/ Reached(r, n, k) /\ s.seen = r.seen
          \/ \A x \in Copies(n, k)' : x >= s.seen[k]
    BY <1>1, <1>4, <2>4, <2>5, Zenon DEF Onward
  <2> QED
    BY <1>3, <1>7, <2>6, <2>7, CurrentKept, Zenon
<1> QED
  BY <1>4, <1>5, <1>6, <1>7, Zenon DEF Control

\* It enters its flight, or ends it.
LEMMA FlightTurn ==
  ASSUME OneWriter, IndInv, IndInv', GetterInv, Steady, Control, Reads', Served',
         [Next]_vars, task[Writer].op \notin {"none", "get"},
         DoLead(Writer) \/ LeaderDone(Writer), Nodes # {}
  PROVE  Control' /\ \A k \in Keys \ raced' : Current(k) => Current(k)'
<1> DEFINE r == task[Writer]
           s == task'[Writer]
<1>1. /\ Writer \in Tasks /\ task \in [Tasks -> Task] /\ r \in Task /\ Form(r) /\ Orderly(r)
  BY WriterRecord, Zenon
<1>2. src' = src /\ floor' = floor
  BY Zenon DEF DoLead, LeaderDone, Stay, Quiet
<1>3. /\ r.pc \in {"do", "done"} /\ \E f : SetFlight(Writer, f)
      /\ s = [r EXCEPT !.pc = IF r.pc = "do" THEN "pick" ELSE "delete"]
  <2>1. CASE DoLead(Writer)
    BY <1>1, <2>1, ZenonT(60) DEF DoLead, Goto
  <2>2. CASE LeaderDone(Writer)
    <3>1. r.pc = "done" /\ \E f : SetFlight(Writer, f)
      BY <2>2, Zenon DEF LeaderDone
    <3>2. s = [r EXCEPT !.pc = "delete"]
      BY <1>1, <2>2, ZenonT(60) DEF LeaderDone
    <3> QED
      BY <3>1, <3>2, Zenon
  <2> QED
    BY <2>1, <2>2, Zenon
<1>4. r.op \in {"set", "remove"} /\ r.key \in Keys
  BY <1>1, <1>3, Zenon DEF Form, FormAt
<1>5. /\ s.op = r.op /\ s.node = r.node /\ s.key = r.key /\ s.seen = r.seen
      /\ s.keys = r.keys /\ s.pend = r.pend /\ s.res = r.res /\ s.sent = r.sent
      /\ s.pc = IF r.pc = "do" THEN "pick" ELSE "delete"
  BY <1>1, <1>3, ZenonT(60) DEF Task
<1> HIDE DEF r, s
<1>6. Orderly(s) /\ s.pc # "do"
  BY <1>1, <1>3, <1>4, <1>5, SMTT(30) DEF Orderly, Sends, Value
<1>7. Levels'
  BY <1>2, <1>5, LevelsKept, Zenon DEF Control, r, s
<1>8. ASSUME NEW g \in {"set", "remove"}, NEW n \in Nodes, NEW k \in Keys,
             flight'[g][n][k].state # "none"
      PROVE  s.op = g /\ s.node = n /\ s.key = k /\ s.pc # "do"
  <2>1. \/ r.op = g /\ r.node = n /\ r.key = k
        \/ flight'[g][n][k] = flight[g][n][k]
    <3>1. flight \in [{"get", "set", "remove"} -> [Nodes -> [Keys ->
                   [state : {"none", "pending", "done"}, res : Result]]]]
      BY Zenon DEF IndInv, DataOK
    <3> QED
      BY <1>3, <3>1, SMTT(30) DEF SetFlight, r
  <2>2. r.op = g /\ r.node = n /\ r.key = k
    <3>1. flight[g][n][k].state # "none" => r.op = g /\ r.node = n /\ r.key = k
      BY FlightOwner, ZenonT(60) DEF r
    <3> QED
      BY <1>8, <2>1, <3>1, Zenon
  <2> QED
    BY <1>5, <1>6, <2>2, ZenonT(60)
<1>9. OwnFlights'
  BY <1>8, Zenon DEF OwnFlights, Within, s
<1>10. ASSUME NEW k \in Keys, Current(k) PROVE Current(k)'
  <2>1. Landed(s, k) => Landed(r, k) /\ s.seen = r.seen
    BY <1>3, <1>4, <1>5, SMTT(30) DEF Landed
  <2>2. \A n \in Nodes : Reached(s, n, k) => Reached(r, n, k) /\ s.seen = r.seen
    BY <1>3, <1>4, <1>5, SMTT(30) DEF Reached
  <2> QED
    BY <1>2, <1>10, <2>1, <2>2, CurrentKept, Zenon DEF r, s
<1> QED
  BY <1>6, <1>7, <1>9, <1>10, Zenon DEF Control, s

\* It returns, and is acknowledged unless it failed.
LEMMA ReturnTurn ==
  ASSUME OneWriter, IndInv, IndInv', GetterInv, Steady, Control, Reads', Served',
         [Next]_vars, task[Writer].op \notin {"none", "get"},
         LeaderReturn(Writer) \/ RemoveKeysReturn(Writer), Nodes # {}
  PROVE  Control' /\ \A k \in Keys \ raced' : Current(k) => Current(k)'
<1> DEFINE r == task[Writer]
           s == task'[Writer]
<1>1. /\ Writer \in Tasks /\ r \in Task /\ Form(r) /\ Orderly(r)
  BY WriterRecord, Zenon
<1>2. PICK q : /\ src' = src /\ Return(Writer, q)
               /\ \/ r.pc = "delete" /\ q = r.res
                  \/ /\ r.op = "removekeys" /\ r.pc = "fan" /\ r.pend = {} /\ q.st = r.sent
                     /\ flight' = flight
  <2>1. CASE LeaderReturn(Writer)
    BY <2>1, Zenon DEF LeaderReturn, Stay
  <2>2. CASE RemoveKeysReturn(Writer)
    BY <2>2, ResParts, SMTT(30) DEF RemoveKeysReturn, At, Stay
  <2> QED
    BY <2>1, <2>2, Zenon
<1>3. \/ r.op \in {"set", "remove"} /\ r.pc = "delete" /\ q = r.res /\ r.keys = {}
      \/ /\ r.op = "removekeys" /\ r.key = Nil /\ r.pc = "fan" /\ r.pend = {} /\ q.st = r.sent
  BY <1>1, <1>2, Zenon DEF Form, FormAt, Orderly
<1>4. s = NoTask
  BY <1>1, <1>2, ReturnFields, Zenon
<1> HIDE DEF r, s
<1>5. s.op = "none" /\ s.seen = NoneSeen
  BY <1>4, AtRest, Zenon
<1>6. Orderly(s)
  <2>1. s.op \notin {"set", "remove", "removekeys"}
    BY <1>5, Zenon
  <2> QED
    BY <1>5, <2>1, Zenon DEF Orderly, Sends
<1>7. ASSUME NEW g \in {"set", "remove"}, NEW n \in Nodes, NEW k \in Keys
      PROVE  flight'[g][n][k].state = "none"
  <2>1. flight[g][n][k].state # "none" => r.op = g /\ r.node = n /\ r.key = k
    BY FlightOwner, Zenon DEF r
  <2>2. CASE flight' = flight /\ r.op = "removekeys"
    BY <2>1, <2>2, Zenon
  <2>3. CASE LeaderReturn(Writer)
    <3>1. flight \in [{"get", "set", "remove"} -> [Nodes -> [Keys ->
                   [state : {"none", "pending", "done"}, res : Result]]]]
      BY Zenon DEF IndInv, DataOK
    <3>2. NoFlight.state = "none"
      BY Zenon DEF NoFlight
    <3>3. flight'[g][n][k] = IF r.op = g /\ r.node = n /\ r.key = k THEN NoFlight
                             ELSE flight[g][n][k]
      BY <2>3, <3>1, ZenonT(60) DEF LeaderReturn, SetFlight, r
    <3> QED
      BY <2>1, <3>2, <3>3, Zenon
  <2> QED
    BY <2>2, <2>3, Zenon DEF RemoveKeysReturn, At, r
<1>8. OwnFlights'
  BY <1>7, Zenon DEF OwnFlights
<1>9. ASSUME NEW k \in Keys
      PROVE  /\ r.seen[k] \in Nat /\ src[k] \in Nat
             /\ r.seen[k] <= src[k]
             /\ \A c \in {"one", "many"} : floor[c][k] \in Nat /\ floor[c][k] <= src[k]
             /\ \A c \in {"one", "many"} :
                  floor'[c][k] = IF /\ q.st = "ok" /\ r.sent = "ok"
                                    /\ k \in (IF c = "one" THEN {r.key} ELSE r.keys)
                                    /\ r.seen[k] > floor[c][k]
                                 THEN r.seen[k] ELSE floor[c][k]
  <2>1. /\ r.seen[k] \in Nat /\ src[k] \in Nat
        /\ \A c \in {"one", "many"} : floor[c][k] \in Nat
    BY WriterSeen, Zenon DEF r
  <2>2. r.seen[k] <= src[k] /\ \A c \in {"one", "many"} : floor[c][k] <= src[k]
    BY Zenon DEF Control, Levels, r
  <2>3. \A c \in {"one", "many"} :
          floor'[c][k] = IF /\ q.st = "ok" /\ r.sent = "ok"
                            /\ k \in (IF c = "one" THEN {r.key} ELSE r.keys)
                            /\ r.seen[k] > floor[c][k]
                         THEN r.seen[k] ELSE floor[c][k]
    BY <1>2, ZenonT(60) DEF Return, r
  <2> QED
    BY <2>1, <2>2, <2>3, Zenon
<1>10. Levels'
  <2>1. ASSUME NEW k \in Keys
        PROVE  /\ s.seen[k] <= src'[k]
               /\ \A c \in {"one", "many"} : floor'[c][k] <= src'[k]
    <3>1. s.seen[k] = 0 /\ src'[k] = src[k]
      BY <1>2, <1>5, Zenon DEF NoneSeen
    <3>2. ASSUME NEW c \in {"one", "many"} PROVE floor'[c][k] <= src[k]
      <4>1. floor'[c][k] \in {r.seen[k], floor[c][k]}
        BY <1>9, Zenon
      <4> QED
        BY <1>9, <4>1, Zenon
    <3>3. 0 <= src[k]
      BY <1>9, SMTT(30)
    <3> QED
      BY <3>1, <3>2, <3>3, Zenon
  <2> QED
    BY <1>5, <2>1, Zenon DEF Levels, s
<1>11. ASSUME NEW k \in Keys, Current(k) PROVE Current(k)'
  <2>1. ~ Landed(s, k) /\ \A n \in Nodes : ~ Reached(s, n, k)
    BY <1>5, Zenon DEF Landed, Reached
  <2>2. \/ floor'["one"][k] = floor["one"][k]
        \/ floor'["one"][k] = r.seen[k] /\ \A n \in Nodes : Reached(r, n, k)
    <3>1. CASE q.st = "ok" /\ r.sent = "ok" /\ k = r.key
      <4>1. r.op \in {"set", "remove"} /\ r.pc = "delete" /\ q = r.res
        BY <1>3, <3>1, NodeAssumption, Zenon
      <4>2. \A n \in Nodes : Reached(r, n, k)
        BY <3>1, <4>1, Zenon DEF Reached
      <4> QED
        BY <1>9, <4>2, Zenon
    <3> QED
      BY <1>9, <3>1, Zenon
  <2>3. \/ floor'["many"][k] = floor["many"][k]
        \/ floor'["many"][k] = r.seen[k] /\ Landed(r, k)
    <3>1. CASE q.st = "ok" /\ r.sent = "ok" /\ k \in r.keys
      <4>1. r.op = "removekeys" /\ r.pc = "fan" /\ r.pend = {}
        BY <1>3, <3>1, Zenon
      <4>2. Landed(r, k)
        BY <3>1, <4>1, Zenon DEF Landed
      <4> QED
        BY <1>9, <4>2, Zenon
    <3> QED
      BY <1>9, <3>1, Zenon
  <2> QED
    BY <1>11, <2>1, <2>2, <2>3, CurrentKept, Zenon DEF r, s
<1> QED
  BY <1>6, <1>8, <1>10, <1>11, Zenon DEF Control, s

\* It begins a write.
LEMMA StartTurn ==
  ASSUME OneWriter, IndInv, IndInv', GetterInv, Steady, Control, Reads', Served',
         [Next]_vars, StartOp(Writer), Nodes # {}
  PROVE  Control' /\ \A k \in Keys \ raced' : Current(k) => Current(k)'
<1> DEFINE r == task[Writer]
           s == task'[Writer]
<1>1. /\ r.op = "none" /\ Begins(s)
      /\ src' = src /\ flight' = flight /\ floor' = floor
  BY WriterTask, StartFields, Zenon
<1> HIDE DEF r, s
<1>2. Orderly(s)
  BY <1>1, Zenon DEF Begins, Orderly, Sends
<1>3. OwnFlights'
  BY <1>1, Zenon DEF Control, OwnFlights, Within, r
<1>4. Levels'
  <2>1. ASSUME NEW k \in Keys
        PROVE  /\ s.seen[k] <= src'[k]
               /\ \A c \in {"one", "many"} :
                    /\ floor'[c][k] <= src'[k]
                    /\ s.op = "set" /\ s.key = k => floor'[c][k] <= s.seen[k]
    <3>1. \A c \in {"one", "many"} : floor[c][k] <= src[k]
      BY Zenon DEF Control, Levels
    <3> QED
      BY <1>1, <3>1, Zenon DEF Begins
  <2> QED
    BY <2>1, Zenon DEF Levels, s
<1>5. ASSUME NEW k \in Keys, Current(k) PROVE Current(k)'
  <2>1. ~ Landed(s, k) /\ \A n \in Nodes : ~ Reached(s, n, k)
    BY <1>1, Zenon DEF Begins, Landed, Reached
  <2> QED
    BY <1>1, <1>5, <2>1, CurrentKept, Zenon DEF s
<1> QED
  BY <1>2, <1>3, <1>4, <1>5, Zenon DEF Control, s

-------------------------------------------------------------------------------
(* The theorems *)

\* Nothing is cached, afloat or acknowledged at first.
LEMMA InitWrites ==
  ASSUME OneWriter, Nodes # {}, Init
  PROVE  WriteInv
<1> USE DEF Init
<1>1. \A t \in Tasks : task[t] = NoTask
  BY Zenon
<1>2. /\ NoTask.op = "none" /\ NoTask.parent = Nil /\ NoTask.seen = NoneSeen
      /\ NoFlight.state = "none"
  BY Zenon DEF NoTask, NoFlight
<1>3. Writer \in Tasks
  BY WriterTask, Zenon
<1>4. Served /\ Reads
  BY <1>1, <1>2, Zenon DEF Served, Reads
<1>5. Orderly(task[Writer])
  BY <1>1, <1>2, <1>3, Zenon DEF Orderly, Sends
<1>6. \A g \in {"get", "set", "remove"}, n \in Nodes, k \in Keys :
        flight[g][n][k].state = "none"
  BY <1>2, Zenon
<1>7. OwnFlights
  BY <1>6, Zenon DEF OwnFlights
<1>8. Levels
  BY <1>1, <1>2, <1>3, SMTT(30) DEF Levels, NoneSeen
<1>9. ASSUME NEW k \in Keys PROVE Current(k)
  <2>1. Master(k) \in Nodes
    BY OwnerNearest, Zenon DEF Master
  <2>2. \A n \in Nodes : Copies(n, k) = {}
    BY Zenon DEF Copies
  <2>3. \A x : ~ Afloat(k, x)
    BY <1>1, <1>2, <1>6, <2>1, <2>2, Zenon DEF Afloat, Carried, Bears, Ended, Delayed
  <2>4. ~ Landed(task[Writer], k) /\ \A n \in Nodes : ~ Reached(task[Writer], n, k)
    BY <1>1, <1>2, <1>3, Zenon DEF Landed, Reached
  <2> QED
    BY <2>2, <2>3, <2>4, Zenon DEF Current, Above, CopiesAbove
<1> QED
  BY <1>4, <1>5, <1>7, <1>8, <1>9, Zenon DEF WriteInv, Control

\* Every step keeps the invariant.
LEMMA NextWrites ==
  ASSUME OneWriter, Nodes # {}, IndInv, IndInv', GetterInv, GetterInv', WriteInv, [Next]_vars
  PROVE  WriteInv'
<1>1. SUFFICES ASSUME Steady'
               PROVE  Control' /\ \A k \in Keys \ raced' : Current(k)'
  BY Zenon DEF WriteInv
<1>2. Steady /\ Control /\ \A k \in Keys \ raced : Current(k)
  BY <1>1, NextSteady, Zenon DEF WriteInv
<1>3. Reads' /\ Served'
  BY <1>2, NextReads, Zenon
<1>4. CASE Control' /\ raced \subseteq raced' /\ \A k \in Keys \ raced' : Current(k) => Current(k)'
  BY <1>2, <1>4, Zenon
<1>5. CASE Aloof /\ raced \subseteq raced'
  BY <1>2, <1>3, <1>4, <1>5, AloofControl, AloofCurrent, ZenonT(60)
<1>6. ASSUME NEW t \in Tasks, Step(t) \/ Fault(t)
      PROVE  Control' /\ \A k \in Keys \ raced' : Current(k)'
  <2>1. raced \subseteq raced'
    BY <1>6, GoroutineFrame, Zenon DEF Frame
  <2>2. CASE task[t].op \in {"none", "get"}
    BY <1>2, <1>5, <1>6, <2>1, <2>2, ReaderAloof, ZenonT(60)
  <2>3. CASE task[t].op \notin {"none", "get"}
    <3>1. t = Writer
      BY <1>2, <2>3, Zenon DEF Control, Reads
    <3>2. \/ DoLead(Writer) \/ LeaderDone(Writer) \/ LeaderReturn(Writer)
          \/ RemoveKeysReturn(Writer) \/ Writing(Writer)
      BY <1>2, <1>6, <2>3, <3>1, WriterStep, Zenon
    <3>3. Control' /\ \A k \in Keys \ raced' : Current(k) => Current(k)'
      BY <1>2, <1>3, <2>3, <3>1, <3>2, FlightTurn, ReturnTurn, WritingTurn, ZenonT(60)
    <3> QED
      BY <1>4, <2>1, <3>3, Zenon
  <2> QED
    BY <2>2, <2>3, Zenon
<1>7. src \in [Keys -> Version] /\ \A k \in Keys : src[k] \in Nat /\ src[k] <= src[k]
  BY SMTT(30) DEF IndInv, DataOK, Version
<1>8. ASSUME task'[Writer] = task[Writer], flight' = flight, floor' = floor, raced' = raced,
             \A k \in Keys : src[k] <= src'[k]
      PROVE  Aloof /\ raced \subseteq raced'
  BY <1>8, Zenon DEF Aloof
<1>9. ASSUME NEW p \in Procs, StartOp(p)
      PROVE  Control' /\ \A k \in Keys \ raced' : Current(k)'
  <2>1. /\ \A u \in Tasks \ {p} : task'[u] = task[u]
        /\ UNCHANGED <<src, main, hot, flight, late, floor, raced>>
    BY <1>9, StartFields, Zenon
  <2>2. CASE p = Writer
    <3>1. Control' /\ \A k \in Keys \ raced' : Current(k) => Current(k)'
      BY <1>2, <1>3, <1>9, <2>2, StartTurn, Zenon
    <3> QED
      BY <1>4, <2>1, <3>1, Zenon
  <2>3. CASE p # Writer
    <3>1. task'[Writer] = task[Writer]
      BY <2>1, <2>3, WriterTask, Zenon
    <3> QED
      BY <1>5, <1>7, <1>8, <2>1, <3>1, Zenon
  <2> QED
    BY <2>2, <2>3, Zenon
<1>10. ASSUME NEW msg, DeliverLate(msg)
       PROVE  Control' /\ \A k \in Keys \ raced' : Current(k)'
  BY <1>5, <1>7, <1>8, <1>10, Zenon DEF DeliverLate, Stay
<1>11. ASSUME NEW n, NEW S, SetPeers(n, S)
       PROVE  Control' /\ \A k \in Keys \ raced' : Current(k)'
  BY <1>5, <1>7, <1>8, <1>11, Zenon DEF SetPeers
<1>12. ASSUME NEW q \in Keys, WriteSource(q)
       PROVE  Control' /\ \A k \in Keys \ raced' : Current(k)'
  <2>1. /\ src' = [src EXCEPT ![q] = @ + 1]
        /\ task' = task /\ flight' = flight /\ floor' = floor /\ raced' = raced
    BY <1>12, Zenon DEF WriteSource, Quiet
  <2>2. \A k \in Keys : src[k] <= src'[k]
    BY <1>7, <2>1, SMTT(30)
  <2> QED
    BY <1>5, <1>8, <2>1, <2>2, Zenon
<1>13. ASSUME NEW n, NEW k, Evict(n, k)
       PROVE  Control' /\ \A j \in Keys \ raced' : Current(j)'
  BY <1>5, <1>7, <1>8, <1>13, Zenon DEF Evict, Stay, Quiet
<1>14. CASE UNCHANGED vars
  BY <1>5, <1>7, <1>8, <1>14, Zenon DEF vars
<1>15. ASSUME NEW p, NEW n, GetNilDest(p, n)
       PROVE  Control' /\ \A k \in Keys \ raced' : Current(k)'
  BY <1>5, <1>7, <1>8, <1>15, NilDestFrame, Zenon
<1> QED
  BY <1>6, <1>9, <1>10, <1>11, <1>12, <1>13, <1>14, <1>15, ZenonT(60) DEF Next, Proceed

\* While the nodes agree on the peers, a Set or Remove that the one writer was
\* acknowledged leaves no older copy on any node, and a load that starts during
\* its broadcast brings none back: the owner was told first.
THEOREM AlwaysNoStaleCopy ==
  ASSUME OneWriter, Nodes # {}
  PROVE  Spec => [](Steady => NoStaleCopy)
<1>1. Init => IndInv /\ GetterInv /\ WriteInv
  BY InitInv, InitGets, InitWrites, Zenon
<1>2. IndInv /\ GetterInv /\ WriteInv /\ [Next]_vars => (IndInv /\ GetterInv /\ WriteInv)'
  BY NextInv, NextGets, NextWrites, Zenon
<1>3. WriteInv => (Steady => NoStaleCopy)
  BY Zenon DEF WriteInv, Current, CopiesAbove, NoStaleCopy
<1> QED
  BY <1>1, <1>2, <1>3, PTL DEF Spec

\* And a RemoveKeys leaves none on the owner of each key.
THEOREM AlwaysNoStaleOwnerCopy ==
  ASSUME OneWriter, Nodes # {}
  PROVE  Spec => [](Steady => NoStaleOwnerCopy)
<1>1. Init => IndInv /\ GetterInv /\ WriteInv
  BY InitInv, InitGets, InitWrites, Zenon
<1>2. IndInv /\ GetterInv /\ WriteInv /\ [Next]_vars => (IndInv /\ GetterInv /\ WriteInv)'
  BY NextInv, NextGets, NextWrites, Zenon
<1>3. IndInv /\ WriteInv => (Steady => NoStaleOwnerCopy)
  <2>1. SUFFICES ASSUME IndInv, WriteInv, Steady, NEW k \in Keys, k \notin raced,
                        NEW x \in Copies(Owner(Nodes, k), k)
                 PROVE  x >= floor["many"][k]
    BY Zenon DEF NoStaleOwnerCopy
  <2>2. Owner(Nodes, k) \in Nodes
    BY OwnerNearest, Zenon
  <2>3. x \in Version
    BY <2>1, <2>2, CachedType, Zenon DEF Copies
  <2> QED
    BY <2>1, <2>3, Zenon DEF WriteInv, Current, Above, Afloat, Master
<1> QED
  BY <1>1, <1>2, <1>3, PTL DEF Spec

===============================================================================
