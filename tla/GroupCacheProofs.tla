--------------------------- MODULE GroupCacheProofs ---------------------------
(***************************************************************************)
(* GroupCache for any nodes, keys, callers and handlers: types, and the    *)
(* theorem that forwarded loads strictly approach their key; on which node *)
(* the Getter runs; the moves of a Get; how often the Getter runs.         *)
(***************************************************************************)
EXTENDS GroupCache, TLAPS

\* What a goroutine at program counter p works on.
FormAt(r, p) ==
  /\ IF p = "idle" THEN r.op = "none" ELSE r.node \in Nodes
  /\ p \in {"do", "wait", "wake", "done", "delete"}
       => r.op \in {"get", "set", "remove"} /\ r.key \in Keys
  /\ p \in {"lookup", "lookupHot", "recheck", "recheckHot", "load", "rpc",
            "reply", "local", "fill"}
       => r.op = "get" /\ r.key \in Keys
  /\ p \in {"pick", "owner", "here", "list"}
       => r.op \in {"set", "remove"} /\ r.key \in Keys
  /\ p = "owner" => r.owner \in Nodes
  /\ p = "fan" => \/ r.op = "removekeys"
                  \/ r.op \in {"set", "remove"} /\ r.key \in Keys
  /\ p \in {"group", "rkhere", "rklist"} => r.op = "removekeys"

Form(r) == FormAt(r, r.pc)

Formed == \A t \in Tasks : Form(task[t])

\* SetPeers only installs lists that contain the node itself.
SelfListed == \A n \in Nodes : peers[n] = {} \/ n \in peers[n]

\* The parent of a request waits for it, on a node further from the key.
Descends ==
  \A h \in Tasks : task[h].parent # Nil =>
    LET q == task[h].parent IN
    /\ q \in Tasks
    /\ task[q].pc = "rpc"
    /\ task[h].node \in Nodes /\ task[q].node \in Nodes
    /\ task[h].key \in Keys /\ task[q].key = task[h].key
    /\ Rank[task[h].key][task[h].node] < Rank[task[h].key][task[q].node]

\* The same of one task h and its parent q, to cite.
ParentAt(h, q) ==
  /\ q \in Tasks
  /\ task[q].pc = "rpc"
  /\ task[h].node \in Nodes /\ task[q].node \in Nodes
  /\ task[h].key \in Keys /\ task[q].key = task[h].key
  /\ Rank[task[h].key][task[h].node] < Rank[task[h].key][task[q].node]

\* A goroutine waits for one request at a time.
OnlyChild ==
  \A g, h \in Tasks :
    task[g].parent = task[h].parent /\ task[g].parent # Nil => g = h

Forwarding == SelfListed /\ Descends /\ OnlyChild

\* The types of everything but the goroutines.
DataOK ==
  /\ src \in [Keys -> Version]
  /\ peers \in [Nodes -> SUBSET Nodes]
  /\ gen \in [Nodes -> Nat]
  /\ main \in [Nodes -> [Keys -> Version]]
  /\ hot \in [Nodes -> [Keys -> Version]]
  /\ flight \in [{"get", "set", "remove"} -> [Nodes -> [Keys ->
                   [state : {"none", "pending", "done"}, res : Result]]]]
  /\ late \subseteq Message
  /\ faults \in Nat
  /\ left \in [Procs -> Nat]
  /\ floor \in [{"one", "many"} -> [Keys -> Version]]
  /\ raced \subseteq Keys
  /\ runs \in [Keys -> Nat]

TaskOK == task \in [Tasks -> Task] /\ Formed

\* The inductive invariant.
IndInv == DataOK /\ TaskOK /\ Forwarding

-------------------------------------------------------------------------------
(* Records *)

\* NoTask, and the records that tasks start from, are well typed.
LEMMA NoTaskType == NoTask \in Task /\ Form(NoTask)
<1>1. 0 \in Version
  BY BoundAssumption, SMTT(30) DEF BoundAssumption, Version
<1>2. NoneSeen \in [Keys -> Version]
  BY <1>1, Zenon DEF NoneSeen
<1>3. Res("ok", 0) \in Result
  BY <1>1, Zenon DEF Res, Result, Status
<1>4. NoTask \in Task
  BY <1>2, <1>3, Zenon DEF NoTask, Task, Pcs
<1> QED
  BY <1>4, Zenon DEF NoTask, Form, FormAt

\* A goroutine that does nothing, and no flight.
LEMMA AtRest ==
  /\ NoTask.op = "none" /\ NoTask.pc = "idle" /\ NoTask.parent = Nil /\ NoTask.seen = NoneSeen
  /\ NoFlight.state = "none" /\ NoFlight.res.st = "ok"
BY Zenon DEF NoTask, NoFlight, Res

\* A result made of a status and a version.
LEMMA ResType ==
  ASSUME NEW st \in Status, NEW v \in Version
  PROVE  Res(st, v) \in Result
BY Zenon DEF Res, Result

\* 0 is a version, so a failure is a result.
LEMMA FailureType ==
  ASSUME NEW st \in Status
  PROVE  Res(st, 0) \in Result
<1>1. 0 \in Version
  BY BoundAssumption, SMTT(30) DEF BoundAssumption, Version
<1> QED
  BY <1>1, ResType, Zenon

\* A result, taken apart.
LEMMA ResParts == ASSUME NEW st, NEW v PROVE Res(st, v).st = st /\ Res(st, v).ver = v
BY Zenon DEF Res

\* The client classifies every result of a handler.
LEMMA WireType == ASSUME NEW r \in Result PROVE Wire(r) \in Result
<1>1. Res("net", 0) \in Result /\ Res("remote", 0) \in Result
  BY FailureType, Zenon DEF Status
<1>2. r.st = "ok" \/ r.st = "notfound" => Wire(r) = r
  BY Zenon DEF Wire
<1>3. ~ (r.st = "ok" \/ r.st = "notfound")
        => Wire(r) = Res("net", 0) \/ Wire(r) = Res("remote", 0)
  BY Zenon DEF Wire
<1> QED
  BY <1>1, <1>2, <1>3, Zenon

\* The task of a Get.
LEMMA GetTaskType ==
  ASSUME NEW n \in Nodes, NEW k \in Keys, NEW q \in Tasks \cup {Nil}
  PROVE  /\ GetTask(n, k, q) \in Task
         /\ Form(GetTask(n, k, q))
         /\ GetTask(n, k, q).node = n
         /\ GetTask(n, k, q).key = k
         /\ GetTask(n, k, q).parent = q
         /\ GetTask(n, k, q).pc = "lookup"
<1>1. NoTask \in Task
  BY NoTaskType, Zenon
<1>2. /\ GetTask(n, k, q) \in Task
      /\ GetTask(n, k, q).node = n
      /\ GetTask(n, k, q).key = k
      /\ GetTask(n, k, q).parent = q
      /\ GetTask(n, k, q).op = "get"
      /\ GetTask(n, k, q).pc = "lookup"
  BY <1>1, ZenonT(60) DEF GetTask, Task, Pcs, Tasks
<1> QED
  BY <1>2, Zenon DEF Form, FormAt

-------------------------------------------------------------------------------
(* Shared state *)

\* The owner of a key is in the list, and none of the list is nearer.
LEMMA OwnerNearest ==
  ASSUME NEW S \in SUBSET Nodes, S # {}, NEW k \in Keys
  PROVE  /\ Owner(S, k) \in S
         /\ \A q \in S : Rank[k][Owner(S, k)] <= Rank[k][q]
<1>1. \E n \in S : \A q \in S : Rank[k][n] <= Rank[k][q]
  BY NearestAssumption, Zenon DEF NearestAssumption
<1> QED
  BY <1>1, Zenon DEF Owner

\* What lookupCache reads.
LEMMA CachedType ==
  ASSUME IndInv, NEW n \in Nodes, NEW k \in Keys
  PROVE  main[n][k] \in Version /\ hot[n][k] \in Version
<1>1. main \in [Nodes -> [Keys -> Version]] /\ hot \in [Nodes -> [Keys -> Version]]
  BY Zenon DEF IndInv, DataOK
<1> QED
  BY <1>1, Zenon

\* What a flight hands to its duplicates.
LEMMA FlightType ==
  ASSUME IndInv, NEW g \in {"get", "set", "remove"}, NEW n \in Nodes, NEW k \in Keys
  PROVE  /\ flight[g][n][k].res \in Result
         /\ flight[g][n][k].state \in {"none", "pending", "done"}
<1>1. flight \in [{"get", "set", "remove"} -> [Nodes -> [Keys ->
                   [state : {"none", "pending", "done"}, res : Result]]]]
  BY Zenon DEF IndInv, DataOK
<1>2. flight[g][n][k] \in [state : {"none", "pending", "done"}, res : Result]
  BY <1>1, SMTT(30)
<1> QED
  BY <1>2, Zenon

-------------------------------------------------------------------------------
(* The theorems *)

\* The inductive invariant holds initially.
LEMMA InitInv == Init => IndInv
<1> SUFFICES ASSUME Init PROVE IndInv
  BY Zenon
<1>1. 0 \in Version /\ 1 \in Version
  BY BoundAssumption, SMTT(30) DEF BoundAssumption, Version
<1>2. Res("ok", 0) \in Result
  BY FailureType, Zenon DEF Status
<1>3. NoFlight \in [state : {"none", "pending", "done"}, res : Result]
  BY <1>2, Zenon DEF NoFlight
<1>4. InitPeers \in SUBSET Nodes
  BY NodeAssumption, Zenon DEF NodeAssumption
<1>5. flight \in [{"get", "set", "remove"} -> [Nodes -> [Keys ->
                   [state : {"none", "pending", "done"}, res : Result]]]]
  BY <1>3, ZenonT(60) DEF Init
<1>6. DataOK
  BY <1>1, <1>4, <1>5, BoundAssumption, Zenon DEF BoundAssumption, Init, DataOK
<1>7. TaskOK
  BY NoTaskType, Zenon DEF Init, TaskOK, Formed
<1>8. \A t \in Tasks : task[t].parent = Nil
  BY Zenon DEF Init, NoTask
<1>9. Forwarding
  BY <1>8, NodeAssumption, Zenon
     DEF NodeAssumption, Init, Forwarding, SelfListed, Descends, OnlyChild
<1> QED
  BY <1>6, <1>7, <1>9, Zenon DEF IndInv

\* A refused call changes nothing but the calls that are left.
LEMMA NilDestFrame ==
  ASSUME NEW p, NEW n, GetNilDest(p, n)
  PROVE  /\ src' = src /\ peers' = peers /\ gen' = gen /\ main' = main /\ hot' = hot
         /\ flight' = flight /\ task' = task /\ late' = late /\ faults' = faults
         /\ floor' = floor /\ raced' = raced /\ runs' = runs
         /\ left[p] > 0 /\ left' = [left EXCEPT ![p] = @ - 1]
BY Zenon DEF GetNilDest, Quiet

\* The inductive invariant is preserved by every step.
LEMMA NextInv == IndInv /\ [Next]_vars => IndInv'
\* A key that is not cached has a version too.
<1>ZeroVersion.
    0 \in Version
  BY BoundAssumption, SMTT(30) DEF BoundAssumption, Version
\* A step that leaves every goroutine on its node with its key and parent,
\* and leaves those alone that wait for a request, preserves the structure
\* of requests.
<1>StructureKept.
    ASSUME IndInv, peers' = peers,
           \A u \in Tasks : /\ task'[u].node = task[u].node
                            /\ task'[u].key = task[u].key
                            /\ task'[u].parent = task[u].parent
                            /\ task[u].pc = "rpc" => task'[u].pc = "rpc"
    PROVE  Forwarding'
  <2> USE <1>StructureKept
  <2>1. SelfListed'
    BY Zenon DEF IndInv, Forwarding, SelfListed
  <2>2. Descends'
    BY SMTT(30) DEF IndInv, Forwarding, Descends
  <2>3. OnlyChild'
    BY ZenonT(60) DEF IndInv, Forwarding, OnlyChild
  <2> QED
    BY <2>1, <2>2, <2>3, Zenon DEF Forwarding
\* In particular a step of one goroutine that does not wait for a request.
<1>OwnStep.
    ASSUME IndInv, NEW t \in Tasks, NEW r \in Task, Form(r),
           task[t].pc # "rpc",
           task' = [task EXCEPT ![t] = r],
           r.node = task[t].node, r.key = task[t].key, r.parent = task[t].parent,
           peers' = peers
    PROVE  TaskOK' /\ Forwarding'
  <2> USE <1>OwnStep
  <2>1. \A u \in Tasks : task'[u] = IF u = t THEN r ELSE task[u]
    BY Zenon DEF IndInv, TaskOK
  <2>2. TaskOK'
    BY <2>1, Zenon DEF IndInv, TaskOK, Formed
  <2>3. \A u \in Tasks : /\ task'[u].node = task[u].node
                         /\ task'[u].key = task[u].key
                         /\ task'[u].parent = task[u].parent
                         /\ task[u].pc = "rpc" => task'[u].pc = "rpc"
    BY <2>1, Zenon
  <2> QED
    BY <2>2, <2>3, <1>StructureKept, Zenon
\* Goto is such a step.
<1>GotoStep.
    ASSUME IndInv, NEW t \in Tasks, NEW p \in Pcs, Goto(t, p),
           task[t].pc # "rpc", FormAt(task[t], p), peers' = peers
    PROVE  TaskOK' /\ Forwarding'
  <2> USE <1>GotoStep
  <2> DEFINE r == [task[t] EXCEPT !.pc = p]
  <2>1. task[t] \in Task
    BY Zenon DEF IndInv, TaskOK
  <2>2. r \in Task
    BY <2>1, Zenon DEF Task
  <2>3. /\ r.node = task[t].node /\ r.key = task[t].key
        /\ r.parent = task[t].parent /\ r.op = task[t].op
        /\ r.owner = task[t].owner /\ r.pc = p
    BY <2>1, Zenon DEF Task
  <2>4. task' = [task EXCEPT ![t] = r]
    BY Zenon DEF Goto
  <2> HIDE DEF r
  <2>5. Form(r)
    BY <2>3, Zenon DEF Form, FormAt
  <2> QED
    BY <2>2, <2>3, <2>4, <2>5, <1>OwnStep, Zenon
\* And so is a step that also sets the result.
<1>ResultStep.
    ASSUME IndInv, NEW t \in Tasks, NEW p \in Pcs, NEW s \in Result,
           task' = [task EXCEPT ![t].pc = p, ![t].res = s],
           task[t].pc # "rpc", FormAt(task[t], p), peers' = peers
    PROVE  TaskOK' /\ Forwarding'
  <2> USE <1>ResultStep
  <2> DEFINE r == [task[t] EXCEPT !.pc = p, !.res = s]
  <2>1. task[t] \in Task
    BY Zenon DEF IndInv, TaskOK
  <2>2. r \in Task
    BY <2>1, Zenon DEF Task
  <2>3. /\ r.node = task[t].node /\ r.key = task[t].key
        /\ r.parent = task[t].parent /\ r.op = task[t].op
        /\ r.owner = task[t].owner /\ r.pc = p
    BY <2>1, Zenon DEF Task
  <2>4. task' = [task EXCEPT ![t] = r]
    BY <2>1, Zenon DEF IndInv, TaskOK
  <2> HIDE DEF r
  <2>5. Form(r)
    BY <2>3, Zenon DEF Form, FormAt
  <2> QED
    BY <2>2, <2>3, <2>4, <2>5, <1>OwnStep, Zenon
\* A caller that is idle starts, with no parent.
<1>StartStep.
    ASSUME IndInv, NEW t \in Tasks, NEW r \in Task, Form(r), r.parent = Nil,
           task[t].pc = "idle", task' = [task EXCEPT ![t] = r], peers' = peers
    PROVE  TaskOK' /\ Forwarding'
  <2> USE <1>StartStep
  <2>1. \A u \in Tasks : task'[u] = IF u = t THEN r ELSE task[u]
    BY Zenon DEF IndInv, TaskOK
  <2>2. TaskOK'
    BY <2>1, Zenon DEF IndInv, TaskOK, Formed
  <2>3. SelfListed'
    BY ZenonT(60) DEF IndInv, Forwarding, SelfListed
  <2>4. Descends'
    <3>1. SUFFICES ASSUME NEW h \in Tasks, task'[h].parent # Nil
                   PROVE  ParentAt(h, task[h].parent)'
      BY Zenon DEF Descends, ParentAt
    <3>2. h # t /\ task'[h] = task[h]
      BY <3>1, <2>1, Zenon
    <3>3. ParentAt(h, task[h].parent)
      BY <3>1, <3>2, Zenon DEF IndInv, Forwarding, Descends, ParentAt
    <3>4. task[h].parent # t /\ task'[task[h].parent] = task[task[h].parent]
      BY <3>3, <2>1, Zenon DEF ParentAt
    <3> QED
      BY <3>2, <3>3, <3>4, Zenon DEF ParentAt
  <2>5. OnlyChild'
    <3>1. OnlyChild
      BY Zenon DEF IndInv, Forwarding
    <3> QED
      BY <3>1, <2>1, SMTT(30) DEF OnlyChild
  <2> QED
    BY <2>2, <2>3, <2>4, <2>5, Zenon DEF Forwarding
\* A task that takes an answer keeps everything else.
<1>AnsweredType.
    ASSUME NEW x \in Task, NEW s \in Result
    PROVE  LET y == [x EXCEPT !.pc = "reply", !.res = s]
           IN  /\ y \in Task
               /\ y.node = x.node
               /\ y.key = x.key
               /\ y.parent = x.parent
               /\ y.op = x.op
               /\ y.pc = "reply"
  BY <1>AnsweredType, ZenonT(60) DEF Task, Pcs
\* A task returns: its parent, if it has one, goes on with the answer.
<1>ReturnStep.
    ASSUME IndInv, NEW t \in Tasks, NEW r \in Result, Return(t, r),
           task[t].pc # "rpc", peers' = peers
    PROVE  /\ TaskOK' /\ Forwarding'
           /\ floor' \in [{"one", "many"} -> [Keys -> Version]]
  <2> USE <1>ReturnStep
  <2> DEFINE answered(u) == [task[u] EXCEPT !.pc = "reply", !.res = Wire(r)]
  <2>1. \A u \in Tasks : task[u] \in Task /\ Form(task[u])
    BY Zenon DEF IndInv, TaskOK, Formed
  <2>2. Wire(r) \in Result
    BY WireType, Zenon
  <2>3. \A u \in Tasks : /\ answered(u) \in Task
                         /\ answered(u).node = task[u].node
                         /\ answered(u).key = task[u].key
                         /\ answered(u).parent = task[u].parent
                         /\ answered(u).op = task[u].op
                         /\ answered(u).pc = "reply"
    BY <2>1, <2>2, <1>AnsweredType, Zenon
  <2>4. \A u \in Tasks :
          task'[u] = IF u = t THEN NoTask
                     ELSE IF u = task[t].parent THEN answered(u) ELSE task[u]
    BY ZenonT(60) DEF Return
  <2>5. task' = [u \in Tasks |-> task'[u]]
    BY Zenon DEF Return
  <2> HIDE DEF answered
  <2>6. \A u \in Tasks : u = task[t].parent => task[u].pc = "rpc" /\ u # t
    BY TaskAssumption, ZenonT(60) DEF TaskAssumption, Tasks, IndInv, Forwarding, Descends
  <2>7. \A u \in Tasks : u = task[t].parent => Form(answered(u))
    BY <2>1, <2>3, <2>6 DEF Form, FormAt
  <2>8. TaskOK'
    <3>1. \A u \in Tasks : task'[u] \in Task /\ Form(task'[u])
      BY <2>1, <2>3, <2>4, <2>7, NoTaskType, Zenon
    <3> QED
      BY <3>1, <2>5, Zenon DEF TaskOK, Formed
  <2>9. NoTask.parent = Nil
    BY AtRest, Zenon
  <2>10. SelfListed'
    BY Zenon DEF IndInv, Forwarding, SelfListed
  <2>11. Descends'
    <3> SUFFICES ASSUME NEW h \in Tasks, task'[h].parent # Nil
                 PROVE  LET q == task'[h].parent IN
                        /\ q \in Tasks
                        /\ task'[q].pc = "rpc"
                        /\ task'[h].node \in Nodes /\ task'[q].node \in Nodes
                        /\ task'[h].key \in Keys /\ task'[q].key = task'[h].key
                        /\ Rank[task'[h].key][task'[h].node]
                             < Rank[task'[h].key][task'[q].node]
      BY Zenon DEF Descends
    <3>1. h # t
      BY <2>4, <2>9, Zenon
    <3>2. /\ task'[h].parent = task[h].parent
          /\ task'[h].node = task[h].node
          /\ task'[h].key = task[h].key
      BY <3>1, <2>3, <2>4, Zenon
    <3>3. task[h].parent \in Tasks /\ task[task[h].parent].pc = "rpc"
      BY <3>2, Zenon DEF IndInv, Forwarding, Descends
    <3>4. task[h].parent # task[t].parent
      BY <3>1, <3>2, Zenon DEF IndInv, Forwarding, OnlyChild
    <3>5. task'[task[h].parent] = task[task[h].parent]
      BY <3>3, <3>4, <2>4, Zenon
    <3> QED
      BY <3>2, <3>3, <3>5, ZenonT(60) DEF IndInv, Forwarding, Descends
  <2>12. OnlyChild'
    <3>1. OnlyChild
      BY Zenon DEF IndInv, Forwarding
    <3> QED
      BY <3>1, <2>3, <2>4, <2>9, SMTT(30) DEF OnlyChild
  <2>13. floor' \in [{"one", "many"} -> [Keys -> Version]]
    <3>1. task[t].seen \in [Keys -> Version]
      BY <2>1, Zenon DEF Task
    <3> QED
      BY <3>1, ZenonT(60) DEF Return, IndInv, DataOK
  <2> QED
    BY <2>8, <2>10, <2>11, <2>12, <2>13, Zenon DEF Forwarding
\* A flight of a well-formed goroutine is set to a well-typed record.
<1>SetFlightType.
    ASSUME IndInv, NEW t \in Tasks,
           task[t].pc \in {"do", "done", "delete"},
           NEW st \in {"none", "pending", "done"}, NEW r \in Result,
           SetFlight(t, [state |-> st, res |-> r])
    PROVE  flight' \in [{"get", "set", "remove"} -> [Nodes -> [Keys ->
                          [state : {"none", "pending", "done"}, res : Result]]]]
  <2> USE <1>SetFlightType
  <2>1. /\ task[t].op \in {"get", "set", "remove"}
        /\ task[t].node \in Nodes /\ task[t].key \in Keys
    BY Zenon DEF IndInv, TaskOK, Formed, Form, FormAt
  <2> DEFINE F == [state : {"none", "pending", "done"}, res : Result]
  <2>2. [state |-> st, res |-> r] \in F
    BY Zenon
  <2>3. flight \in [{"get", "set", "remove"} -> [Nodes -> [Keys -> F]]]
    BY ZenonT(60) DEF IndInv, DataOK
  <2> HIDE DEF F
  <2> DEFINE f == [state |-> st, res |-> r]
  <2>4. f \in F /\ SetFlight(t, f)
    BY <2>2, ZenonT(60)
  <2> HIDE DEF f
  <2>5. flight' \in [{"get", "set", "remove"} -> [Nodes -> [Keys -> F]]]
    BY <2>1, <2>3, <2>4, SMTT(30) DEF SetFlight
  <2> QED
    BY <2>5, Zenon DEF F
\* The caches after a removal.
<1>LocalRemoveType.
    ASSUME IndInv, NEW n \in Nodes, NEW K \in SUBSET Keys, LocalRemove(n, K)
    PROVE  /\ main' \in [Nodes -> [Keys -> Version]]
           /\ hot' \in [Nodes -> [Keys -> Version]]
  <2> USE <1>LocalRemoveType
  <2>1. 0 \in Version
    BY BoundAssumption, SMTT(30) DEF BoundAssumption, Version
  <2> QED
    BY <2>1, Zenon DEF LocalRemove, IndInv, DataOK
\* The caches after a store.
<1>StoreType.
    ASSUME IndInv, NEW n \in Nodes, NEW K \in SUBSET Keys, NEW v \in Version,
           Store(n, K, v)
    PROVE  /\ main' \in [Nodes -> [Keys -> Version]]
           /\ hot' \in [Nodes -> [Keys -> Version]]
  <2> USE <1>StoreType
  <2>1. 0 \in Version
    BY BoundAssumption, SMTT(30) DEF BoundAssumption, Version
  <2> QED
    BY <2>1, Zenon DEF Store, IndInv, DataOK
\* The caches after a peer executed a request.
<1>ApplyType.
    ASSUME IndInv, NEW msg \in Message, Apply(msg)
    PROVE  /\ main' \in [Nodes -> [Keys -> Version]]
           /\ hot' \in [Nodes -> [Keys -> Version]]
  <2> USE <1>ApplyType
  <2>1. /\ msg.op \in {"set", "remove", "removekeys"} /\ msg.to \in Nodes
        /\ msg.keys \in SUBSET Keys /\ msg.ver \in Version
    BY Zenon DEF Message
  <2>2. CASE msg.op = "set"
    <3>1. Store(msg.to, msg.keys, msg.ver)
      BY <2>2, Zenon DEF Apply
    <3> QED
      BY <2>1, <3>1, <1>StoreType, Zenon
  <2>3. CASE msg.op = "remove"
    <3>1. LocalRemove(msg.to, msg.keys)
      BY <2>3, Zenon DEF Apply
    <3> QED
      BY <2>1, <3>1, <1>LocalRemoveType, Zenon
  <2>4. CASE msg.op = "removekeys"
    <3>1. LocalRemove(msg.to, msg.keys)
      BY <2>4, Zenon DEF Apply, handleRemoveKeysRequest
    <3> QED
      BY <2>1, <3>1, <1>LocalRemoveType, Zenon
  <2> QED
    BY <2>1, <2>2, <2>3, <2>4, Zenon
\* The request a Set or Remove sends.
<1>RequestType.
    ASSUME IndInv, NEW t \in Tasks, task[t].op \in {"set", "remove"},
           task[t].key \in Keys, NEW q \in Nodes
    PROVE  Request(t, q) \in Message
  <2> USE <1>RequestType
  <2>1. 0 \in Version
    BY BoundAssumption, SMTT(30) DEF BoundAssumption, Version
  <2>2. task[t].seen \in [Keys -> Version]
    BY Zenon DEF IndInv, TaskOK, Task
  <2> QED
    BY <2>1, <2>2, Zenon DEF Request, Message
\* Failures only ever hold back well-typed requests.
<1>FailType.
    ASSUME IndInv, NEW msg \in Message, Fail(msg)
    PROVE  late' \subseteq Message /\ faults' \in Nat
  BY <1>FailType, SMTT(30) DEF Fail, IndInv, DataOK
\* Whom a node forwards to is another node, strictly nearer to the key.
<1>ForwardNearer.
    ASSUME IndInv, NEW n \in Nodes, NEW k \in Keys, Remote(n, k)
    PROVE  /\ Owner(peers[n], k) \in Nodes
           /\ Rank[k][Owner(peers[n], k)] < Rank[k][n]
  <2> USE <1>ForwardNearer
  <2>1. peers[n] \in SUBSET Nodes /\ peers[n] # {} /\ n \in peers[n]
    BY Zenon DEF IndInv, DataOK, Forwarding, SelfListed, Remote
  <2>2. /\ Owner(peers[n], k) \in Nodes /\ Owner(peers[n], k) # n
        /\ Rank[k][Owner(peers[n], k)] <= Rank[k][n]
    BY <2>1, OwnerNearest, Zenon DEF Remote
  <2> DEFINE o == Owner(peers[n], k)
  <2>3. o \in Nodes /\ o # n /\ Rank[k][o] <= Rank[k][n]
    BY <2>2, Zenon
  <2> HIDE DEF o
  <2>4. Rank[k][o] \in Nat /\ Rank[k][n] \in Nat /\ Rank[k][o] # Rank[k][n]
    BY <2>3, RankAssumption, SMTT(30) DEF RankAssumption
  <2>5. o \in Nodes /\ Rank[k][o] < Rank[k][n]
    BY <2>3, <2>4, SMTT(30)
  <2> QED
    BY <2>5, Zenon DEF o
\* A leader starts its flight.
<1>DoLeadInv.
    ASSUME IndInv, NEW t \in Tasks, DoLead(t)
    PROVE  IndInv'
  <2> USE <1>DoLeadInv
  <2> DEFINE p == IF task[t].op = "get" THEN "recheck" ELSE "pick"
  <2>1. task[t].pc = "do" /\ Goto(t, p) /\ peers' = peers
    BY Zenon DEF DoLead, Stay
  <2>2. p \in Pcs /\ FormAt(task[t], p)
    BY <2>1, Zenon DEF IndInv, TaskOK, Formed, Form, FormAt, Pcs
  <2> HIDE DEF p
  <2>3. TaskOK' /\ Forwarding'
    BY <2>1, <2>2, <1>GotoStep, Zenon
  <2>4. Res("err", 0) \in Result
    BY FailureType, Zenon DEF Status
  <2>5. SetFlight(t, [state |-> "pending", res |-> Res("err", 0)])
    BY Zenon DEF DoLead, NewFlight
  <2>6. flight' \in [{"get", "set", "remove"} -> [Nodes -> [Keys ->
                       [state : {"none", "pending", "done"}, res : Result]]]]
    BY <2>1, <2>4, <2>5, <1>SetFlightType, Zenon
  <2>7. DataOK'
    BY <2>6, Zenon DEF DoLead, Stay, Quiet, Caches, IndInv, DataOK
  <2> QED
    BY <2>3, <2>7, Zenon DEF IndInv
\* A duplicate joins a flight.
<1>DoJoinInv.
    ASSUME IndInv, NEW t \in Tasks, DoJoin(t)
    PROVE  IndInv'
  <2> USE <1>DoJoinInv
  <2>1. task[t].pc = "do" /\ Goto(t, "wait") /\ peers' = peers
    BY Zenon DEF DoJoin, Stay
  <2>2. "wait" \in Pcs /\ FormAt(task[t], "wait")
    BY <2>1, Zenon DEF IndInv, TaskOK, Formed, Form, FormAt, Pcs
  <2>3. TaskOK' /\ Forwarding'
    BY <2>1, <2>2, <1>GotoStep, Zenon
  <2>4. DataOK'
    BY Zenon DEF DoJoin, Stay, Quiet, Caches, IndInv, DataOK
  <2> QED
    BY <2>3, <2>4, Zenon DEF IndInv
\* A duplicate finds the flight over.
<1>DoJoinLateInv.
    ASSUME IndInv, NEW t \in Tasks, DoJoinLate(t)
    PROVE  IndInv'
  <2> USE <1>DoJoinLateInv
  <2>1. task[t].pc = "do" /\ Return(t, Flight(t).res) /\ peers' = peers
    BY Zenon DEF DoJoinLate, Stay
  <2>2. Flight(t).res \in Result
    <3>1. /\ task[t].op \in {"get", "set", "remove"}
          /\ task[t].node \in Nodes /\ task[t].key \in Keys
      BY <2>1, ZenonT(60) DEF IndInv, TaskOK, Formed, Form, FormAt
    <3> QED
      BY <3>1, FlightType, Zenon DEF Flight
  <2>3. TaskOK' /\ Forwarding' /\ floor' \in [{"one", "many"} -> [Keys -> Version]]
    BY <2>1, <2>2, <1>ReturnStep, Zenon
  <2>4. DataOK'
    BY <2>3, Zenon DEF DoJoinLate, Stay, Caches, IndInv, DataOK
  <2> QED
    BY <2>3, <2>4, Zenon DEF IndInv
\* The leader is done and releases the duplicates.
<1>LeaderDoneInv.
    ASSUME IndInv, NEW t \in Tasks, LeaderDone(t)
    PROVE  IndInv'
  <2> USE <1>LeaderDoneInv
  <2> DEFINE r == IF task[t].res.st = "panic" THEN NewFlight.res ELSE task[t].res
             woken(u) == /\ task[u].pc = "wait" /\ task[u].op = task[t].op
                         /\ task[u].node = task[t].node
                         /\ task[u].key = task[t].key
  <2>1. \A u \in Tasks : task[u] \in Task /\ Form(task[u])
    BY Zenon DEF IndInv, TaskOK, Formed
  <2>2. task[t].pc = "done"
    BY Zenon DEF LeaderDone
  <2>3. r \in Result
    <3>1. NewFlight.res \in Result
      BY FailureType, Zenon DEF NewFlight, Status
    <3>2. task[t].res \in Result
      BY <2>1, Zenon DEF Task
    <3> QED
      BY <3>1, <3>2, Zenon
  <2>4. SetFlight(t, [state |-> "done", res |-> r])
    BY ZenonT(60) DEF LeaderDone
  <2>5. task' = [u \in Tasks |->
                   IF u = t THEN [task[t] EXCEPT !.pc = "delete"]
                   ELSE IF woken(u) THEN [task[u] EXCEPT !.pc = "wake", !.res = r]
                   ELSE task[u]]
    BY Zenon DEF LeaderDone
  <2> HIDE DEF r
  <2>6. \A u \in Tasks : /\ task'[u] \in Task /\ Form(task'[u])
                         /\ task'[u].node = task[u].node
                         /\ task'[u].key = task[u].key
                         /\ task'[u].parent = task[u].parent
                         /\ task[u].pc = "rpc" => task'[u].pc = "rpc"
    <3> SUFFICES ASSUME NEW u \in Tasks
                 PROVE  /\ task'[u] \in Task /\ Form(task'[u])
                        /\ task'[u].node = task[u].node
                        /\ task'[u].key = task[u].key
                        /\ task'[u].parent = task[u].parent
                        /\ task[u].pc = "rpc" => task'[u].pc = "rpc"
      BY Zenon
    <3>1. task[u] \in Task /\ Form(task[u])
      BY <2>1, Zenon
    <3>2. CASE u = t
      <4>1. task'[u] = [task[u] EXCEPT !.pc = "delete"]
        BY <3>2, <2>5, Zenon
      <4>2. /\ task'[u] \in Task /\ task'[u].pc = "delete"
            /\ task'[u].node = task[u].node /\ task'[u].key = task[u].key
            /\ task'[u].parent = task[u].parent /\ task'[u].op = task[u].op
        BY <4>1, <3>1, ZenonT(60) DEF Task, Pcs
      <4> QED
        BY <4>2, <3>1, <3>2, <2>2, Zenon DEF Form, FormAt
    <3>3. CASE u # t /\ woken(u)
      <4>1. task'[u] = [task[u] EXCEPT !.pc = "wake", !.res = r]
        BY <3>3, <2>5, Zenon
      <4>2. /\ task'[u] \in Task /\ task'[u].pc = "wake"
            /\ task'[u].node = task[u].node /\ task'[u].key = task[u].key
            /\ task'[u].parent = task[u].parent /\ task'[u].op = task[u].op
        BY <4>1, <3>1, <2>3, ZenonT(60) DEF Task, Pcs
      <4> QED
        BY <4>2, <3>1, <3>3, Zenon DEF Form, FormAt
    <3>4. CASE u # t /\ ~ woken(u)
      BY <3>1, <3>4, <2>5, Zenon
    <3> QED
      BY <3>2, <3>3, <3>4, Zenon
  <2>7. TaskOK'
    BY <2>5, <2>6, Zenon DEF TaskOK, Formed
  <2>8. peers' = peers
    BY Zenon DEF LeaderDone, Stay
  <2>9. Forwarding'
    BY <2>6, <2>8, <1>StructureKept, Zenon
  <2>10. flight' \in [{"get", "set", "remove"} -> [Nodes -> [Keys ->
                        [state : {"none", "pending", "done"}, res : Result]]]]
    BY <2>2, <2>3, <2>4, <1>SetFlightType, Zenon
  <2>11. DataOK'
    BY <2>10, Zenon DEF LeaderDone, Stay, Quiet, Caches, IndInv, DataOK
  <2> QED
    BY <2>7, <2>9, <2>11, Zenon DEF IndInv
\* The leader deletes the map entry and returns.
<1>LeaderReturnInv.
    ASSUME IndInv, NEW t \in Tasks, LeaderReturn(t)
    PROVE  IndInv'
  <2> USE <1>LeaderReturnInv
  <2>1. /\ task[t].pc = "delete" /\ Return(t, task[t].res) /\ peers' = peers
        /\ SetFlight(t, [state |-> "none", res |-> Res("ok", 0)])
    BY Zenon DEF LeaderReturn, Stay, NoFlight
  <2>2. task[t].res \in Result
    BY Zenon DEF IndInv, TaskOK, Task
  <2>3. TaskOK' /\ Forwarding' /\ floor' \in [{"one", "many"} -> [Keys -> Version]]
    BY <2>1, <2>2, <1>ReturnStep, Zenon
  <2>4. Res("ok", 0) \in Result
    BY FailureType, Zenon DEF Status
  <2>5. flight' \in [{"get", "set", "remove"} -> [Nodes -> [Keys ->
                       [state : {"none", "pending", "done"}, res : Result]]]]
    BY <2>1, <2>4, <1>SetFlightType, Zenon
  <2>6. DataOK'
    BY <2>3, <2>5, Zenon DEF LeaderReturn, Stay, Caches, IndInv, DataOK
  <2> QED
    BY <2>3, <2>6, Zenon DEF IndInv
\* A released duplicate returns.
<1>DuplicateReturnInv.
    ASSUME IndInv, NEW t \in Tasks, DuplicateReturn(t)
    PROVE  IndInv'
  <2> USE <1>DuplicateReturnInv
  <2>1. task[t].pc = "wake" /\ Return(t, task[t].res) /\ peers' = peers
    BY Zenon DEF DuplicateReturn, Stay
  <2>2. task[t].res \in Result
    BY Zenon DEF IndInv, TaskOK, Task
  <2>3. TaskOK' /\ Forwarding' /\ floor' \in [{"one", "many"} -> [Keys -> Version]]
    BY <2>1, <2>2, <1>ReturnStep, Zenon
  <2>4. DataOK'
    BY <2>3, ZenonT(60) DEF DuplicateReturn, Stay, Caches, IndInv, DataOK
  <2> QED
    BY <2>3, <2>4, Zenon DEF IndInv
\* lookupCache reads the main cache.
<1>LookupMainInv.
    ASSUME IndInv, NEW t \in Tasks, LookupMain(t)
    PROVE  IndInv'
  <2> USE <1>LookupMainInv
  <2> DEFINE v == main[task[t].node][task[t].key]
             p == IF task[t].pc = "lookup" THEN "lookupHot" ELSE "recheckHot"
  <2>1. task[t].pc \in {"lookup", "recheck"} /\ peers' = peers
    BY Zenon DEF LookupMain, Stay
  <2>2. task[t].op = "get" /\ task[t].node \in Nodes /\ task[t].key \in Keys
    BY <2>1, Zenon DEF IndInv, TaskOK, Formed, Form, FormAt
  <2>3. v \in Version
    <3>1. main \in [Nodes -> [Keys -> Version]] /\ hot \in [Nodes -> [Keys -> Version]]
      BY Zenon DEF IndInv, DataOK
    <3> QED
      BY <2>2, <3>1, Zenon
  <2>4. p \in Pcs /\ FormAt(task[t], p) /\ FormAt(task[t], "done") /\ "done" \in Pcs
    BY <2>1, <2>2, ZenonT(60) DEF FormAt, Pcs
  <2>5. \/ Return(t, Res("ok", v))
        \/ Finish(t, Res("ok", v)) /\ floor' = floor
        \/ Goto(t, p) /\ floor' = floor
    BY Zenon DEF LookupMain, Hit
  <2> HIDE DEF v, p
  <2>6. Res("ok", v) \in Result
    BY <2>3, ResType, Zenon DEF Status
  <2>7. TaskOK' /\ Forwarding' /\ floor' \in [{"one", "many"} -> [Keys -> Version]]
    <3>0. floor \in [{"one", "many"} -> [Keys -> Version]]
      BY Zenon DEF IndInv, DataOK
    <3>1. CASE Return(t, Res("ok", v))
      BY <3>1, <2>1, <2>6, <1>ReturnStep, Zenon
    <3>2. CASE Finish(t, Res("ok", v)) /\ floor' = floor
      <4>1. TaskOK' /\ Forwarding'
        BY <3>2, <2>1, <2>4, <2>6, <1>ResultStep, Zenon DEF Finish
      <4> QED
        BY <4>1, <3>0, <3>2, Zenon
    <3>3. CASE Goto(t, p) /\ floor' = floor
      <4>1. TaskOK' /\ Forwarding'
        BY <3>3, <2>1, <2>4, <1>GotoStep, Zenon
      <4> QED
        BY <4>1, <3>0, <3>3, Zenon
    <3> QED
      BY <2>5, <3>1, <3>2, <3>3, Zenon
  <2>8. DataOK'
    BY <2>7, Zenon DEF LookupMain, Stay, Caches, IndInv, DataOK
  <2> QED
    BY <2>7, <2>8, Zenon DEF IndInv
\* lookupCache reads the hot cache.
<1>LookupHotInv.
    ASSUME IndInv, NEW t \in Tasks, LookupHot(t)
    PROVE  IndInv'
  <2> USE <1>LookupHotInv
  <2> DEFINE v == hot[task[t].node][task[t].key]
             p == IF task[t].pc = "lookupHot" THEN "do" ELSE "load"
  <2>1. task[t].pc \in {"lookupHot", "recheckHot"} /\ peers' = peers
    BY Zenon DEF LookupHot, Stay
  <2>2. task[t].op = "get" /\ task[t].node \in Nodes /\ task[t].key \in Keys
    BY <2>1, Zenon DEF IndInv, TaskOK, Formed, Form, FormAt
  <2>3. v \in Version
    <3>1. main \in [Nodes -> [Keys -> Version]] /\ hot \in [Nodes -> [Keys -> Version]]
      BY Zenon DEF IndInv, DataOK
    <3> QED
      BY <2>2, <3>1, Zenon
  <2>4. p \in Pcs /\ FormAt(task[t], p) /\ FormAt(task[t], "done") /\ "done" \in Pcs
    BY <2>1, <2>2, ZenonT(60) DEF FormAt, Pcs
  <2>5. \/ Return(t, Res("ok", v))
        \/ Finish(t, Res("ok", v)) /\ floor' = floor
        \/ Goto(t, p) /\ floor' = floor
    BY Zenon DEF LookupHot, Hit
  <2> HIDE DEF v, p
  <2>6. Res("ok", v) \in Result
    BY <2>3, ResType, Zenon DEF Status
  <2>7. TaskOK' /\ Forwarding' /\ floor' \in [{"one", "many"} -> [Keys -> Version]]
    <3>0. floor \in [{"one", "many"} -> [Keys -> Version]]
      BY Zenon DEF IndInv, DataOK
    <3>1. CASE Return(t, Res("ok", v))
      BY <3>1, <2>1, <2>6, <1>ReturnStep, Zenon
    <3>2. CASE Finish(t, Res("ok", v)) /\ floor' = floor
      <4>1. TaskOK' /\ Forwarding'
        BY <3>2, <2>1, <2>4, <2>6, <1>ResultStep, Zenon DEF Finish
      <4> QED
        BY <4>1, <3>0, <3>2, Zenon
    <3>3. CASE Goto(t, p) /\ floor' = floor
      <4>1. TaskOK' /\ Forwarding'
        BY <3>3, <2>1, <2>4, <1>GotoStep, Zenon
      <4> QED
        BY <4>1, <3>0, <3>3, Zenon
    <3> QED
      BY <2>5, <3>1, <3>2, <3>3, Zenon
  <2>8. DataOK'
    BY <2>7, Zenon DEF LookupHot, Stay, Caches, IndInv, DataOK
  <2> QED
    BY <2>7, <2>8, Zenon DEF IndInv
\* A node forwards a load: the one step that adds a link to a chain of
\* requests.  The owner is strictly nearer, and the handler was idle.
<1>LoadFromPeerInv.
    ASSUME IndInv, NEW t \in Tasks, LoadFromPeer(t)
    PROVE  IndInv'
  <2> USE <1>LoadFromPeerInv
  <2> DEFINE n == task[t].node
             k == task[t].key
             free == {h \in Handlers : task[h].pc = "idle"}
             o == Owner(peers[n], k)
  <2>1. /\ task[t].pc = "load" /\ Remote(n, k) /\ free # {} /\ peers' = peers
        /\ task' = [task EXCEPT ![t].pc = "rpc",
                                ![CHOOSE x \in free : TRUE] = GetTask(o, k, t)]
    BY Zenon DEF LoadFromPeer, Stay
  <2>2. PICK h \in Handlers :
          /\ task[h].pc = "idle"
          /\ task' = [task EXCEPT ![t].pc = "rpc", ![h] = GetTask(o, k, t)]
    <3>1. (CHOOSE x \in free : TRUE) \in free
      BY <2>1, Zenon
    <3> QED
      BY <3>1, <2>1, Zenon
  <2>3. n \in Nodes /\ k \in Keys /\ task[t].op = "get"
    BY <2>1, Zenon DEF IndInv, TaskOK, Formed, Form, FormAt
  <2>4. o \in Nodes /\ Rank[k][o] < Rank[k][n]
    BY <2>1, <2>3, <1>ForwardNearer, Zenon
  <2>5. h \in Tasks /\ h # t
    BY <2>1, <2>2, ZenonT(60) DEF Tasks
  <2> DEFINE me == [task[t] EXCEPT !.pc = "rpc"]
             new == GetTask(o, k, t)
  <2>6. /\ new \in Task /\ Form(new) /\ new.node = o /\ new.key = k
        /\ new.parent = t /\ new.pc = "lookup"
    <3>1. t \in Tasks \cup {Nil}
      BY Zenon
    <3> QED
      BY <3>1, <2>3, <2>4, GetTaskType, SMTT(30)
  <2>7. task[t] \in Task
    BY Zenon DEF IndInv, TaskOK
  <2>8. /\ me \in Task /\ me.node = n /\ me.key = k
        /\ me.parent = task[t].parent /\ me.op = "get" /\ me.pc = "rpc"
    BY <2>3, <2>7, Zenon DEF Task, Pcs
  <2>9. \A u \in Tasks :
          task'[u] = IF u = h THEN new ELSE IF u = t THEN me ELSE task[u]
    BY <2>2, <2>5, Zenon DEF IndInv, TaskOK
  <2>10. task' = [u \in Tasks |-> task'[u]]
    BY <2>2, ZenonT(60) DEF IndInv, TaskOK
  <2> HIDE DEF me, new, free, o
  <2>11. Form(me)
    BY <2>3, <2>8, Zenon DEF Form, FormAt
  <2>12. TaskOK'
    <3>1. \A u \in Tasks : task'[u] \in Task /\ Form(task'[u])
      BY <2>6, <2>8, <2>9, <2>11, Zenon DEF IndInv, TaskOK, Formed
    <3> QED
      BY <3>1, <2>10, Zenon DEF TaskOK, Formed
  <2>13. SelfListed'
    BY <2>1, Zenon DEF IndInv, Forwarding, SelfListed
  <2>14. \A u \in Tasks : task[u].parent # h /\ task[u].parent # t
    BY <2>1, <2>2, <2>5, TaskAssumption, ZenonT(60)
       DEF TaskAssumption, Tasks, IndInv, Forwarding, Descends
  <2>15. Descends'
    <3> SUFFICES ASSUME NEW u \in Tasks, task'[u].parent # Nil
                 PROVE  LET q == task'[u].parent IN
                        /\ q \in Tasks
                        /\ task'[q].pc = "rpc"
                        /\ task'[u].node \in Nodes /\ task'[q].node \in Nodes
                        /\ task'[u].key \in Keys /\ task'[q].key = task'[u].key
                        /\ Rank[task'[u].key][task'[u].node]
                             < Rank[task'[u].key][task'[q].node]
      BY Zenon DEF Descends
    <3>1. CASE u = h
      <4>1. task'[u] = new /\ task'[t] = me
        BY <3>1, <2>5, <2>9, ZenonT(60)
      <4> QED
        BY <4>1, <2>3, <2>4, <2>6, <2>8, Zenon
    <3>2. CASE u # h
      <4>1. /\ task'[u].parent = task[u].parent
            /\ task'[u].node = task[u].node /\ task'[u].key = task[u].key
        BY <3>2, <2>8, <2>9, ZenonT(60)
      <4>2. task[u].parent \in Tasks
        BY <4>1, Zenon DEF IndInv, Forwarding, Descends
      <4>3. task'[task[u].parent] = task[task[u].parent]
        BY <4>2, <2>9, <2>14, Zenon
      <4> QED
        <5>1. ParentAt(u, task[u].parent)
          BY <4>1, Zenon DEF IndInv, Forwarding, Descends, ParentAt
        <5> QED
          BY <4>1, <4>2, <4>3, <5>1, Zenon DEF ParentAt
    <3> QED
      BY <3>1, <3>2, Zenon
  <2>16. OnlyChild'
    <3>1. \A u \in Tasks : task'[u].parent = IF u = h THEN t ELSE task[u].parent
      BY <2>6, <2>8, <2>9, Zenon
    <3> QED
      BY <3>1, <2>14, Zenon DEF IndInv, Forwarding, OnlyChild
  <2>17. DataOK'
    BY Zenon DEF LoadFromPeer, Stay, Quiet, Caches, IndInv, DataOK
  <2> QED
    BY <2>12, <2>13, <2>15, <2>16, <2>17, Zenon DEF IndInv, Forwarding
\* A node loads what it owns itself.
<1>LoadHereInv.
    ASSUME IndInv, NEW t \in Tasks, LoadHere(t)
    PROVE  IndInv'
  <2> USE <1>LoadHereInv
  <2>1. task[t].pc = "load" /\ Goto(t, "local") /\ peers' = peers
    BY Zenon DEF LoadHere, Stay
  <2>2. "local" \in Pcs /\ FormAt(task[t], "local")
    BY <2>1, Zenon DEF IndInv, TaskOK, Formed, Form, FormAt, Pcs
  <2>3. TaskOK' /\ Forwarding'
    BY <2>1, <2>2, <1>GotoStep, Zenon
  <2>4. DataOK'
    BY Zenon DEF LoadHere, Stay, Quiet, Caches, IndInv, DataOK
  <2> QED
    BY <2>3, <2>4, Zenon DEF IndInv
\* The request does not arrive.
<1>PeerUnreachableInv.
    ASSUME IndInv, NEW t \in Tasks, NEW st \in {"net", "ctx"}, PeerUnreachable(t, st)
    PROVE  IndInv'
  <2> USE <1>PeerUnreachableInv
  <2>1. /\ task[t].pc = "load" /\ peers' = peers
        /\ task' = [task EXCEPT ![t].pc = "reply", ![t].res = Res(st, 0)]
    BY Zenon DEF PeerUnreachable, Stay
  <2>2. "reply" \in Pcs /\ FormAt(task[t], "reply")
    BY <2>1, Zenon DEF IndInv, TaskOK, Formed, Form, FormAt, Pcs
  <2>3. Res(st, 0) \in Result
    BY FailureType, Zenon DEF Status
  <2>4. TaskOK' /\ Forwarding'
    BY <2>1, <2>2, <2>3, <1>ResultStep, Zenon
  <2>5. DataOK'
    <3>1. faults \in Nat /\ faults' = faults + 1
      BY Zenon DEF PeerUnreachable, IndInv, DataOK
    <3>2. faults' \in Nat
      BY <3>1, SMTT(30)
    <3> QED
      BY <3>2, Zenon DEF PeerUnreachable, Stay, Caches, IndInv, DataOK
  <2> QED
    BY <2>4, <2>5, Zenon DEF IndInv
\* The caller stops waiting: the request it waited for loses its parent.
<1>ReplyLostInv.
    ASSUME IndInv, NEW t \in Tasks, NEW st \in {"net", "ctx"}, ReplyLost(t, st)
    PROVE  IndInv'
  <2> USE <1>ReplyLostInv
  <2> DEFINE me == [task[t] EXCEPT !.pc = "reply", !.res = Res(st, 0)]
             orphan(u) == [task[u] EXCEPT !.parent = Nil]
  <2>1. task[t].pc = "rpc" /\ peers' = peers
    BY Zenon DEF ReplyLost, Stay
  <2>2. \A u \in Tasks : task[u] \in Task /\ Form(task[u])
    BY Zenon DEF IndInv, TaskOK, Formed
  <2>3. Res(st, 0) \in Result
    BY FailureType, Zenon DEF Status
  <2>4. /\ me \in Task /\ me.node = task[t].node /\ me.key = task[t].key
        /\ me.parent = task[t].parent /\ me.op = task[t].op /\ me.pc = "reply"
    BY <2>2, <2>3, <1>AnsweredType, Zenon
  <2>5. ASSUME NEW u \in Tasks
        PROVE  /\ orphan(u) \in Task /\ orphan(u).node = task[u].node
               /\ orphan(u).key = task[u].key /\ orphan(u).op = task[u].op
               /\ orphan(u).pc = task[u].pc /\ orphan(u).parent = Nil
               /\ orphan(u).owner = task[u].owner
    <3>1. task[u] \in Task
      BY <2>2, Zenon
    <3> QED
      BY <3>1, Zenon DEF Task
  <2>6. task' = [u \in Tasks |-> IF u = t THEN me
                                 ELSE IF task[u].parent = t THEN orphan(u)
                                 ELSE task[u]]
    BY Zenon DEF ReplyLost
  <2>7. \A u \in Tasks : task'[u] = IF u = t THEN me
                                    ELSE IF task[u].parent = t THEN orphan(u)
                                    ELSE task[u]
    BY <2>6, Zenon
  <2>8. task' = [u \in Tasks |-> task'[u]]
    BY <2>6, Zenon
  <2> HIDE DEF me, orphan
  <2>9. TaskOK'
    <3>1. Form(me)
      BY <2>1, <2>2, <2>4, ZenonT(60) DEF Form, FormAt
    <3>2. \A u \in Tasks : Form(orphan(u))
      BY <2>2, <2>5, SMTT(30) DEF Form, FormAt
    <3>3. \A u \in Tasks : task'[u] \in Task /\ Form(task'[u])
      BY <3>1, <3>2, <2>2, <2>4, <2>5, <2>7, Zenon
    <3> QED
      BY <3>3, <2>8, Zenon DEF TaskOK, Formed
  <2>10. SelfListed'
    BY <2>1, Zenon DEF IndInv, Forwarding, SelfListed
  <2>11. task[t].parent # t
    <3>1. t # Nil
      BY TaskAssumption, Zenon DEF TaskAssumption, Tasks
    <3>2. SUFFICES ASSUME task[t].parent = t PROVE FALSE
      BY ZenonT(60)
    <3>3. /\ task[t].node \in Nodes /\ task[t].key \in Keys
          /\ Rank[task[t].key][task[t].node] < Rank[task[t].key][task[t].node]
      BY <3>1, <3>2, Zenon DEF IndInv, Forwarding, Descends
    <3>4. Rank[task[t].key][task[t].node] \in Nat
      BY <3>3, RankAssumption, ZenonT(60) DEF RankAssumption
    <3> QED
      BY <3>3, <3>4, SMTT(30)
  <2>12. \A u \in Tasks :
           task'[u].parent = IF task[u].parent = t THEN Nil ELSE task[u].parent
    BY <2>4, <2>5, <2>7, <2>11, Zenon
  <2>13. Descends'
    <3> SUFFICES ASSUME NEW u \in Tasks, task'[u].parent # Nil
                 PROVE  LET q == task'[u].parent IN
                        /\ q \in Tasks
                        /\ task'[q].pc = "rpc"
                        /\ task'[u].node \in Nodes /\ task'[q].node \in Nodes
                        /\ task'[u].key \in Keys /\ task'[q].key = task'[u].key
                        /\ Rank[task'[u].key][task'[u].node]
                             < Rank[task'[u].key][task'[q].node]
      BY Zenon DEF Descends
    <3>1. task[u].parent # t /\ task'[u].parent = task[u].parent
      BY <2>12, Zenon
    <3>2. task'[u].node = task[u].node /\ task'[u].key = task[u].key
      BY <3>1, <2>4, <2>7, Zenon
    <3>3. task[u].parent \in Tasks
      BY <3>1, Zenon DEF IndInv, Forwarding, Descends
    <3>4. LET q == task[u].parent IN
          /\ task'[q].pc = task[q].pc /\ task'[q].node = task[q].node
          /\ task'[q].key = task[q].key
      BY <3>1, <3>3, <2>5, <2>7, Zenon
    <3> QED
      BY <3>1, <3>2, <3>3, <3>4, ZenonT(60) DEF IndInv, Forwarding, Descends
  <2>14. OnlyChild'
    BY <2>12, Zenon DEF IndInv, Forwarding, OnlyChild
  <2>15. DataOK'
    <3>1. faults \in Nat /\ faults' = faults + 1
      BY Zenon DEF ReplyLost, IndInv, DataOK
    <3>2. faults' \in Nat
      BY <3>1, SMTT(30)
    <3> QED
      BY <3>2, Zenon DEF ReplyLost, Stay, Caches, IndInv, DataOK
  <2> QED
    BY <2>9, <2>10, <2>13, <2>14, <2>15, Zenon DEF IndInv, Forwarding
\* A peer's value fills the hot cache.
<1>PeerValueInv.
    ASSUME IndInv, NEW t \in Tasks, PeerValue(t)
    PROVE  IndInv'
  <2> USE <1>PeerValueInv
  <2>1. task[t].pc = "reply" /\ Goto(t, "done") /\ peers' = peers
    BY Zenon DEF PeerValue, Stay
  <2>2. /\ "done" \in Pcs /\ FormAt(task[t], "done")
        /\ task[t].node \in Nodes /\ task[t].key \in Keys
    BY <2>1, Zenon DEF IndInv, TaskOK, Formed, Form, FormAt, Pcs
  <2>3. TaskOK' /\ Forwarding'
    BY <2>1, <2>2, <1>GotoStep, Zenon
  <2>4. task[t].res.ver \in Version
    BY Zenon DEF IndInv, TaskOK, Task, Result
  <2>5. hot' \in [Nodes -> [Keys -> Version]]
    BY <2>2, <2>4, Zenon DEF PeerValue, IndInv, DataOK
  <2>6. DataOK'
    BY <2>5, Zenon DEF PeerValue, Stay, Quiet, IndInv, DataOK
  <2> QED
    BY <2>3, <2>6, Zenon DEF IndInv
\* A peer's error is final or falls back to this node.
<1>PeerErrorInv.
    ASSUME IndInv, NEW t \in Tasks, PeerError(t)
    PROVE  IndInv'
  <2> USE <1>PeerErrorInv
  <2> DEFINE p == IF task[t].res.st = "net" THEN "local" ELSE "done"
  <2>1. task[t].pc = "reply" /\ Goto(t, p) /\ peers' = peers
    BY Zenon DEF PeerError, Stay
  <2>2. p \in Pcs /\ FormAt(task[t], p)
    BY <2>1, Zenon DEF IndInv, TaskOK, Formed, Form, FormAt, Pcs
  <2> HIDE DEF p
  <2>3. TaskOK' /\ Forwarding'
    BY <2>1, <2>2, <1>GotoStep, Zenon
  <2>4. DataOK'
    BY Zenon DEF PeerError, Stay, Quiet, Caches, IndInv, DataOK
  <2> QED
    BY <2>3, <2>4, Zenon DEF IndInv
\* The Getter runs.
<1>RunGetterInv.
    ASSUME IndInv, NEW t \in Tasks, RunGetter(t)
    PROVE  IndInv'
  <2> USE <1>RunGetterInv
  <2>1. task[t].pc = "local" /\ peers' = peers
    BY ZenonT(60) DEF RunGetter, Stay
  <2>2. /\ {"fill", "done"} \subseteq Pcs
        /\ FormAt(task[t], "fill") /\ FormAt(task[t], "done")
        /\ task[t].key \in Keys
    BY <2>1, Zenon DEF IndInv, TaskOK, Formed, Form, FormAt, Pcs
  <2>3. src[task[t].key] \in Version /\ faults \in Nat /\ runs \in [Keys -> Nat]
    BY <2>2, Zenon DEF IndInv, DataOK
  <2>4. PICK o \in GetterOutcomes :
          /\ faults' \in {faults, faults + 1}
          /\ \/ /\ task' = [task EXCEPT ![t].pc = "fill",
                                        ![t].res = Res("ok", src[task[t].key])]
                /\ runs' = [runs EXCEPT ![task[t].key] = @ + 1]
             \/ Finish(t, Res(o, 0)) /\ runs' = runs
    BY Zenon DEF RunGetter
  <2>5. o \in Status
    BY BoundAssumption, Zenon DEF BoundAssumption, Status
  <2>6. Res("ok", src[task[t].key]) \in Result /\ Res(o, 0) \in Result
    BY <2>3, <2>5, ResType, FailureType, Zenon DEF Status
  <2>7. TaskOK' /\ Forwarding'
    BY <2>1, <2>2, <2>4, <2>6, <1>ResultStep, Zenon DEF Finish
  <2>8. faults' \in Nat /\ runs' \in [Keys -> Nat]
    BY <2>2, <2>3, <2>4, SMTT(30)
  <2>9. DataOK'
    BY <2>8, Zenon DEF RunGetter, Stay, Caches, IndInv, DataOK
  <2> QED
    BY <2>7, <2>9, Zenon DEF IndInv
\* The Getter's value fills the main cache.
<1>PopulateMainInv.
    ASSUME IndInv, NEW t \in Tasks, PopulateMain(t)
    PROVE  IndInv'
  <2> USE <1>PopulateMainInv
  <2>1. task[t].pc = "fill" /\ Goto(t, "done") /\ peers' = peers
    BY ZenonT(60) DEF PopulateMain, Stay
  <2>2. /\ "done" \in Pcs /\ FormAt(task[t], "done")
        /\ task[t].node \in Nodes /\ task[t].key \in Keys
    BY <2>1, Zenon DEF IndInv, TaskOK, Formed, Form, FormAt, Pcs
  <2>3. TaskOK' /\ Forwarding'
    BY <2>1, <2>2, <1>GotoStep, Zenon
  <2>4. task[t].res.ver \in Version
    BY Zenon DEF IndInv, TaskOK, Task, Result
  <2>5. main' \in [Nodes -> [Keys -> Version]]
    BY <2>2, <2>4, Zenon DEF PopulateMain, IndInv, DataOK
  <2>6. DataOK'
    BY <2>5, Zenon DEF PopulateMain, Stay, Quiet, IndInv, DataOK
  <2> QED
    BY <2>3, <2>6, Zenon DEF IndInv
\* The owner is picked.
<1>WritePickInv.
    ASSUME IndInv, NEW t \in Tasks, WritePick(t)
    PROVE  IndInv'
  <2> USE <1>WritePickInv
  <2> DEFINE n == task[t].node
             k == task[t].key
             p == IF Remote(n, k) THEN "owner" ELSE "here"
             r == [task[t] EXCEPT !.pc = p, !.ogen = gen[n], !.owner = Picked(n, k)]
  <2>1. task[t].pc = "pick" /\ peers' = peers
    BY Zenon DEF WritePick, Stay
  <2>2. task[t] \in Task /\ Form(task[t])
    BY Zenon DEF IndInv, TaskOK, Formed
  <2>3. n \in Nodes /\ k \in Keys /\ task[t].op \in {"set", "remove"}
    BY <2>1, <2>2, Zenon DEF Form, FormAt
  <2>4. peers[n] \in SUBSET Nodes /\ gen[n] \in Nat
    BY <2>3, ZenonT(60) DEF IndInv, DataOK
  <2>5. Picked(n, k) \in Nodes \cup {Nil} /\ (Remote(n, k) => Picked(n, k) \in Nodes)
    BY <2>3, <2>4, OwnerNearest, Zenon DEF Picked, Remote
  <2>6. p \in Pcs /\ p \in {"owner", "here"}
    BY Zenon DEF Pcs
  <2>7. task' = [task EXCEPT ![t] = r]
    BY <2>2, Zenon DEF WritePick, IndInv, TaskOK
  <2>8. p = "owner" => Picked(n, k) \in Nodes
    BY <2>5, Zenon
  <2> HIDE DEF p
  <2>9. /\ r \in Task /\ r.node = n /\ r.key = k /\ r.parent = task[t].parent
        /\ r.op = task[t].op /\ r.pc = p /\ r.owner = Picked(n, k)
    BY <2>2, <2>4, <2>5, <2>6, ZenonT(60) DEF Task
  <2> HIDE DEF r
  <2>10. Form(r)
    BY <2>3, <2>6, <2>8, <2>9, Zenon DEF Form, FormAt
  <2>11. TaskOK' /\ Forwarding'
    BY <2>1, <2>7, <2>9, <2>10, <1>OwnStep, Zenon
  <2>12. DataOK'
    BY Zenon DEF WritePick, Stay, Quiet, Caches, IndInv, DataOK
  <2> QED
    BY <2>11, <2>12, Zenon DEF IndInv
\* The owner executes the request.
<1>WriteOwnerInv.
    ASSUME IndInv, NEW t \in Tasks, WriteOwner(t)
    PROVE  IndInv'
  <2> USE <1>WriteOwnerInv
  <2>1. /\ task[t].pc = "owner" /\ Goto(t, "here") /\ peers' = peers
        /\ Apply(Request(t, task[t].owner)) /\ Overlapped(t, {task[t].key})
    BY Zenon DEF WriteOwner, Stay
  <2>2. /\ "here" \in Pcs /\ FormAt(task[t], "here")
        /\ task[t].op \in {"set", "remove"} /\ task[t].key \in Keys
        /\ task[t].owner \in Nodes
    BY <2>1, ZenonT(60) DEF IndInv, TaskOK, Formed, Form, FormAt, Pcs
  <2>3. TaskOK' /\ Forwarding'
    BY <2>1, <2>2, <1>GotoStep, Zenon
  <2>4. Request(t, task[t].owner) \in Message
    BY <2>2, <1>RequestType, Zenon
  <2>5. main' \in [Nodes -> [Keys -> Version]] /\ hot' \in [Nodes -> [Keys -> Version]]
    BY <2>1, <2>4, <1>ApplyType, Zenon
  <2>6. raced' \subseteq Keys
    BY <2>1, <2>2, Zenon DEF Overlapped, IndInv, DataOK
  <2>7. DataOK'
    BY <2>5, <2>6, Zenon DEF WriteOwner, Stay, IndInv, DataOK
  <2> QED
    BY <2>3, <2>7, Zenon DEF IndInv
\* The owner cannot be told.
<1>WriteOwnerFailsInv.
    ASSUME IndInv, NEW t \in Tasks, WriteOwnerFails(t)
    PROVE  IndInv'
  <2> USE <1>WriteOwnerFailsInv
  <2>1. /\ task[t].pc = "owner" /\ Finish(t, Res("err", 0)) /\ peers' = peers
        /\ Fail(Request(t, task[t].owner))
    BY ZenonT(60) DEF WriteOwnerFails, Stay
  <2>2. /\ "done" \in Pcs /\ FormAt(task[t], "done")
        /\ task[t].op \in {"set", "remove"} /\ task[t].key \in Keys
        /\ task[t].owner \in Nodes
    BY <2>1, Zenon DEF IndInv, TaskOK, Formed, Form, FormAt, Pcs
  <2>3. Res("err", 0) \in Result
    BY FailureType, Zenon DEF Status
  <2>4. TaskOK' /\ Forwarding'
    BY <2>1, <2>2, <2>3, <1>ResultStep, ZenonT(60) DEF Finish
  <2>5. Request(t, task[t].owner) \in Message
    BY <2>2, <1>RequestType, Zenon
  <2>6. late' \subseteq Message /\ faults' \in Nat
    BY <2>1, <2>5, <1>FailType, Zenon
  <2>7. DataOK'
    BY <2>6, Zenon DEF WriteOwnerFails, Stay, Caches, IndInv, DataOK
  <2> QED
    BY <2>4, <2>7, Zenon DEF IndInv
\* The writer's own caches.
<1>WriteHereInv.
    ASSUME IndInv, NEW t \in Tasks, WriteHere(t)
    PROVE  IndInv'
  <2> USE <1>WriteHereInv
  <2>1. task[t].pc = "here" /\ Goto(t, "list") /\ peers' = peers
    BY Zenon DEF WriteHere, Stay
  <2>2. /\ "list" \in Pcs /\ FormAt(task[t], "list")
        /\ task[t].key \in Keys /\ task[t].node \in Nodes
    BY <2>1, Zenon DEF IndInv, TaskOK, Formed, Form, FormAt, Pcs
  <2>3. TaskOK' /\ Forwarding'
    BY <2>1, <2>2, <1>GotoStep, Zenon
  <2>4. task[t].seen[task[t].key] \in Version
    BY <2>2, Zenon DEF IndInv, TaskOK, Task
  <2>5. {task[t].key} \in SUBSET Keys
    BY <2>2, Zenon
  <2>6. \/ Store(task[t].node, {task[t].key}, task[t].seen[task[t].key])
        \/ LocalRemove(task[t].node, {task[t].key})
    BY Zenon DEF WriteHere
  <2>7. main' \in [Nodes -> [Keys -> Version]] /\ hot' \in [Nodes -> [Keys -> Version]]
    BY <2>2, <2>4, <2>5, <2>6, <1>StoreType, <1>LocalRemoveType, Zenon
  <2>8. raced' \subseteq Keys
    BY <2>2, ZenonT(60) DEF WriteHere, Overlapped, IndInv, DataOK
  <2>9. DataOK'
    BY <2>7, <2>8, Zenon DEF WriteHere, Stay, IndInv, DataOK
  <2> QED
    BY <2>3, <2>9, Zenon DEF IndInv
\* A goroutine takes the requests to send and goes on to the broadcast.
<1>FanStep.
    ASSUME IndInv, NEW t \in Tasks, NEW P \in SUBSET Message,
           task' = [task EXCEPT ![t].pc = "fan", ![t].pend = P],
           task[t].pc \in {"list", "rklist"}, peers' = peers
    PROVE  TaskOK' /\ Forwarding'
  <2> USE <1>FanStep
  <2> DEFINE r == [task[t] EXCEPT !.pc = "fan", !.pend = P]
  <2>1. task[t] \in Task /\ Form(task[t])
    BY Zenon DEF IndInv, TaskOK, Formed
  <2>2. /\ r \in Task /\ r.node = task[t].node /\ r.key = task[t].key
        /\ r.parent = task[t].parent /\ r.op = task[t].op /\ r.pc = "fan"
    BY <2>1, ZenonT(60) DEF Task, Pcs
  <2>3. task' = [task EXCEPT ![t] = r]
    BY <2>1, Zenon DEF IndInv, TaskOK
  <2> HIDE DEF r
  <2>4. Form(r)
    BY <2>1, <2>2, Zenon DEF Form, FormAt
  <2> QED
    BY <2>2, <2>3, <2>4, <1>OwnStep, Zenon
\* Set lists its peers, or panics without an owner.
<1>SetListInv.
    ASSUME IndInv, NEW t \in Tasks, SetList(t)
    PROVE  IndInv'
  <2> USE <1>SetListInv
  <2> DEFINE P == {Request(t, q) : q \in (peers[task[t].node] \ {task[t].node})
                                           \ {task[t].owner}}
  <2>1. task[t].pc = "list" /\ task[t].op = "set" /\ peers' = peers
    BY Zenon DEF SetList, At, Stay
  <2>2. /\ "done" \in Pcs /\ FormAt(task[t], "done")
        /\ task[t].key \in Keys /\ task[t].node \in Nodes
    BY <2>1, Zenon DEF IndInv, TaskOK, Formed, Form, FormAt, Pcs
  <2>3. \/ Finish(t, Res("panic", 0))
        \/ task' = [task EXCEPT ![t].pc = "fan", ![t].pend = P]
    BY Zenon DEF SetList
  <2>4. Res("panic", 0) \in Result
    BY FailureType, Zenon DEF Status
  <2>5. peers[task[t].node] \in SUBSET Nodes
    BY <2>2, Zenon DEF IndInv, DataOK
  <2>6. P \in SUBSET Message
    BY <2>1, <2>2, <2>5, <1>RequestType, Zenon
  <2> HIDE DEF P
  <2>7. CASE Finish(t, Res("panic", 0))
    BY <2>7, <2>1, <2>2, <2>4, <1>ResultStep, Zenon DEF Finish, SetList, Stay, Quiet, Caches,
                                                IndInv, DataOK
  <2>8. CASE task' = [task EXCEPT ![t].pc = "fan", ![t].pend = P]
    BY <2>8, <2>1, <2>6, <1>FanStep, ZenonT(60)
       DEF SetList, Stay, Quiet, Caches, IndInv, DataOK
  <2> QED
    BY <2>3, <2>7, <2>8, Zenon
\* Remove lists its peers.
<1>RemoveListInv.
    ASSUME IndInv, NEW t \in Tasks, RemoveList(t)
    PROVE  IndInv'
  <2> USE <1>RemoveListInv
  <2> DEFINE skip == IF gen[task[t].node] = task[t].ogen THEN {task[t].owner} ELSE {}
             P == {Request(t, q) :
                     q \in peers[task[t].node] \ ({task[t].node} \cup skip)}
  <2>1. /\ task[t].pc = "list" /\ task[t].op = "remove" /\ peers' = peers
        /\ task' = [task EXCEPT ![t].pc = "fan", ![t].pend = P]
    BY Zenon DEF RemoveList, At, Stay
  <2>2. task[t].key \in Keys /\ task[t].node \in Nodes
    BY <2>1, Zenon DEF IndInv, TaskOK, Formed, Form, FormAt
  <2>3. peers[task[t].node] \in SUBSET Nodes
    BY <2>2, Zenon DEF IndInv, DataOK
  <2> HIDE DEF skip
  <2>4. P \in SUBSET Message
    BY <2>1, <2>2, <2>3, <1>RequestType, Zenon
  <2> HIDE DEF P
  <2>5. TaskOK' /\ Forwarding'
    BY <2>1, <2>4, <1>FanStep, Zenon
  <2>6. DataOK'
    BY Zenon DEF RemoveList, Stay, Quiet, Caches, IndInv, DataOK
  <2> QED
    BY <2>5, <2>6, Zenon DEF IndInv
\* A goroutine of the broadcast reaches its peer.
<1>BroadcastInv.
    ASSUME IndInv, NEW t \in Tasks, NEW msg \in task[t].pend, Broadcast(t, msg)
    PROVE  IndInv'
  <2> USE <1>BroadcastInv
  <2> DEFINE r == [task[t] EXCEPT !.pend = task[t].pend \ {msg}]
  <2>1. task[t].pc = "fan" /\ peers' = peers /\ Apply(msg)
    BY Zenon DEF Broadcast, Stay
  <2>2. task[t] \in Task /\ Form(task[t])
    BY ZenonT(60) DEF IndInv, TaskOK, Formed
  <2>3. task[t].pend \in SUBSET Message /\ msg \in Message
    BY <2>2, Zenon DEF Task
  <2>4. /\ r \in Task /\ r.node = task[t].node /\ r.key = task[t].key
        /\ r.parent = task[t].parent /\ r.op = task[t].op /\ r.pc = "fan"
    BY <2>1, <2>2, Zenon DEF Task
  <2>5. task' = [task EXCEPT ![t] = r]
    BY Zenon DEF Broadcast
  <2> HIDE DEF r
  <2>6. Form(r)
    BY <2>1, <2>2, <2>4, Zenon DEF Form, FormAt
  <2>7. TaskOK' /\ Forwarding'
    BY <2>1, <2>4, <2>5, <2>6, <1>OwnStep, Zenon
  <2>8. main' \in [Nodes -> [Keys -> Version]] /\ hot' \in [Nodes -> [Keys -> Version]]
    BY <2>1, <2>3, <1>ApplyType, ZenonT(60)
  <2>9. msg.keys \subseteq Keys
    BY <2>3, Zenon DEF Message
  <2>10. raced' \subseteq Keys
    BY <2>9, Zenon DEF Broadcast, Overlapped, IndInv, DataOK
  <2>11. DataOK'
    BY <2>8, <2>10, Zenon DEF Broadcast, Stay, IndInv, DataOK
  <2> QED
    BY <2>7, <2>11, Zenon DEF IndInv
\* A goroutine of the broadcast fails.
<1>BroadcastFailsInv.
    ASSUME IndInv, NEW t \in Tasks, NEW msg \in task[t].pend, BroadcastFails(t, msg)
    PROVE  IndInv'
  <2> USE <1>BroadcastFailsInv
  <2> DEFINE r == [task[t] EXCEPT !.pend = task[t].pend \ {msg}, !.sent = "err"]
  <2>1. task[t].pc = "fan" /\ peers' = peers /\ Fail(msg)
    BY Zenon DEF BroadcastFails, Stay
  <2>2. task[t] \in Task /\ Form(task[t])
    BY Zenon DEF IndInv, TaskOK, Formed
  <2>3. task[t].pend \in SUBSET Message /\ msg \in Message
    BY <2>2, Zenon DEF Task
  <2>4. /\ r \in Task /\ r.node = task[t].node /\ r.key = task[t].key
        /\ r.parent = task[t].parent /\ r.op = task[t].op /\ r.pc = "fan"
    BY <2>1, <2>2, ZenonT(60) DEF Task
  <2>5. task' = [task EXCEPT ![t] = r]
    BY <2>2, Zenon DEF BroadcastFails, IndInv, TaskOK
  <2> HIDE DEF r
  <2>6. Form(r)
    BY <2>1, <2>2, <2>4, Zenon DEF Form, FormAt
  <2>7. TaskOK' /\ Forwarding'
    BY <2>1, <2>4, <2>5, <2>6, <1>OwnStep, Zenon
  <2>8. late' \subseteq Message /\ faults' \in Nat
    BY <2>1, <2>3, <1>FailType, Zenon
  <2>9. DataOK'
    BY <2>8, Zenon DEF BroadcastFails, Stay, Caches, IndInv, DataOK
  <2> QED
    BY <2>7, <2>9, Zenon DEF IndInv
\* The broadcast of a Set or Remove is over.
<1>BroadcastEndInv.
    ASSUME IndInv, NEW t \in Tasks, BroadcastEnd(t)
    PROVE  IndInv'
  <2> USE <1>BroadcastEndInv
  <2> DEFINE st == IF task[t].op = "remove" THEN task[t].sent ELSE "ok"
  <2>1. /\ task[t].pc = "fan" /\ task[t].op # "removekeys" /\ peers' = peers
        /\ Finish(t, Res(st, 0))
    BY ZenonT(60) DEF BroadcastEnd, Stay
  <2>2. "done" \in Pcs /\ FormAt(task[t], "done")
    BY <2>1, Zenon DEF IndInv, TaskOK, Formed, Form, FormAt, Pcs
  <2>3. st \in Status
    BY Zenon DEF IndInv, TaskOK, Task, Status
  <2> HIDE DEF st
  <2>4. Res(st, 0) \in Result
    BY <2>3, FailureType, Zenon
  <2>5. TaskOK' /\ Forwarding'
    BY <2>1, <2>2, <2>4, <1>ResultStep, Zenon DEF Finish
  <2>6. DataOK'
    BY Zenon DEF BroadcastEnd, Stay, Quiet, Caches, IndInv, DataOK
  <2> QED
    BY <2>5, <2>6, Zenon DEF IndInv
\* A key joins the request to its owner.
<1>GroupByOwnerInv.
    ASSUME IndInv, NEW t \in Tasks, NEW k \in task[t].todo, GroupByOwner(t, k)
    PROVE  IndInv'
  <2> USE <1>GroupByOwnerInv
  <2> DEFINE n == task[t].node
             p == IF task[t].todo = {k} THEN "rkhere" ELSE task[t].pc
             T == IF task[t].todo = {k} THEN task[t].keys ELSE task[t].todo \ {k}
             G == Grouped(t, k)
             r == [task[t] EXCEPT !.pend = G, !.todo = T, !.pc = p]
  <2>1. task[t].pc = "group" /\ peers' = peers
    BY Zenon DEF GroupByOwner, Stay
  <2>2. task[t] \in Task /\ Form(task[t])
    BY ZenonT(60) DEF IndInv, TaskOK, Formed
  <2>3. /\ n \in Nodes /\ task[t].op = "removekeys" /\ k \in Keys
        /\ task[t].pend \in SUBSET Message /\ T \in SUBSET Keys
    BY <2>1, <2>2, Zenon DEF Task, Form, FormAt
  <2>4. G \in SUBSET Message
    <3> DEFINE o == Owner(peers[n], k)
               mine == {msg \in task[t].pend : msg.to = o /\ msg.gen = gen[n]}
               K == {k} \cup UNION {msg.keys : msg \in mine}
               new == [op |-> "removekeys", to |-> o, gen |-> gen[n], ver |-> 0,
                       keys |-> K]
    <3>1. CASE ~ Remote(n, k)
      BY <3>1, <2>3, Zenon DEF Grouped
    <3>2. CASE Remote(n, k)
      <4>1. G = (task[t].pend \ mine) \cup {new}
        BY <3>2, Zenon DEF Grouped
      <4>2. o \in Nodes
        BY <3>2, <2>3, <1>ForwardNearer, ZenonT(60)
      <4>3. mine \in SUBSET Message
        BY <2>3, Zenon
      <4> HIDE DEF mine, o
      <4>4. \A msg \in mine : msg.keys \in SUBSET Keys
        BY <4>3, Zenon DEF Message
      <4>5. K \in SUBSET Keys
        BY <4>4, <2>3, ZenonT(60)
      <4>6. gen[n] \in Nat /\ 0 \in Version
        <5>1. gen \in [Nodes -> Nat]
          BY Zenon DEF IndInv, DataOK
        <5> QED
          BY <2>3, <5>1, <1>ZeroVersion, Zenon
      <4> HIDE DEF K
      <4>7. new \in Message
        BY <4>2, <4>5, <4>6, Zenon DEF Message
      <4> HIDE DEF new, G
      <4> QED
        BY <4>1, <4>7, <2>3, Zenon
    <3> QED
      BY <3>1, <3>2, Zenon
  <2>5. p \in {"group", "rkhere"}
    BY <2>1, Zenon
  <2>6. task' = [task EXCEPT ![t] = r]
    BY <2>2, Zenon DEF GroupByOwner, IndInv, TaskOK
  <2> HIDE DEF p, T, G
  <2>7. /\ r \in Task /\ r.node = n /\ r.key = task[t].key
        /\ r.parent = task[t].parent /\ r.op = "removekeys" /\ r.pc = p
    BY <2>2, <2>3, <2>4, <2>5, ZenonT(60) DEF Task, Pcs
  <2> HIDE DEF r
  <2>8. Form(r)
    BY <2>3, <2>5, <2>7, Zenon DEF Form, FormAt
  <2>9. TaskOK' /\ Forwarding'
    BY <2>1, <2>6, <2>7, <2>8, <1>OwnStep, Zenon
  <2>10. DataOK'
    BY Zenon DEF GroupByOwner, Stay, Quiet, Caches, IndInv, DataOK
  <2> QED
    BY <2>9, <2>10, Zenon DEF IndInv
\* The caller's own caches.
<1>RemoveKeysHereInv.
    ASSUME IndInv, NEW t \in Tasks, NEW k \in task[t].todo, RemoveKeysHere(t, k)
    PROVE  IndInv'
  <2> USE <1>RemoveKeysHereInv
  <2> DEFINE p == IF task[t].todo = {k} THEN "rklist" ELSE task[t].pc
             r == [task[t] EXCEPT !.todo = task[t].todo \ {k}, !.pc = p]
  <2>1. /\ task[t].pc = "rkhere" /\ peers' = peers
        /\ LocalRemove(task[t].node, {k}) /\ Overlapped(t, {k})
    BY Zenon DEF RemoveKeysHere, Stay
  <2>2. task[t] \in Task /\ Form(task[t])
    BY Zenon DEF IndInv, TaskOK, Formed
  <2>3. /\ task[t].node \in Nodes /\ task[t].op = "removekeys"
        /\ k \in Keys /\ {k} \in SUBSET Keys
    BY <2>1, <2>2, Zenon DEF Task, Form, FormAt
  <2>4. p \in {"rkhere", "rklist"}
    BY <2>1, Zenon
  <2>5. task' = [task EXCEPT ![t] = r]
    BY <2>2, Zenon DEF RemoveKeysHere, IndInv, TaskOK
  <2> HIDE DEF p
  <2>6. /\ r \in Task /\ r.node = task[t].node /\ r.key = task[t].key
        /\ r.parent = task[t].parent /\ r.op = "removekeys" /\ r.pc = p
    BY <2>2, <2>3, <2>4, ZenonT(60) DEF Task, Pcs
  <2> HIDE DEF r
  <2>7. Form(r)
    BY <2>3, <2>4, <2>6, Zenon DEF Form, FormAt
  <2>8. TaskOK' /\ Forwarding'
    BY <2>1, <2>5, <2>6, <2>7, <1>OwnStep, Zenon
  <2>9. main' \in [Nodes -> [Keys -> Version]] /\ hot' \in [Nodes -> [Keys -> Version]]
    BY <2>1, <2>3, <1>LocalRemoveType, Zenon
  <2>10. raced' \subseteq Keys
    BY <2>1, <2>3, Zenon DEF Overlapped, IndInv, DataOK
  <2>11. DataOK'
    BY <2>9, <2>10, Zenon DEF RemoveKeysHere, Stay, IndInv, DataOK
  <2> QED
    BY <2>8, <2>11, Zenon DEF IndInv
\* The peers that own none of the keys.
<1>RemoveKeysListInv.
    ASSUME IndInv, NEW t \in Tasks, RemoveKeysList(t)
    PROVE  IndInv'
  <2> USE <1>RemoveKeysListInv
  <2> DEFINE n == task[t].node
             owners == {msg.to : msg \in {x \in task[t].pend : x.gen = gen[n]}}
             M(q) == [op |-> "removekeys", to |-> q, gen |-> gen[n], ver |-> 0,
                      keys |-> task[t].keys]
             P == task[t].pend \cup {M(q) : q \in peers[n] \ ({n} \cup owners)}
  <2>1. /\ task[t].pc = "rklist" /\ peers' = peers
        /\ task' = [task EXCEPT ![t].pc = "fan", ![t].pend = P]
    BY Zenon DEF RemoveKeysList, Stay, IndInv, TaskOK
  <2>2. task[t] \in Task /\ task[t].node \in Nodes
    BY <2>1, Zenon DEF IndInv, TaskOK, Formed, Form, FormAt
  <2>3. task[t].pend \in SUBSET Message /\ task[t].keys \in SUBSET Keys
    BY <2>2, ZenonT(60) DEF Task
  <2>4. peers[n] \in SUBSET Nodes /\ gen[n] \in Nat /\ 0 \in Version
    <3>1. peers \in [Nodes -> SUBSET Nodes] /\ gen \in [Nodes -> Nat]
      BY Zenon DEF IndInv, DataOK
    <3> QED
      BY <2>2, <3>1, <1>ZeroVersion, Zenon
  <2>5. \A q \in Nodes : M(q) \in Message
    BY <2>3, <2>4, Zenon DEF Message
  <2> HIDE DEF owners, M
  <2>6. P \in SUBSET Message
    BY <2>3, <2>4, <2>5, Zenon
  <2> HIDE DEF P
  <2>7. TaskOK' /\ Forwarding'
    BY <2>1, <2>6, <1>FanStep, ZenonT(60)
  <2>8. DataOK'
    BY ZenonT(60) DEF RemoveKeysList, Stay, Quiet, Caches, IndInv, DataOK
  <2> QED
    BY <2>7, <2>8, Zenon DEF IndInv
\* RemoveKeys returns.
<1>RemoveKeysReturnInv.
    ASSUME IndInv, NEW t \in Tasks, RemoveKeysReturn(t)
    PROVE  IndInv'
  <2> USE <1>RemoveKeysReturnInv
  <2>1. task[t].pc = "fan" /\ Return(t, Res(task[t].sent, 0)) /\ peers' = peers
    BY Zenon DEF RemoveKeysReturn, At, Stay
  <2>2. task[t].sent \in Status
    BY Zenon DEF IndInv, TaskOK, Task, Status
  <2>3. Res(task[t].sent, 0) \in Result
    BY <2>2, FailureType, Zenon
  <2>4. TaskOK' /\ Forwarding' /\ floor' \in [{"one", "many"} -> [Keys -> Version]]
    BY <2>1, <2>3, <1>ReturnStep, Zenon
  <2>5. DataOK'
    BY <2>4, Zenon DEF RemoveKeysReturn, Stay, Caches, IndInv, DataOK
  <2> QED
    BY <2>4, <2>5, Zenon DEF IndInv
\* A caller enters the API.
<1>StartOpInv.
    ASSUME IndInv, NEW p \in Procs, StartOp(p)
    PROVE  IndInv'
  <2> USE <1>StartOpInv
  <2>1. PICK n \in Nodes :
          \/ \E k \in Keys : StartGet(p, n, k) \/ StartSet(p, n, k)
                               \/ StartRemove(p, n, k)
          \/ \E K \in SUBSET Keys : StartRemoveKeys(p, n, K)
    BY Zenon DEF StartOp
  <2>2. p \in Tasks
    BY Zenon DEF Tasks
  <2>3. ASSUME NEW op, NEW r \in Task, Form(r), r.parent = Nil, Start(p, op, n, r)
        PROVE  IndInv'
    <3>1. TaskOK' /\ Forwarding'
      BY <2>2, <2>3, <1>StartStep, ZenonT(60) DEF Start
    <3>2. left' \in [Procs -> Nat]
      <4>1. /\ left \in [Procs -> Nat] /\ left[p] > 0
            /\ left' = [left EXCEPT ![p] = @ - 1]
        BY <2>3, Zenon DEF Start, IndInv, DataOK
      <4> QED
        BY <4>1, SMTT(30)
    <3>3. DataOK'
      BY <2>3, <3>2, Zenon DEF Start, Quiet, IndInv, DataOK
    <3> QED
      BY <3>1, <3>3, Zenon DEF IndInv
  <2>4. NoTask \in Task /\ NoTask.parent = Nil
    BY NoTaskType, ZenonT(60) DEF NoTask
  <2>5. src \in [Keys -> Version] /\ 0 \in Version
    BY <1>ZeroVersion, Zenon DEF IndInv, DataOK
  <2>6. ASSUME NEW k \in Keys, StartGet(p, n, k)
        PROVE  IndInv'
    BY <2>3, <2>6, GetTaskType, Zenon DEF StartGet
  <2>7. ASSUME NEW k \in Keys, NEW op \in {"set", "remove"},
               Start(p, op, n, WriteTask(op, n, k))
        PROVE  IndInv'
    <3> DEFINE seen == [NoneSeen EXCEPT ![k] = src[k]]
               r == [NoTask EXCEPT !.op = op, !.node = n, !.key = k, !.pc = "do",
                                   !.seen = seen]
    <3>1. seen \in [Keys -> Version]
      BY <2>5, Zenon DEF NoneSeen
    <3> HIDE DEF seen
    <3>2. /\ r \in Task /\ r.op = op /\ r.node = n /\ r.key = k /\ r.pc = "do"
          /\ r.parent = Nil
      BY <3>1, <2>4, ZenonT(60) DEF Task, Pcs
    <3>3. Start(p, op, n, r)
      BY <2>7, Zenon DEF WriteTask, seen
    <3> HIDE DEF r
    <3>4. Form(r)
      BY <3>2, Zenon DEF Form, FormAt
    <3> QED
      BY <3>2, <3>3, <3>4, <2>3, Zenon
  <2>8. ASSUME NEW K \in SUBSET Keys, StartRemoveKeys(p, n, K)
        PROVE  IndInv'
    <3> DEFINE seen == [k \in Keys |-> IF k \in K THEN src[k] ELSE 0]
               r == [NoTask EXCEPT !.op = "removekeys", !.node = n, !.keys = K,
                                   !.todo = K, !.seen = seen, !.pc = "group"]
    <3>1. seen \in [Keys -> Version]
      BY <2>5, Zenon
    <3>2. Start(p, "removekeys", n, r)
      BY <2>8, Zenon DEF StartRemoveKeys
    <3> HIDE DEF seen
    <3>3. /\ r \in Task /\ r.op = "removekeys" /\ r.node = n /\ r.pc = "group"
          /\ r.parent = Nil
      BY <3>1, <2>4, ZenonT(60) DEF Task, Pcs
    <3> HIDE DEF r
    <3>4. Form(r)
      BY <3>3, Zenon DEF Form, FormAt
    <3> QED
      BY <3>2, <3>3, <3>4, <2>3, Zenon
  <2> QED
    BY <2>1, <2>6, <2>7, <2>8, Zenon DEF StartSet, StartRemove
\* A step that leaves the goroutines and the peer lists alone.
<1>TasksKept.
    ASSUME IndInv, task' = task, peers' = peers
    PROVE  TaskOK' /\ Forwarding'
  <2> USE <1>TasksKept
  <2>1. TaskOK'
    BY Zenon DEF IndInv, TaskOK, Formed
  <2>2. Forwarding'
    BY <1>StructureKept, Zenon
  <2> QED
    BY <2>1, <2>2, Zenon
\* A late request arrives.
<1>DeliverLateInv.
    ASSUME IndInv, NEW msg \in late, DeliverLate(msg)
    PROVE  IndInv'
  <2> USE <1>DeliverLateInv
  <2>1. msg \in Message
    BY Zenon DEF IndInv, DataOK
  <2>2. main' \in [Nodes -> [Keys -> Version]] /\ hot' \in [Nodes -> [Keys -> Version]]
    BY <2>1, <1>ApplyType, Zenon DEF DeliverLate
  <2>3. DataOK'
    BY <2>2, Zenon DEF DeliverLate, Stay, IndInv, DataOK
  <2> QED
    BY <2>3, <1>TasksKept, Zenon DEF DeliverLate, Stay, IndInv
\* SetPeers replaces a picker.
<1>SetPeersInv.
    ASSUME IndInv, NEW n \in Nodes, NEW S \in SUBSET Nodes, SetPeers(n, S)
    PROVE  IndInv'
  <2> USE <1>SetPeersInv
  <2>1. SelfListed' /\ peers' \in [Nodes -> SUBSET Nodes] /\ gen' \in [Nodes -> Nat]
    BY SMTT(30) DEF SetPeers, IndInv, DataOK, Forwarding, SelfListed
  <2>2. task' = task
    BY Zenon DEF SetPeers
  <2>3. TaskOK' /\ Descends' /\ OnlyChild'
    BY <2>2, Zenon DEF IndInv, TaskOK, Formed, Forwarding, Descends, OnlyChild
  <2>4. DataOK'
    BY <2>1, Zenon DEF SetPeers, IndInv, DataOK
  <2> QED
    BY <2>1, <2>3, <2>4, ZenonT(60) DEF IndInv, Forwarding
\* The application writes its source.
<1>WriteSourceInv.
    ASSUME IndInv, NEW k \in Keys, WriteSource(k)
    PROVE  IndInv'
  <2> USE <1>WriteSourceInv
  <2>1. src' \in [Keys -> Version]
    <3>1. src[k] \in Nat /\ src[k] < MaxVer /\ MaxVer \in Nat
      BY BoundAssumption, SMTT(30) DEF BoundAssumption, WriteSource, IndInv, DataOK, Version
    <3>2. src[k] + 1 \in Version
      BY <3>1, SMTT(30) DEF Version
    <3> QED
      BY <3>2, ZenonT(60) DEF WriteSource, IndInv, DataOK
  <2>2. DataOK'
    BY <2>1, ZenonT(60) DEF WriteSource, Quiet, Caches, IndInv, DataOK
  <2> QED
    BY <2>2, <1>TasksKept, Zenon DEF WriteSource, IndInv
\* A call is refused.
<1>GetNilDestInv.
    ASSUME IndInv, NEW p \in Procs, NEW n \in Nodes, GetNilDest(p, n)
    PROVE  IndInv'
  <2> USE <1>GetNilDestInv
  <2>1. left' \in [Procs -> Nat]
    <3>1. /\ left \in [Procs -> Nat] /\ left[p] > 0
          /\ left' = [left EXCEPT ![p] = @ - 1]
      BY NilDestFrame, Zenon DEF IndInv, DataOK
    <3> QED
      BY <3>1, SMTT(30)
  <2>2. DataOK'
    BY <2>1, NilDestFrame, ZenonT(60) DEF IndInv, DataOK
  <2> QED
    BY <2>2, NilDestFrame, <1>TasksKept, Zenon DEF IndInv
\* A cache drops an entry.
<1>EvictInv.
    ASSUME IndInv, NEW n \in Nodes, NEW k \in Keys, Evict(n, k)
    PROVE  IndInv'
  <2> USE <1>EvictInv
  <2>1. 0 \in Version
    BY <1>ZeroVersion, Zenon
  <2>2. main' \in [Nodes -> [Keys -> Version]] /\ hot' \in [Nodes -> [Keys -> Version]]
    <3>1. main \in [Nodes -> [Keys -> Version]] /\ hot \in [Nodes -> [Keys -> Version]]
      BY Zenon DEF IndInv, DataOK
    <3>2. CASE main' = [main EXCEPT ![n][k] = 0] /\ hot' = hot
      BY <3>1, <3>2, <2>1, Zenon
    <3>3. CASE hot' = [hot EXCEPT ![n][k] = 0] /\ main' = main
      BY <3>1, <3>3, <2>1, Zenon
    <3> QED
      BY <3>2, <3>3, Zenon DEF Evict
  <2>3. DataOK'
    BY <2>2, Zenon DEF Evict, Stay, Quiet, IndInv, DataOK
  <2> QED
    BY <2>3, <1>TasksKept, Zenon DEF Evict, Stay, IndInv
\* Every step of a goroutine preserves it.
<1>StepInv.
    ASSUME IndInv, NEW t \in Tasks, Step(t)
    PROVE  IndInv'
  BY <1>StepInv, <1>DoLeadInv, <1>DoJoinInv, <1>DoJoinLateInv, <1>LeaderDoneInv, <1>LeaderReturnInv,
     <1>DuplicateReturnInv, <1>LookupMainInv, <1>LookupHotInv, <1>LoadFromPeerInv,
     <1>LoadHereInv, <1>PeerValueInv, <1>PeerErrorInv, <1>RunGetterInv, <1>PopulateMainInv,
     <1>WritePickInv, <1>WriteOwnerInv, <1>WriteHereInv, <1>SetListInv, <1>RemoveListInv,
     <1>BroadcastInv, <1>BroadcastEndInv, <1>GroupByOwnerInv, <1>RemoveKeysHereInv,
     <1>RemoveKeysListInv, <1>RemoveKeysReturnInv, ZenonT(60) DEF Step
\* And so does every failure.
<1>FaultInv.
    ASSUME IndInv, NEW t \in Tasks, Fault(t)
    PROVE  IndInv'
  BY <1>FaultInv, <1>PeerUnreachableInv, <1>ReplyLostInv, <1>WriteOwnerFailsInv, <1>BroadcastFailsInv, Zenon DEF Fault
<1> SUFFICES ASSUME IndInv, [Next]_vars PROVE IndInv'
  BY Zenon
<1>1. CASE Next
  BY <1>1, <1>StepInv, <1>FaultInv, <1>StartOpInv, <1>DeliverLateInv, <1>SetPeersInv,
     <1>WriteSourceInv, <1>EvictInv, <1>GetNilDestInv, ZenonT(60) DEF Next, Proceed
<1>2. CASE UNCHANGED vars
  <2>1. DataOK' /\ task' = task /\ peers' = peers
    BY <1>2, Zenon DEF vars, IndInv, DataOK
  <2> QED
    BY <2>1, <1>TasksKept, Zenon DEF IndInv
<1> QED
  BY <1>1, <1>2, Zenon

\* The invariant holds throughout.
THEOREM Invariance == Spec => []IndInv
BY InitInv, NextInv, PTL DEF Spec

\* Every result, request and cached version that group.go and the transport
\* hand around is well typed, for any number of nodes, keys and goroutines.
THEOREM AlwaysTypeOK == Spec => []TypeOK
<1>1. IndInv => TypeOK
  BY ZenonT(60) DEF IndInv, DataOK, TaskOK, TypeOK
<1> QED
  BY <1>1, Invariance, PTL

\* Whatever lists SetPeers installs, whenever it does and whatever fails, a
\* load that getFromPeer forwards goes to a node strictly nearer to the key.
THEOREM AlwaysForwardingDescends == Spec => []ForwardingDescends
<1>1. IndInv => ForwardingDescends
  BY Zenon DEF IndInv, Forwarding, Descends, ForwardingDescends, Tasks
<1> QED
  BY <1>1, Invariance, PTL

-------------------------------------------------------------------------------
(***************************************************************************)
(* The Getter.  While nothing fails and the nodes agree on the peers, it   *)
(* runs for a key on its owner only and once at a time, with writes and    *)
(* evictions under way.                                                    *)
(***************************************************************************)

\* A goroutine inside the callback of loadGroup.Do, or about to end the flight.
Leads(r) ==
  /\ r.op = "get"
  /\ r.pc \in {"recheck", "recheckHot", "load", "rpc", "reply", "local", "fill",
               "done", "delete"}

\* The state of the flight it leads.
Stage(r) == IF r.pc = "delete" THEN "done" ELSE "pending"

Registered(t) ==
  Leads(task[t]) =>
    flight["get"][task[t].node][task[t].key].state = Stage(task[t])

\* A flight has one leader, and the map has its entry until it ends.
LeaderRegistered == \A t \in Tasks : Registered(t)

LeaderAlone ==
  \A t, u \in Tasks :
    /\ Leads(task[t]) /\ Leads(task[u])
    /\ task[t].node = task[u].node /\ task[t].key = task[u].key
    => t = u

\* A result that does not make the client fall back to its own Getter.
Tame(r) == r.st \notin {"net", "panic"}

\* Without a failure there are no others.
Calm ==
  faults = 0 =>
    /\ \A t \in Tasks : task[t].op = "get" => Tame(task[t].res)
    /\ \A n \in Nodes, k \in Keys : Tame(flight["get"][n][k].res)

AtOwner ==
  Undisturbed =>
    \A t \in Tasks : task[t].pc = "local" => task[t].node = Owner(Nodes, task[t].key)

\* Only loads are forwarded.
Asking == \A t \in Tasks : task[t].parent # Nil => task[t].op = "get"

GetterInv == LeaderRegistered /\ LeaderAlone /\ Calm /\ AtOwner /\ Asking

\* Goroutine u goes from r to s without leaving or entering a flight at its head.
Follows(r, s) ==
  /\ Leads(s) => /\ Leads(r) /\ s.node = r.node /\ s.key = r.key
                 /\ Stage(s) = Stage(r)
  /\ faults' = 0 /\ s.op = "get" => Tame(s.res)
  /\ Undisturbed' /\ s.pc = "local" => s.node = Owner(Nodes, s.key)
  /\ s.parent # Nil => s.op = "get"

\* Failures and changes of peer lists are not undone.
Ages == /\ faults' = 0 => faults = 0
        /\ Undisturbed' => Undisturbed

-------------------------------------------------------------------------------
(* Steps *)

\* A flight of another group is none of loadGroup.
LEMMA OtherFlight ==
  ASSUME IndInv, NEW t \in Tasks, NEW f, SetFlight(t, f), task[t].op \in {"set", "remove"}
  PROVE  flight'["get"] = flight["get"]
<1>1. flight \in [{"get", "set", "remove"} -> [Nodes -> [Keys ->
                   [state : {"none", "pending", "done"}, res : Result]]]]
  BY Zenon DEF IndInv, DataOK
<1> QED
  BY <1>1, Zenon DEF SetFlight

\* A flight of loadGroup changes, and no other.
LEMMA GetFlight ==
  ASSUME IndInv, NEW t \in Tasks, NEW f, SetFlight(t, f), task[t].op = "get",
         task[t].node \in Nodes, task[t].key \in Keys
  PROVE  \A n \in Nodes, k \in Keys :
           flight'["get"][n][k] = IF n = task[t].node /\ k = task[t].key THEN f
                                  ELSE flight["get"][n][k]
<1>1. flight \in [{"get", "set", "remove"} -> [Nodes -> [Keys ->
                   [state : {"none", "pending", "done"}, res : Result]]]]
  BY Zenon DEF IndInv, DataOK
<1> QED
  BY <1>1, Zenon DEF SetFlight

-------------------------------------------------------------------------------
(* singleflight.Do *)

\* Where a goroutine in a flight or a Get works.
LEMMA Place ==
  ASSUME IndInv, NEW t \in Tasks,
         Leads(task[t]) \/ task[t].pc \in {"do", "wait", "wake", "done", "delete"}
  PROVE  task[t].node \in Nodes /\ task[t].key \in Keys
<1>1. Form(task[t])
  BY Zenon DEF IndInv, TaskOK, Formed
<1> QED
  BY <1>1, Zenon DEF Form, FormAt, Leads

\* Goto leaves everything else alone.
LEMMA GotoFacts ==
  ASSUME IndInv, NEW t \in Tasks, NEW p, Goto(t, p)
  PROVE  /\ \A u \in Tasks \ {t} : task'[u] = task[u]
         /\ task'[t].node = task[t].node /\ task'[t].key = task[t].key
         /\ task'[t].parent = task[t].parent /\ task'[t].op = task[t].op
         /\ task'[t].res = task[t].res /\ task'[t].pc = p
<1>1. task \in [Tasks -> Task] /\ task[t] \in Task
  BY Zenon DEF IndInv, TaskOK
<1>2. (\A u \in Tasks \ {t} : task'[u] = task[u]) /\ task'[t] = [task[t] EXCEPT !.pc = p]
  BY <1>1, Zenon DEF Goto
<1> QED
  BY <1>1, <1>2, ZenonT(60) DEF Task

-------------------------------------------------------------------------------
(* Everything else *)

\* A step of a write that gives it a new list of requests.
LEMMA ListStep ==
  ASSUME IndInv, NEW t \in Tasks, NEW p, NEW P,
         task' = [task EXCEPT ![t].pc = p, ![t].pend = P]
  PROVE  /\ \A u \in Tasks \ {t} : task'[u] = task[u]
         /\ task'[t].op = task[t].op /\ task'[t].parent = task[t].parent
<1>1. task \in [Tasks -> Task] /\ task[t] \in Task
  BY Zenon DEF IndInv, TaskOK
<1> QED
  BY <1>1, Zenon DEF Task

\* And one that gives it its result.
LEMMA FinishStep ==
  ASSUME IndInv, NEW t \in Tasks, NEW r, Finish(t, r)
  PROVE  /\ \A u \in Tasks \ {t} : task'[u] = task[u]
         /\ task'[t].op = task[t].op /\ task'[t].parent = task[t].parent
<1>1. task \in [Tasks -> Task] /\ task[t] \in Task
  BY Zenon DEF IndInv, TaskOK
<1> QED
  BY <1>1, ZenonT(60) DEF Finish, Task

\* Set, Remove and RemoveKeys, up to their return.
Writing(t) ==
  \/ WritePick(t) \/ WriteOwner(t) \/ WriteOwnerFails(t) \/ WriteHere(t)
  \/ SetList(t) \/ RemoveList(t) \/ BroadcastEnd(t) \/ RemoveKeysList(t)
  \/ \E msg \in task[t].pend : Broadcast(t, msg) \/ BroadcastFails(t, msg)
  \/ \E k \in task[t].todo : GroupByOwner(t, k) \/ RemoveKeysHere(t, k)

\* A write stays one, and leaves the flights of loadGroup alone.
LEMMA WritingKeeps ==
  ASSUME IndInv, NEW t \in Tasks, Writing(t)
  PROVE  /\ flight' = flight /\ task[t].op # "get"
         /\ \A u \in Tasks \ {t} : task'[u] = task[u]
         /\ task'[t].op = task[t].op /\ task'[t].parent = task[t].parent
<1>1. task \in [Tasks -> Task] /\ task[t] \in Task /\ Form(task[t])
  BY Zenon DEF IndInv, TaskOK, Formed
<1>2. /\ flight' = flight
      /\ task[t].pc \in {"pick", "owner", "here", "list", "fan", "rklist", "group", "rkhere"}
  BY ZenonT(60)
     DEF Writing, WritePick, WriteOwner, WriteOwnerFails, WriteHere, SetList, RemoveList,
         BroadcastEnd, RemoveKeysList, Broadcast, BroadcastFails, GroupByOwner,
         RemoveKeysHere, At
<1>3. task[t].op # "get"
  BY <1>1, <1>2, ZenonT(60) DEF Form, FormAt
<1>4. /\ \A u \in Tasks \ {t} : task'[u] = task[u]
      /\ task'[t].op = task[t].op /\ task'[t].parent = task[t].parent
  <2>1. CASE WritePick(t)
    BY <1>1, <2>1, Zenon DEF WritePick, Task
  <2>2. CASE WriteOwner(t) \/ WriteHere(t)
    BY <2>2, GotoFacts, Zenon DEF WriteOwner, WriteHere
  <2>3. CASE WriteOwnerFails(t) \/ BroadcastEnd(t)
    BY <2>3, FinishStep, Zenon DEF WriteOwnerFails, BroadcastEnd
  <2>4. CASE SetList(t)
    <3>1. (\E r : Finish(t, r)) \/ \E P : task' = [task EXCEPT ![t].pc = "fan", ![t].pend = P]
      BY <2>4, ZenonT(60) DEF SetList
    <3> QED
      BY <3>1, FinishStep, ListStep, ZenonT(60)
  <2>5. CASE RemoveList(t)
    BY <2>5, ListStep, ZenonT(60) DEF RemoveList
  <2>6. CASE RemoveKeysList(t)
    BY <1>1, <2>6, Zenon DEF RemoveKeysList, Task
  <2>7. ASSUME NEW msg, Broadcast(t, msg) \/ BroadcastFails(t, msg)
        PROVE  /\ \A u \in Tasks \ {t} : task'[u] = task[u]
               /\ task'[t].op = task[t].op /\ task'[t].parent = task[t].parent
    BY <1>1, <2>7 DEF Broadcast, BroadcastFails, Task
  <2>8. ASSUME NEW k, GroupByOwner(t, k)
        PROVE  /\ \A u \in Tasks \ {t} : task'[u] = task[u]
               /\ task'[t].op = task[t].op /\ task'[t].parent = task[t].parent
    <3>1. \A u \in Tasks \ {t} : task'[u] = task[u]
      BY <1>1, <2>8, ZenonT(60) DEF GroupByOwner
    <3>2. \E P, d, p : task'[t] = [task[t] EXCEPT !.pend = P, !.todo = d, !.pc = p]
      BY <1>1, <2>8, ZenonT(60) DEF GroupByOwner
    <3> QED
      BY <1>1, <3>1, <3>2, ZenonT(60) DEF Task
  <2>9. ASSUME NEW k, RemoveKeysHere(t, k)
        PROVE  /\ \A u \in Tasks \ {t} : task'[u] = task[u]
               /\ task'[t].op = task[t].op /\ task'[t].parent = task[t].parent
    <3>1. \A u \in Tasks \ {t} : task'[u] = task[u]
      BY <1>1, <2>9, ZenonT(60) DEF RemoveKeysHere
    <3>2. \E d, p : task'[t] = [task[t] EXCEPT !.todo = d, !.pc = p]
      BY <1>1, <2>9, ZenonT(60) DEF RemoveKeysHere
    <3> QED
      BY <1>1, <3>1, <3>2, ZenonT(60) DEF Task
  <2> QED
    BY <2>1, <2>2, <2>3, <2>4, <2>5, <2>6, <2>7, <2>8, <2>9, Zenon DEF Writing
<1> QED
  BY <1>2, <1>3, <1>4, Zenon

-------------------------------------------------------------------------------
(* The callers and the environment *)

\* A goroutine changes no peer list, and takes back no failure.
LEMMA GoroutineAges ==
  ASSUME NEW t, Step(t) \/ Fault(t)
  PROVE  peers' = peers /\ gen' = gen /\ faults' \in {faults, faults + 1}
<1>1. CASE DoLead(t) \/ DoJoin(t) \/ DoJoinLate(t)
  BY <1>1, ZenonT(60) DEF DoLead, DoJoin, DoJoinLate, Stay, Quiet
<1>2. CASE LeaderDone(t) \/ LeaderReturn(t) \/ DuplicateReturn(t)
  BY <1>2, ZenonT(60) DEF LeaderDone, LeaderReturn, DuplicateReturn, Stay, Quiet
<1>3. CASE LookupMain(t) \/ LookupHot(t)
  BY <1>3, ZenonT(60) DEF LookupMain, LookupHot, Stay, Quiet
<1>4. CASE LoadFromPeer(t) \/ LoadHere(t) \/ PeerValue(t) \/ PeerError(t)
  BY <1>4, Zenon DEF LoadFromPeer, LoadHere, PeerValue, PeerError, Stay, Quiet
<1>5. CASE RunGetter(t) \/ PopulateMain(t)
  BY <1>5, Zenon DEF RunGetter, PopulateMain, Stay, Quiet
<1>6. CASE WritePick(t) \/ WriteOwner(t) \/ WriteHere(t)
  BY <1>6, Zenon DEF WritePick, WriteOwner, WriteHere, Stay, Quiet
<1>7. CASE SetList(t) \/ RemoveList(t) \/ BroadcastEnd(t)
  BY <1>7, Zenon DEF SetList, RemoveList, BroadcastEnd, Stay, Quiet
<1>8. ASSUME NEW msg, Broadcast(t, msg) \/ BroadcastFails(t, msg)
      PROVE  peers' = peers /\ gen' = gen /\ faults' \in {faults, faults + 1}
  BY <1>8, ZenonT(60) DEF Broadcast, BroadcastFails, Fail, Stay, Quiet
<1>9. ASSUME NEW k, GroupByOwner(t, k) \/ RemoveKeysHere(t, k)
      PROVE  peers' = peers /\ gen' = gen /\ faults' \in {faults, faults + 1}
  BY <1>9, ZenonT(60) DEF GroupByOwner, RemoveKeysHere, Stay, Quiet
<1>10. CASE RemoveKeysList(t) \/ RemoveKeysReturn(t)
  BY <1>10, Zenon DEF RemoveKeysList, RemoveKeysReturn, Stay, Quiet
<1>11. ASSUME NEW st, PeerUnreachable(t, st) \/ ReplyLost(t, st)
       PROVE  peers' = peers /\ gen' = gen /\ faults' \in {faults, faults + 1}
  BY <1>11, ZenonT(60) DEF PeerUnreachable, ReplyLost, Stay
<1>12. CASE WriteOwnerFails(t)
  BY <1>12, ZenonT(60) DEF WriteOwnerFails, Fail, Stay
<1> QED
  BY <1>1, <1>2, <1>3, <1>4, <1>5, <1>6, <1>7, <1>8, <1>9, <1>10, <1>11, <1>12,
     ZenonT(60) DEF Step, Fault

\* Nor does anything else.
LEMMA NextAges ==
  ASSUME IndInv, [Next]_vars
  PROVE  Ages
<1>1. faults \in Nat /\ gen \in [Nodes -> Nat] /\ peers \in [Nodes -> SUBSET Nodes]
  BY Zenon DEF IndInv, DataOK
<1>2. ASSUME peers' = peers, gen' = gen, faults' \in {faults, faults + 1}
      PROVE  Ages
  BY <1>1, <1>2, SMTT(30) DEF Ages, Undisturbed
<1>3. ASSUME NEW n \in Nodes, NEW S \in SUBSET Nodes, SetPeers(n, S)
      PROVE  Ages
  <2>1. faults' = faults /\ gen' = [gen EXCEPT ![n] = @ + 1]
    BY <1>3, Zenon DEF SetPeers
  <2>2. gen'[n] # 0
    BY <1>1, <2>1, SMTT(30)
  <2> QED
    BY <2>1, <2>2, Zenon DEF Ages, Undisturbed
<1>4. ASSUME NEW t \in Tasks, Step(t) \/ Fault(t)
      PROVE  Ages
  BY <1>2, <1>4, GoroutineAges, Zenon
<1>5. ASSUME NEW p \in Procs, StartOp(p)
      PROVE  Ages
  <2>1. peers' = peers /\ gen' = gen /\ faults' = faults
    BY <1>5, ZenonT(60) DEF StartOp, StartGet, StartSet, StartRemove, StartRemoveKeys,
                            Start, Quiet
  <2> QED
    BY <1>2, <2>1, Zenon
<1>6. ASSUME NEW msg, DeliverLate(msg)
      PROVE  Ages
  BY <1>2, <1>6, Zenon DEF DeliverLate, Stay
<1>7. ASSUME NEW k, WriteSource(k)
      PROVE  Ages
  BY <1>2, <1>7, Zenon DEF WriteSource, Quiet
<1>8. ASSUME NEW n, NEW k, Evict(n, k)
      PROVE  Ages
  BY <1>2, <1>8, Zenon DEF Evict, Stay, Quiet
<1>9. CASE UNCHANGED vars
  BY <1>2, <1>9, Zenon DEF vars
<1>10. ASSUME NEW p, NEW n, GetNilDest(p, n)
       PROVE  Ages
  BY <1>2, <1>10, NilDestFrame, Zenon
<1> QED
  BY <1>3, <1>4, <1>5, <1>6, <1>7, <1>8, <1>9, <1>10, ZenonT(60) DEF Next, Proceed

-------------------------------------------------------------------------------
(* The invariant *)

\* No goroutine runs at first.
LEMMA InitGets == Init => GetterInv
<1> SUFFICES ASSUME Init PROVE GetterInv
  BY Zenon
<1>1. /\ NoTask.op = "none" /\ NoTask.parent = Nil /\ NoTask.pc = "idle"
      /\ Tame(NoFlight.res)
  BY AtRest, Zenon DEF Tame
<1>2. \A t \in Tasks : task[t] = NoTask
  BY Zenon DEF Init
<1>3. \A n \in Nodes, k \in Keys : flight["get"][n][k] = NoFlight
  BY Zenon DEF Init
<1>4. \A t \in Tasks : ~ Leads(task[t])
  BY <1>1, <1>2, Zenon DEF Leads
<1>5. LeaderRegistered /\ LeaderAlone
  BY <1>4, Zenon DEF LeaderRegistered, Registered, LeaderAlone
<1>6. Calm /\ AtOwner /\ Asking
  BY <1>1, <1>2, <1>3, Zenon DEF Calm, AtOwner, Asking
<1> QED
  BY <1>5, <1>6, Zenon DEF GetterInv

\* Every step keeps it.
LEMMA NextGets == IndInv /\ IndInv' /\ GetterInv /\ [Next]_vars => GetterInv'
\* What a goroutine was, it may stay.
<1>SameFollows.
    ASSUME GetterInv, Ages, NEW u \in Tasks, task'[u] = task[u]
    PROVE  Follows(task[u], task'[u])
  BY <1>SameFollows, Zenon DEF GetterInv, Calm, AtOwner, Asking, Ages, Follows
\* A step that leaves the flights of loadGroup alone.
<1>FlightsKept.
    ASSUME GetterInv, Ages, flight'["get"] = flight["get"],
           \A u \in Tasks : task'[u] = task[u] \/ Follows(task[u], task'[u])
    PROVE  GetterInv'
  <2> USE <1>FlightsKept
  <2>1. \A u \in Tasks : Follows(task[u], task'[u])
    BY <1>SameFollows, Zenon
  <2>2. LeaderRegistered'
    <3> SUFFICES ASSUME NEW t \in Tasks, Leads(task'[t])
                 PROVE  flight'["get"][task'[t].node][task'[t].key].state = Stage(task'[t])
      BY Zenon DEF LeaderRegistered, Registered
    <3>1. /\ Leads(task[t]) /\ task'[t].node = task[t].node
          /\ task'[t].key = task[t].key /\ Stage(task'[t]) = Stage(task[t])
      BY <2>1, Zenon DEF Follows
    <3> QED
      BY <3>1, Zenon DEF GetterInv, LeaderRegistered, Registered
  <2>3. LeaderAlone'
    <3> SUFFICES ASSUME NEW t \in Tasks, NEW u \in Tasks, Leads(task'[t]), Leads(task'[u]),
                        task'[t].node = task'[u].node, task'[t].key = task'[u].key
                 PROVE  t = u
      BY Zenon DEF LeaderAlone
    <3>1. /\ Leads(task[t]) /\ task'[t].node = task[t].node /\ task'[t].key = task[t].key
          /\ Leads(task[u]) /\ task'[u].node = task[u].node /\ task'[u].key = task[u].key
      BY <2>1, Zenon DEF Follows
    <3> QED
      BY <3>1, Zenon DEF GetterInv, LeaderAlone
  <2>4. Calm'
    BY <2>1, Zenon DEF GetterInv, Calm, Ages, Follows
  <2>5. AtOwner' /\ Asking'
    BY <2>1, Zenon DEF AtOwner, Asking, Follows
  <2> QED
    BY <2>2, <2>3, <2>4, <2>5, Zenon DEF GetterInv
\* A goroutine that is not in a Get, and answers nobody.
<1>OtherFollows.
    ASSUME IndInv', NEW u \in Tasks, task'[u].op # "get", task'[u].parent = Nil
    PROVE  Follows(task[u], task'[u])
  <2> USE <1>OtherFollows
  <2>1. Form(task'[u])
    BY Zenon DEF IndInv, TaskOK, Formed
  <2>2. task'[u].pc # "local"
    BY <2>1, Zenon DEF Form, FormAt
  <2> QED
    BY <2>2, Zenon DEF Follows, Leads
\* A goroutine ends.
<1>EndFollows.
    ASSUME NEW u \in Tasks, task'[u] = NoTask
    PROVE  Follows(task[u], task'[u])
  BY <1>EndFollows, AtRest, Zenon DEF Follows, Leads
\* The client of a handler that did not panic does not fall back.
<1>WireTame.
    ASSUME NEW r, Tame(r) PROVE Tame(Wire(r))
  BY <1>WireTame, Zenon DEF Tame, Wire, Res
\* A goroutine gets the answer it waits for.
<1>AnswerFollows.
    ASSUME IndInv, GetterInv, NEW u \in Tasks, NEW r \in Result, faults' = 0 => Tame(r),
           task[u].pc = "rpc",
           task'[u] = [task[u] EXCEPT !.pc = "reply", !.res = r]
    PROVE  Follows(task[u], task'[u])
  <2> USE <1>AnswerFollows
  <2>1. task[u] \in Task /\ Form(task[u])
    BY Zenon DEF IndInv, TaskOK, Formed
  <2>2. /\ task'[u].node = task[u].node /\ task'[u].key = task[u].key
        /\ task'[u].parent = task[u].parent /\ task'[u].op = task[u].op
        /\ task'[u].pc = "reply" /\ task'[u].res = r
    BY <2>1, ZenonT(60) DEF Task
  <2>3. task[u].op = "get"
    BY <2>1, Zenon DEF Form, FormAt
  <2> QED
    BY <2>2, <2>3, Zenon DEF Follows, Leads, Stage
\* Return, for any goroutine but its parent nothing changes.
<1>ReturnFollows.
    ASSUME IndInv, GetterInv, Ages, NEW t \in Tasks, NEW r \in Result, Return(t, r),
           task[t].op = "get" /\ faults' = 0 => Tame(r)
    PROVE  \A u \in Tasks : task'[u] = task[u] \/ Follows(task[u], task'[u])
  <2> USE <1>ReturnFollows
  <2> SUFFICES ASSUME NEW u \in Tasks
               PROVE  task'[u] = task[u] \/ Follows(task[u], task'[u])
    BY Zenon
  <2>1. task'[u] = IF u = t THEN NoTask
                   ELSE IF u = task[t].parent
                        THEN [task[u] EXCEPT !.pc = "reply", !.res = Wire(r)]
                        ELSE task[u]
    BY ZenonT(60) DEF Return
  <2>2. CASE u = t
    BY <2>1, <2>2, <1>EndFollows, Zenon
  <2>3. CASE u # t /\ u = task[t].parent
    <3>1. u # Nil
      BY TaskAssumption, Zenon DEF Tasks
    <3>2. task[t].op = "get"
      BY <2>3, <3>1, Zenon DEF GetterInv, Asking
    <3>3. task[u].pc = "rpc"
      BY <2>3, <3>1, Zenon DEF IndInv, Forwarding, Descends
    <3>4. Wire(r) \in Result /\ (faults' = 0 => Tame(Wire(r)))
      BY <3>2, WireType, <1>WireTame, Zenon
    <3> QED
      BY <2>1, <2>3, <3>3, <3>4, <1>AnswerFollows, Zenon
  <2> QED
    BY <2>1, <2>2, <2>3, Zenon
\* A Get goes on, inside or outside the flight.
<1>MoveFollows.
    ASSUME IndInv, GetterInv, Ages, NEW t \in Tasks, NEW p \in Pcs,
           Goto(t, p) \/ \E s \in Result : /\ task' = [task EXCEPT ![t].pc = p, ![t].res = s]
                                           /\ faults' = 0 => Tame(s),
           task[t].op = "get", task[t].pc # "delete", p # "delete",
           Leads(task[t]) \/ p \in {"lookupHot", "do", "wait"},
           p = "local" /\ Undisturbed' => task[t].node = Owner(Nodes, task[t].key)
    PROVE  \A u \in Tasks : task'[u] = task[u] \/ Follows(task[u], task'[u])
  <2> USE <1>MoveFollows
  <2>1. task \in [Tasks -> Task] /\ task[t] \in Task
    BY Zenon DEF IndInv, TaskOK
  <2>2. \A u \in Tasks \ {t} : task'[u] = task[u]
    BY <2>1, Zenon DEF Goto
  <2>3. /\ task'[t].node = task[t].node /\ task'[t].key = task[t].key
        /\ task'[t].op = task[t].op /\ task'[t].pc = p
        /\ faults' = 0 => Tame(task'[t].res)
    <3>1. CASE Goto(t, p)
      <4>1. task'[t] = [task[t] EXCEPT !.pc = p]
        BY <2>1, <3>1, Zenon DEF Goto
      <4>2. /\ task'[t].node = task[t].node /\ task'[t].key = task[t].key
            /\ task'[t].op = task[t].op /\ task'[t].pc = p /\ task'[t].res = task[t].res
        BY <2>1, <4>1, ZenonT(60) DEF Task
      <4> QED
        BY <4>2, Zenon DEF GetterInv, Calm, Ages
    <3>2. CASE \E s \in Result : /\ task' = [task EXCEPT ![t].pc = p, ![t].res = s]
                                 /\ faults' = 0 => Tame(s)
      <4> PICK s \in Result : /\ task' = [task EXCEPT ![t].pc = p, ![t].res = s]
                              /\ faults' = 0 => Tame(s)
        BY <3>2, Zenon
      <4>1. task'[t] = [task[t] EXCEPT !.pc = p, !.res = s]
        BY <2>1, Zenon
      <4>2. /\ task'[t].node = task[t].node /\ task'[t].key = task[t].key
            /\ task'[t].op = task[t].op /\ task'[t].pc = p /\ task'[t].res = s
        BY <2>1, <4>1, ZenonT(60) DEF Task
      <4> QED
        BY <4>2, Zenon
    <3> QED
      BY <3>1, <3>2, Zenon
  <2>4. Leads(task'[t]) => Leads(task[t]) /\ Stage(task'[t]) = Stage(task[t])
    BY <2>3, Zenon DEF Leads, Stage
  <2>5. Follows(task[t], task'[t])
    BY <2>3, <2>4, Zenon DEF Follows
  <2> QED
    BY <2>2, <2>5, Zenon
\* A step of a write, or of a flight of one.
<1>WriteFollows.
    ASSUME IndInv, IndInv', GetterInv, NEW t \in Tasks, task[t].op # "get",
           task'[t].op = task[t].op, task'[t].parent = task[t].parent,
           \A u \in Tasks \ {t} :
             task'[u] = task[u] \/ (task'[u].op # "get" /\ task'[u].parent = Nil)
    PROVE  \A u \in Tasks : task'[u] = task[u] \/ Follows(task[u], task'[u])
  <2> USE <1>WriteFollows
  <2>1. task[t].parent = Nil
    BY Zenon DEF GetterInv, Asking
  <2> QED
    BY <2>1, <1>OtherFollows, Zenon
\* A step that starts or ends a flight of loadGroup: its leader is the only one.
<1>FlightStep.
    ASSUME IndInv, GetterInv, Ages, NEW t \in Tasks, NEW f, SetFlight(t, f),
           task[t].op = "get", task[t].node \in Nodes, task[t].key \in Keys,
           Leads(task[t]) \/ Flight(t).state = "none",
           faults' = 0 => Tame(f.res),
           Leads(task'[t]) => /\ task'[t].node = task[t].node
                              /\ task'[t].key = task[t].key
                              /\ Stage(task'[t]) = f.state,
           task'[t].pc # "local",
           \/ task'[t].op = "none" /\ task'[t].parent = Nil
           \/ task'[t].op = "get" /\ task'[t].res = task[t].res,
           \A u \in Tasks \ {t} : task'[u] = task[u] \/ Follows(task[u], task'[u])
    PROVE  GetterInv'
  <2> USE <1>FlightStep
  <2>1. \A u \in Tasks \ {t} : Follows(task[u], task'[u])
    BY <1>SameFollows, Zenon
  <2>2. \A n \in Nodes, k \in Keys :
          flight'["get"][n][k] = IF n = task[t].node /\ k = task[t].key THEN f
                                 ELSE flight["get"][n][k]
    BY GetFlight, ZenonT(60)
  <2>3. ASSUME NEW u \in Tasks \ {t}, Leads(task[u])
        PROVE  ~ (task[u].node = task[t].node /\ task[u].key = task[t].key)
    <3>1. CASE Leads(task[t])
      BY <2>3, <3>1, Zenon DEF GetterInv, LeaderAlone
    <3>2. CASE Flight(t).state = "none"
      <4>1. flight["get"][task[u].node][task[u].key].state = Stage(task[u])
        BY <2>3, Zenon DEF GetterInv, LeaderRegistered, Registered
      <4> QED
        BY <3>2, <4>1, Zenon DEF Flight, Stage
    <3> QED
      BY <3>1, <3>2, Zenon
  <2>4. ASSUME NEW u \in Tasks \ {t}, Leads(task'[u])
        PROVE  /\ Leads(task[u]) /\ task'[u].node = task[u].node
               /\ task'[u].key = task[u].key /\ Stage(task'[u]) = Stage(task[u])
               /\ ~ (task[u].node = task[t].node /\ task[u].key = task[t].key)
    BY <2>1, <2>3, <2>4, Zenon DEF Follows
  <2>5. LeaderRegistered'
    <3> SUFFICES ASSUME NEW u \in Tasks, Leads(task'[u])
                 PROVE  flight'["get"][task'[u].node][task'[u].key].state = Stage(task'[u])
      BY Zenon DEF LeaderRegistered, Registered
    <3>1. CASE u = t
      BY <2>2, <3>1, Zenon
    <3>2. CASE u # t
      <4>1. task[u].node \in Nodes /\ task[u].key \in Keys
        BY <2>4, <3>2, Place, Zenon
      <4>2. flight["get"][task[u].node][task[u].key].state = Stage(task[u])
        BY <2>4, <3>2, Zenon DEF GetterInv, LeaderRegistered, Registered
      <4>3. flight'["get"][task[u].node][task[u].key] = flight["get"][task[u].node][task[u].key]
        BY <2>2, <2>4, <3>2, <4>1, Zenon
      <4> QED
        BY <2>4, <3>2, <4>2, <4>3, Zenon
    <3> QED
      BY <3>1, <3>2, Zenon
  <2>6. LeaderAlone'
    <3> SUFFICES ASSUME NEW u \in Tasks, NEW v \in Tasks, Leads(task'[u]), Leads(task'[v]),
                        task'[u].node = task'[v].node, task'[u].key = task'[v].key
                 PROVE  u = v
      BY Zenon DEF LeaderAlone
    <3>1. CASE u # t /\ v # t
      BY <2>4, <3>1, Zenon DEF GetterInv, LeaderAlone
    <3>2. CASE u = t \/ v = t
      BY <2>4, <3>2, ZenonT(60)
    <3> QED
      BY <3>1, <3>2, Zenon
  <2>7. Calm'
    <3> SUFFICES ASSUME faults' = 0
                 PROVE  /\ \A u \in Tasks : task'[u].op = "get" => Tame(task'[u].res)
                        /\ \A n \in Nodes, k \in Keys : Tame(flight'["get"][n][k].res)
      BY Zenon DEF Calm
    <3>1. /\ \A u \in Tasks : task[u].op = "get" => Tame(task[u].res)
          /\ \A n \in Nodes, k \in Keys : Tame(flight["get"][n][k].res)
      BY Zenon DEF GetterInv, Calm, Ages
    <3>2. ASSUME NEW u \in Tasks, task'[u].op = "get" PROVE Tame(task'[u].res)
      <4>1. CASE u = t
        BY <3>1, <3>2, <4>1, Zenon
      <4>2. CASE u # t
        BY <2>1, <3>2, <4>2, Zenon DEF Follows
      <4> QED
        BY <4>1, <4>2, Zenon
    <3>3. ASSUME NEW n \in Nodes, NEW k \in Keys PROVE Tame(flight'["get"][n][k].res)
      <4>1. CASE n = task[t].node /\ k = task[t].key
        BY <2>2, <4>1, Zenon
      <4>2. CASE ~ (n = task[t].node /\ k = task[t].key)
        BY <2>2, <3>1, <4>2, Zenon
      <4> QED
        BY <4>1, <4>2, Zenon
    <3> QED
      BY <3>2, <3>3, Zenon
  <2>8. AtOwner'
    BY <2>1, Zenon DEF AtOwner, Follows
  <2>9. Asking'
    <3> SUFFICES ASSUME NEW u \in Tasks, task'[u].parent # Nil PROVE task'[u].op = "get"
      BY Zenon DEF Asking
    <3>1. CASE u = t
      BY <3>1, Zenon
    <3>2. CASE u # t
      BY <2>1, <3>2, Zenon DEF Follows
    <3> QED
      BY <3>1, <3>2, Zenon
  <2> QED
    BY <2>5, <2>6, <2>7, <2>8, <2>9, Zenon DEF GetterInv
\* A Get becomes the leader of a flight that is not there.
<1>DoLeadGets.
    ASSUME IndInv, IndInv', GetterInv, Ages, NEW t \in Tasks, DoLead(t)
    PROVE  GetterInv'
  <2> USE <1>DoLeadGets
  <2>1. /\ task[t].pc = "do" /\ Flight(t).state = "none" /\ SetFlight(t, NewFlight)
        /\ Goto(t, IF task[t].op = "get" THEN "recheck" ELSE "pick")
    BY Zenon DEF DoLead
  <2>2. task[t].node \in Nodes /\ task[t].key \in Keys
    BY <2>1, Place, Zenon
  <2>3. /\ \A u \in Tasks \ {t} : task'[u] = task[u]
        /\ task'[t].node = task[t].node /\ task'[t].key = task[t].key
        /\ task'[t].parent = task[t].parent /\ task'[t].op = task[t].op
        /\ task'[t].res = task[t].res
        /\ task'[t].pc = IF task[t].op = "get" THEN "recheck" ELSE "pick"
    BY <2>1, GotoFacts, Zenon
  <2>4. CASE task[t].op = "get"
    <3>1. NewFlight.state = "pending" /\ Tame(NewFlight.res)
      BY Zenon DEF NewFlight, Res, Tame
    <3>2. Stage(task'[t]) = "pending" /\ task'[t].pc # "local"
      BY <2>3, <2>4, Zenon DEF Stage
    <3> QED
      BY <2>1, <2>2, <2>3, <2>4, <3>1, <3>2, <1>FlightStep, ZenonT(60)
  <2>5. CASE task[t].op # "get"
    <3>1. task[t].op \in {"set", "remove"}
      BY <2>1, <2>5, Zenon DEF IndInv, TaskOK, Formed, Form, FormAt
    <3>2. flight'["get"] = flight["get"]
      BY <2>1, <3>1, OtherFlight, Zenon
    <3> QED
      BY <2>3, <2>5, <3>2, <1>WriteFollows, <1>FlightsKept, Zenon
  <2> QED
    BY <2>4, <2>5, Zenon
\* A Get or a write waits for a flight.
<1>DoJoinGets.
    ASSUME IndInv, IndInv', GetterInv, Ages, NEW t \in Tasks, DoJoin(t)
    PROVE  GetterInv'
  <2> USE <1>DoJoinGets
  <2>1. task[t].pc = "do" /\ Goto(t, "wait") /\ flight' = flight
    BY Zenon DEF DoJoin
  <2>2. CASE task[t].op = "get"
    <3>1. "wait" \in Pcs
      BY Zenon DEF Pcs
    <3>2. \A u \in Tasks : task'[u] = task[u] \/ Follows(task[u], task'[u])
      BY <2>1, <2>2, <3>1, <1>MoveFollows, ZenonT(60)
    <3> QED
      BY <2>1, <3>2, <1>FlightsKept, Zenon
  <2>3. CASE task[t].op # "get"
    BY <2>1, <2>3, GotoFacts, <1>WriteFollows, <1>FlightsKept, ZenonT(60)
  <2> QED
    BY <2>2, <2>3, Zenon
\* It gets the result of one that is over.
<1>DoJoinLateGets.
    ASSUME IndInv, IndInv', GetterInv, Ages, NEW t \in Tasks, DoJoinLate(t)
    PROVE  GetterInv'
  <2> USE <1>DoJoinLateGets
  <2>1. task[t].pc = "do" /\ Return(t, Flight(t).res) /\ flight' = flight
    BY Zenon DEF DoJoinLate
  <2>2. task[t].node \in Nodes /\ task[t].key \in Keys
    BY <2>1, Place, Zenon
  <2>3. task[t].op \in {"get", "set", "remove"}
    BY <2>1, Zenon DEF IndInv, TaskOK, Formed, Form, FormAt
  <2>4. Flight(t).res \in Result
    BY <2>2, <2>3, FlightType, Zenon DEF Flight
  <2>5. task[t].op = "get" /\ faults' = 0 => Tame(Flight(t).res)
    BY <2>2, Zenon DEF GetterInv, Calm, Ages, Flight
  <2> QED
    BY <2>1, <2>4, <2>5, <1>ReturnFollows, <1>FlightsKept, Zenon
\* wg.Done: the flight is over, its duplicates wake.
<1>LeaderDoneGets.
    ASSUME IndInv, IndInv', GetterInv, Ages, NEW t \in Tasks, LeaderDone(t)
    PROVE  GetterInv'
  <2> USE <1>LeaderDoneGets
  <2> DEFINE r == IF task[t].res.st = "panic" THEN NewFlight.res ELSE task[t].res
             woken(u) == /\ task[u].pc = "wait" /\ task[u].op = task[t].op
                         /\ task[u].node = task[t].node
                         /\ task[u].key = task[t].key
  <2>1. task[t].pc = "done" /\ SetFlight(t, [state |-> "done", res |-> r])
    BY ZenonT(60) DEF LeaderDone
  <2>2. task' = [u \in Tasks |->
                   IF u = t THEN [task[t] EXCEPT !.pc = "delete"]
                   ELSE IF woken(u) THEN [task[u] EXCEPT !.pc = "wake", !.res = r]
                   ELSE task[u]]
    BY Zenon DEF LeaderDone
  <2>3. \A u \in Tasks : task[u] \in Task
    BY Zenon DEF IndInv, TaskOK
  <2>4. task[t].op = "get" /\ faults' = 0 => Tame(r)
    BY Zenon DEF GetterInv, Calm, Ages, Tame, NewFlight, Res
  <2> HIDE DEF r
  <2>5. /\ task'[t].node = task[t].node /\ task'[t].key = task[t].key
        /\ task'[t].parent = task[t].parent /\ task'[t].op = task[t].op
        /\ task'[t].res = task[t].res /\ task'[t].pc = "delete"
    <3>1. task'[t] = [task[t] EXCEPT !.pc = "delete"]
      BY <2>2, Zenon
    <3> QED
      BY <2>3, <3>1, ZenonT(60) DEF Task
  <2>6. ASSUME NEW u \in Tasks \ {t}, task'[u] # task[u]
        PROVE  /\ task'[u].parent = task[u].parent /\ task'[u].op = task[t].op
               /\ task[u].op = task[t].op
               /\ task'[u].res = r /\ task'[u].pc = "wake"
    <3>1. woken(u) /\ task'[u] = [task[u] EXCEPT !.pc = "wake", !.res = r]
      BY <2>2, <2>6, Zenon
    <3> HIDE DEF woken
    <3>2. /\ task'[u].parent = task[u].parent /\ task'[u].op = task[u].op
          /\ task'[u].res = r /\ task'[u].pc = "wake"
      BY <2>3, <3>1, ZenonT(60) DEF Task
    <3> QED
      BY <3>1, <3>2, Zenon DEF woken
  <2> HIDE DEF woken
  <2>7. CASE task[t].op = "get"
    <3>1. \A u \in Tasks \ {t} : task'[u] = task[u] \/ Follows(task[u], task'[u])
      BY <2>4, <2>6, <2>7, Zenon DEF Follows, Leads
    <3>2. Leads(task[t]) /\ task[t].node \in Nodes /\ task[t].key \in Keys
      BY <2>1, <2>7, Place, Zenon DEF Leads
    <3>3. Stage(task'[t]) = "done" /\ task'[t].pc # "local"
      BY <2>5, Zenon DEF Stage
    <3> DEFINE f == [state |-> "done", res |-> r]
    <3>4. f.state = "done" /\ f.res = r /\ SetFlight(t, f)
      BY <2>1, Zenon
    <3> HIDE DEF f
    <3> QED
      BY <2>4, <2>5, <2>7, <3>1, <3>2, <3>3, <3>4, <1>FlightStep, ZenonT(60)
  <2>8. CASE task[t].op # "get"
    <3>1. task[t].op \in {"set", "remove"}
      BY <2>1, <2>8, Zenon DEF IndInv, TaskOK, Formed, Form, FormAt
    <3>2. flight'["get"] = flight["get"]
      BY <2>1, <3>1, OtherFlight, Zenon
    <3>3. \A u \in Tasks \ {t} :
            task'[u] = task[u] \/ (task'[u].op # "get" /\ task'[u].parent = Nil)
      BY <2>6, <2>8, Zenon DEF GetterInv, Asking
    <3> QED
      BY <2>5, <2>8, <3>2, <3>3, <1>WriteFollows, <1>FlightsKept, Zenon
  <2> QED
    BY <2>7, <2>8, Zenon
\* The flight's entry goes, and the leader answers.
<1>LeaderReturnGets.
    ASSUME IndInv, IndInv', GetterInv, Ages, NEW t \in Tasks, LeaderReturn(t)
    PROVE  GetterInv'
  <2> USE <1>LeaderReturnGets
  <2>1. task[t].pc = "delete" /\ SetFlight(t, NoFlight) /\ Return(t, task[t].res)
    BY Zenon DEF LeaderReturn
  <2>2. task[t].res \in Result /\ task[t].op \in {"get", "set", "remove"}
    BY <2>1, Zenon DEF IndInv, TaskOK, Task, Formed, Form, FormAt
  <2>3. task[t].op = "get" /\ faults' = 0 => Tame(task[t].res)
    BY Zenon DEF GetterInv, Calm, Ages
  <2>4. \A u \in Tasks : task'[u] = task[u] \/ Follows(task[u], task'[u])
    BY <2>1, <2>2, <2>3, <1>ReturnFollows, Zenon
  <2>5. task'[t] = NoTask
    BY <2>1, Zenon DEF Return
  <2>6. CASE task[t].op = "get"
    <3>1. Leads(task[t]) /\ task[t].node \in Nodes /\ task[t].key \in Keys
      BY <2>1, <2>6, Place, Zenon DEF Leads
    <3>2. /\ ~ Leads(task'[t]) /\ task'[t].pc # "local" /\ task'[t].op = "none"
          /\ task'[t].parent = Nil /\ Tame(NoFlight.res)
      BY <2>5, AtRest, Zenon DEF Leads, Tame
    <3>3. \A u \in Tasks \ {t} : task'[u] = task[u] \/ Follows(task[u], task'[u])
      BY <2>4, Zenon
    <3> QED
      BY <2>1, <2>6, <3>1, <3>2, <3>3, <1>FlightStep, ZenonT(60)
  <2>7. CASE task[t].op # "get"
    <3>1. flight'["get"] = flight["get"]
      BY <2>1, <2>2, <2>7, OtherFlight, Zenon
    <3> QED
      BY <2>4, <3>1, <1>FlightsKept, Zenon
  <2> QED
    BY <2>6, <2>7, Zenon
\* A duplicate answers.
<1>DuplicateReturnGets.
    ASSUME IndInv, IndInv', GetterInv, Ages, NEW t \in Tasks, DuplicateReturn(t)
    PROVE  GetterInv'
  <2> USE <1>DuplicateReturnGets
  <2>1. Return(t, task[t].res) /\ flight' = flight
    BY Zenon DEF DuplicateReturn
  <2>2. task[t].res \in Result
    BY Zenon DEF IndInv, TaskOK, Task
  <2>3. task[t].op = "get" /\ faults' = 0 => Tame(task[t].res)
    BY Zenon DEF GetterInv, Calm, Ages
  <2> QED
    BY <2>1, <2>2, <2>3, <1>ReturnFollows, <1>FlightsKept, Zenon
\* lookupCache, of either cache: a hit ends the Get or the callback.
<1>LookupGets.
    ASSUME IndInv, IndInv', GetterInv, Ages, NEW t \in Tasks, LookupMain(t) \/ LookupHot(t)
    PROVE  GetterInv'
  <2> USE <1>LookupGets
  <2>1. /\ task[t].pc \in {"lookup", "recheck", "lookupHot", "recheckHot"}
        /\ flight' = flight
    BY Zenon DEF LookupMain, LookupHot
  <2>2. task[t].op = "get" /\ task[t].node \in Nodes /\ task[t].key \in Keys
    BY <2>1, Zenon DEF IndInv, TaskOK, Formed, Form, FormAt
  <2>3. main[task[t].node][task[t].key] \in Version /\ hot[task[t].node][task[t].key] \in Version
    BY <2>2, CachedType, Zenon
  <2>4. \/ \E v \in Version : Return(t, Res("ok", v))
        \/ \E v \in Version : Leads(task[t]) /\ Finish(t, Res("ok", v))
        \/ \E p \in {"lookupHot", "recheckHot", "do", "load"} :
             Goto(t, p) /\ (p \in {"recheckHot", "load"} => Leads(task[t]))
    <3>1. CASE LookupMain(t)
      BY <2>2, <2>3, <3>1, Zenon DEF LookupMain, Hit, Leads
    <3>2. CASE LookupHot(t)
      BY <2>2, <2>3, <3>2, Zenon DEF LookupHot, Hit, Leads
    <3> QED
      BY <3>1, <3>2, Zenon
  <2>5. \A v \in Version : Res("ok", v) \in Result /\ Tame(Res("ok", v))
    BY ResType, Zenon DEF Status, Tame, Res
  <2>6. CASE \E v \in Version : Return(t, Res("ok", v))
    BY <2>1, <2>5, <2>6, <1>ReturnFollows, <1>FlightsKept, Zenon
  <2>7. CASE \E v \in Version : Leads(task[t]) /\ Finish(t, Res("ok", v))
    <3>1. "done" \in Pcs
      BY Zenon DEF Pcs
    <3>2. \A u \in Tasks : task'[u] = task[u] \/ Follows(task[u], task'[u])
      BY <2>1, <2>2, <2>5, <2>7, <3>1, <1>MoveFollows, ZenonT(60) DEF Finish
    <3> QED
      BY <2>1, <3>2, <1>FlightsKept, Zenon
  <2>8. CASE \E p \in {"lookupHot", "recheckHot", "do", "load"} :
               Goto(t, p) /\ (p \in {"recheckHot", "load"} => Leads(task[t]))
    <3>1. {"lookupHot", "recheckHot", "do", "load"} \subseteq Pcs
      BY Zenon DEF Pcs
    <3>2. \A u \in Tasks : task'[u] = task[u] \/ Follows(task[u], task'[u])
      BY <2>1, <2>2, <2>8, <3>1, <1>MoveFollows, ZenonT(60)
    <3> QED
      BY <2>1, <3>2, <1>FlightsKept, Zenon
  <2> QED
    BY <2>4, <2>6, <2>7, <2>8, Zenon
\* The request starts outside any flight, on another goroutine.
<1>LoadFromPeerGets.
    ASSUME IndInv, IndInv', GetterInv, Ages, NEW t \in Tasks, LoadFromPeer(t)
    PROVE  GetterInv'
  <2> USE <1>LoadFromPeerGets
  <2> DEFINE free == {x \in Handlers : task[x].pc = "idle"}
             h == CHOOSE x \in free : TRUE
             o == Owner(peers[task[t].node], task[t].key)
  <2>1. /\ task[t].pc = "load" /\ free # {} /\ flight' = flight
        /\ task' = [task EXCEPT ![t].pc = "rpc", ![h] = GetTask(o, task[t].key, t)]
    BY ZenonT(60) DEF LoadFromPeer
  <2>2. h \in Tasks /\ task[h].pc = "idle" /\ h # t
    <3>1. h \in free
      BY <2>1, Zenon
    <3> QED
      BY <2>1, <3>1, Zenon DEF Tasks
  <2> HIDE DEF free, h, o
  <2>3. task \in [Tasks -> Task] /\ task[t] \in Task
    BY Zenon DEF IndInv, TaskOK
  <2>4. task[t].op = "get"
    BY <2>1, Zenon DEF IndInv, TaskOK, Formed, Form, FormAt
  <2>5. /\ \A u \in Tasks \ {t, h} : task'[u] = task[u]
        /\ task'[t] = [task[t] EXCEPT !.pc = "rpc"]
        /\ task'[h] = GetTask(o, task[t].key, t)
    BY <2>1, <2>2, <2>3, Zenon
  <2>6. Follows(task[t], task'[t])
    <3>1. /\ task'[t].node = task[t].node /\ task'[t].key = task[t].key
          /\ task'[t].op = task[t].op /\ task'[t].res = task[t].res /\ task'[t].pc = "rpc"
      BY <2>3, <2>5, ZenonT(60) DEF Task
    <3>2. faults' = 0 => Tame(task[t].res)
      BY <2>4, Zenon DEF GetterInv, Calm, Ages
    <3> QED
      BY <2>1, <2>4, <3>1, <3>2, Zenon DEF Follows, Leads, Stage
  <2>7. Follows(task[h], task'[h])
    <3>1. task'[h].op = "get" /\ task'[h].pc = "lookup" /\ task'[h].res = Res("ok", 0)
      BY <2>5, ZenonT(60) DEF GetTask, NoTask
    <3> QED
      BY <3>1, SMTT(30) DEF Follows, Leads, Tame, Res
  <2> QED
    BY <2>1, <2>5, <2>6, <2>7, <1>FlightsKept, ZenonT(60)
\* The owner among all nodes, here, if nothing was ever changed.
<1>LoadHereGets.
    ASSUME IndInv, IndInv', GetterInv, Ages, NEW t \in Tasks, LoadHere(t)
    PROVE  GetterInv'
  <2> USE <1>LoadHereGets
  <2>1. /\ task[t].pc = "load" /\ ~ Remote(task[t].node, task[t].key)
        /\ Goto(t, "local") /\ flight' = flight
    BY Zenon DEF LoadHere
  <2>2. task[t].op = "get" /\ task[t].node \in Nodes
    BY <2>1, Zenon DEF IndInv, TaskOK, Formed, Form, FormAt
  <2>3. Undisturbed' => task[t].node = Owner(Nodes, task[t].key)
    BY <2>1, <2>2, Zenon DEF Ages, Undisturbed, Remote
  <2>4. "local" \in Pcs /\ Leads(task[t])
    BY <2>1, <2>2, Zenon DEF Pcs, Leads
  <2> QED
    BY <2>1, <2>2, <2>3, <2>4, <1>MoveFollows, <1>FlightsKept, ZenonT(60)
\* The answer of a peer: a transport error alone leads to the Getter of this
\* node, and there is none.
<1>ReplyGets.
    ASSUME IndInv, IndInv', GetterInv, Ages, NEW t \in Tasks,
           PeerValue(t) \/ PeerError(t) \/ PopulateMain(t)
    PROVE  GetterInv'
  <2> USE <1>ReplyGets
  <2>1. /\ task[t].pc \in {"reply", "fill"} /\ flight' = flight
        /\ Goto(t, "done") \/ (Goto(t, "local") /\ task[t].res.st = "net")
    <3>1. CASE PeerValue(t) \/ PopulateMain(t)
      BY <3>1, Zenon DEF PeerValue, PopulateMain
    <3>2. CASE PeerError(t)
      BY <3>2, Zenon DEF PeerError
    <3> QED
      BY <3>1, <3>2, Zenon
  <2>2. task[t].op = "get" /\ Leads(task[t])
    BY <2>1, Zenon DEF IndInv, TaskOK, Formed, Form, FormAt, Leads
  <2>3. task[t].res.st = "net" => faults' # 0
    BY <2>2, Zenon DEF GetterInv, Calm, Ages, Tame
  <2>4. Undisturbed' => faults' = 0
    BY Zenon DEF Undisturbed
  <2>5. "done" \in Pcs /\ "local" \in Pcs
    BY Zenon DEF Pcs
  <2>6. \A u \in Tasks : task'[u] = task[u] \/ Follows(task[u], task'[u])
    <3>1. CASE Goto(t, "done")
      BY <2>1, <2>2, <2>5, <3>1, <1>MoveFollows, ZenonT(60)
    <3>2. CASE Goto(t, "local") /\ task[t].res.st = "net"
      BY <2>1, <2>2, <2>3, <2>4, <2>5, <3>2, <1>MoveFollows, ZenonT(60)
    <3> QED
      BY <2>1, <3>1, <3>2, Zenon
  <2> QED
    BY <2>1, <2>6, <1>FlightsKept, Zenon
\* The Getter: a panic is a failure.
<1>RunGetterGets.
    ASSUME IndInv, IndInv', GetterInv, Ages, NEW t \in Tasks, RunGetter(t)
    PROVE  GetterInv'
  <2> USE <1>RunGetterGets
  <2>1. task[t].pc = "local" /\ flight' = flight
    BY Zenon DEF RunGetter
  <2>2. task[t].op = "get" /\ Leads(task[t]) /\ task[t].key \in Keys
    BY <2>1, Zenon DEF IndInv, TaskOK, Formed, Form, FormAt, Leads
  <2>3. src[task[t].key] \in Version /\ faults \in Nat
    BY <2>2, Zenon DEF IndInv, DataOK
  <2>4. PICK o \in GetterOutcomes :
          /\ o = "panic" => faults' = faults + 1
          /\ \/ task' = [task EXCEPT ![t].pc = "fill", ![t].res = Res("ok", src[task[t].key])]
             \/ Finish(t, Res(o, 0))
    BY Zenon DEF RunGetter
  <2>5. o \in {"ok", "notfound", "err", "panic"}
    BY BoundAssumption, Zenon
  <2>6. /\ Res("ok", src[task[t].key]) \in Result /\ Tame(Res("ok", src[task[t].key]))
        /\ Res(o, 0) \in Result /\ (faults' = 0 => Tame(Res(o, 0)))
    <3>1. "ok" \in Status /\ o \in Status
      BY <2>5, Zenon DEF Status
    <3>2. faults' = 0 => o # "panic"
      BY <2>3, <2>4, SMTT(30)
    <3>3. Tame(Res("ok", src[task[t].key])) /\ (faults' = 0 => Tame(Res(o, 0)))
      BY <2>5, <3>2, Zenon DEF Tame, Res
    <3> QED
      BY <2>3, <3>1, <3>3, ResType, FailureType, Zenon
  <2>7. "done" \in Pcs /\ "fill" \in Pcs
    BY Zenon DEF Pcs
  <2>8. \A u \in Tasks : task'[u] = task[u] \/ Follows(task[u], task'[u])
    BY <2>1, <2>2, <2>4, <2>6, <2>7, <1>MoveFollows, Zenon DEF Finish
  <2> QED
    BY <2>1, <2>8, <1>FlightsKept, Zenon
\* A request that fails is a failure; the leader stays one.
<1>RequestFailsGets.
    ASSUME IndInv, IndInv', GetterInv, Ages, NEW t \in Tasks, NEW st \in {"net", "ctx"},
           PeerUnreachable(t, st) \/ ReplyLost(t, st)
    PROVE  GetterInv'
  <2> USE <1>RequestFailsGets
  <2>1. task[t].pc \in {"load", "rpc"} /\ faults' = faults + 1 /\ flight' = flight
    BY Zenon DEF PeerUnreachable, ReplyLost
  <2>2. faults' # 0 /\ ~ Undisturbed'
    <3>1. faults \in Nat
      BY Zenon DEF IndInv, DataOK
    <3>2. faults' # 0
      BY <2>1, <3>1, SMTT(30)
    <3> QED
      BY <3>2, Zenon DEF Undisturbed
  <2>3. task \in [Tasks -> Task] /\ task[t].op = "get"
    BY <2>1, Zenon DEF IndInv, TaskOK, Formed, Form, FormAt
  <2>4. ASSUME NEW u \in Tasks, task'[u] # task[u]
        PROVE  /\ task'[u].node = task[u].node /\ task'[u].key = task[u].key
               /\ task'[u].op = task[u].op
               /\ \/ u = t /\ task'[u].pc = "reply"
                  \/ task'[u].pc = task[u].pc /\ task'[u].parent = Nil
    <3>1. \/ u = t /\ task'[u] = [task[u] EXCEPT !.pc = "reply", !.res = Res(st, 0)]
          \/ task'[u] = [task[u] EXCEPT !.parent = Nil]
      <4>1. CASE PeerUnreachable(t, st)
        BY <2>3, <2>4, <4>1, ZenonT(60) DEF PeerUnreachable
      <4>2. CASE ReplyLost(t, st)
        BY <2>4, <4>2, ZenonT(60) DEF ReplyLost
      <4> QED
        BY <4>1, <4>2, Zenon
    <3>2. task[u] \in Task
      BY <2>3, Zenon
    <3> QED
      BY <3>1, <3>2, ZenonT(60) DEF Task
  <2>5. \A u \in Tasks : task'[u] = task[u] \/ Follows(task[u], task'[u])
    BY <2>1, <2>2, <2>3, <2>4, Zenon DEF Follows, Leads, Stage
  <2> QED
    BY <2>1, <2>5, <1>FlightsKept, Zenon
\* Hence it does not concern the Getter.
<1>WritingGets.
    ASSUME IndInv, IndInv', GetterInv, Ages, NEW t \in Tasks, Writing(t)
    PROVE  GetterInv'
  BY <1>WritingGets, WritingKeeps, <1>WriteFollows, <1>FlightsKept, Zenon
\* RemoveKeys returns.
<1>RemoveKeysReturnGets.
    ASSUME IndInv, IndInv', GetterInv, Ages, NEW t \in Tasks, RemoveKeysReturn(t)
    PROVE  GetterInv'
  <2> USE <1>RemoveKeysReturnGets
  <2>1. task[t].op = "removekeys" /\ Return(t, Res(task[t].sent, 0)) /\ flight' = flight
    BY Zenon DEF RemoveKeysReturn, At
  <2>2. Res(task[t].sent, 0) \in Result
    <3>1. task[t].sent \in Status
      BY Zenon DEF IndInv, TaskOK, Task, Status
    <3> QED
      BY <3>1, FailureType, Zenon
  <2> QED
    BY <2>1, <2>2, <1>ReturnFollows, <1>FlightsKept, Zenon
\* A caller enters the API: it leads nothing yet.
<1>StartOpGets.
    ASSUME IndInv, IndInv', GetterInv, Ages, NEW p \in Procs, StartOp(p)
    PROVE  GetterInv'
  <2> USE <1>StartOpGets
  <2>1. PICK n \in Nodes :
          \/ \E k \in Keys : StartGet(p, n, k) \/ StartSet(p, n, k)
                               \/ StartRemove(p, n, k)
          \/ \E K \in SUBSET Keys : StartRemoveKeys(p, n, K)
    BY Zenon DEF StartOp
  <2>2. p \in Tasks /\ task \in [Tasks -> Task]
    BY Zenon DEF Tasks, IndInv, TaskOK
  <2>3. ASSUME NEW op, NEW r, Start(p, op, n, r),
               \/ r.op # "get" /\ r.parent = Nil
               \/ r.pc = "lookup" /\ Tame(r.res) /\ r.parent = Nil
        PROVE  GetterInv'
    <3>1. flight' = flight /\ task' = [task EXCEPT ![p] = r]
      BY <2>3, Zenon DEF Start
    <3>2. task'[p] = r /\ \A u \in Tasks : task'[u] = task[u] \/ u = p
      BY <2>2, <3>1, Zenon
    <3>3. Follows(task[p], task'[p])
      <4>1. CASE r.op # "get" /\ r.parent = Nil
        BY <2>2, <3>2, <4>1, <1>OtherFollows, Zenon
      <4>2. CASE r.pc = "lookup" /\ Tame(r.res) /\ r.parent = Nil
        BY <3>2, <4>2, Zenon DEF Follows, Leads
      <4> QED
        BY <2>3, <4>1, <4>2, Zenon
    <3> QED
      BY <3>1, <3>2, <3>3, <1>FlightsKept, Zenon
  <2>4. NoTask \in Task /\ NoTask.parent = Nil /\ NoTask.res = Res("ok", 0)
    BY NoTaskType, ZenonT(60) DEF NoTask
  <2>5. ASSUME NEW k \in Keys, StartGet(p, n, k)
        PROVE  GetterInv'
    <3>1. Start(p, "get", n, GetTask(n, k, Nil))
      BY <2>5, Zenon DEF StartGet
    <3>2. GetTask(n, k, Nil).pc = "lookup" /\ GetTask(n, k, Nil).parent = Nil
      BY GetTaskType, SMTT(30)
    <3>3. GetTask(n, k, Nil).res = Res("ok", 0)
      BY <2>4, ZenonT(60) DEF GetTask, Task
    <3>4. Tame(GetTask(n, k, Nil).res)
      BY <3>3, SMTT(30) DEF Tame, Res
    <3> QED
      BY <2>3, <3>1, <3>2, <3>4, Zenon
  <2>6. ASSUME NEW k \in Keys, NEW op \in {"set", "remove"},
               Start(p, op, n, WriteTask(op, n, k))
        PROVE  GetterInv'
    <3>1. WriteTask(op, n, k).op = op /\ WriteTask(op, n, k).parent = Nil
      BY <2>4, ZenonT(60) DEF WriteTask, Task
    <3> QED
      BY <2>3, <2>6, <3>1, Zenon
  <2>7. ASSUME NEW K \in SUBSET Keys, StartRemoveKeys(p, n, K)
        PROVE  GetterInv'
    <3> DEFINE seen == [k \in Keys |-> IF k \in K THEN src[k] ELSE 0]
               r == [NoTask EXCEPT !.op = "removekeys", !.node = n, !.keys = K,
                                   !.todo = K, !.seen = seen, !.pc = "group"]
    <3>1. Start(p, "removekeys", n, r)
      BY <2>7, Zenon DEF StartRemoveKeys
    <3> HIDE DEF seen
    <3>2. r.op = "removekeys" /\ r.parent = Nil
      BY <2>4, ZenonT(60) DEF Task
    <3> HIDE DEF r
    <3> QED
      BY <2>3, <3>1, <3>2, Zenon
  <2> QED
    BY <2>1, <2>5, <2>6, <2>7, Zenon DEF StartSet, StartRemove
\* Late requests, SetPeers, the source and evictions change no goroutine.
<1>OthersGet.
    ASSUME GetterInv, Ages, task' = task, flight' = flight
    PROVE  GetterInv'
  BY <1>OthersGet, <1>FlightsKept, ZenonT(60)
<1> SUFFICES ASSUME IndInv, IndInv', GetterInv, [Next]_vars
             PROVE  GetterInv'
  BY Zenon
<1>1. Ages
  BY NextAges, Zenon
<1>2. ASSUME NEW t \in Tasks, Step(t) \/ Fault(t)
      PROVE  GetterInv'
  <2>1. CASE Writing(t)
    BY <1>1, <2>1, <1>WritingGets, Zenon
  <2>2. ASSUME NEW st \in {"net", "ctx"}, PeerUnreachable(t, st) \/ ReplyLost(t, st)
        PROVE  GetterInv'
    BY <1>1, <2>2, <1>RequestFailsGets, Zenon
  <2>3. CASE DoLead(t) \/ DoJoin(t) \/ DoJoinLate(t)
    BY <1>1, <2>3, <1>DoLeadGets, <1>DoJoinGets, <1>DoJoinLateGets, Zenon
  <2>4. CASE LeaderDone(t) \/ LeaderReturn(t) \/ DuplicateReturn(t)
    BY <1>1, <2>4, <1>LeaderDoneGets, <1>LeaderReturnGets, <1>DuplicateReturnGets, Zenon
  <2>5. CASE LookupMain(t) \/ LookupHot(t)
    BY <1>1, <2>5, <1>LookupGets, Zenon
  <2>6. CASE LoadFromPeer(t) \/ LoadHere(t) \/ PeerValue(t) \/ PeerError(t)
    BY <1>1, <2>6, <1>LoadFromPeerGets, <1>LoadHereGets, <1>ReplyGets, Zenon
  <2>7. CASE RunGetter(t) \/ PopulateMain(t)
    BY <1>1, <2>7, <1>RunGetterGets, <1>ReplyGets, Zenon
  <2>8. CASE RemoveKeysReturn(t)
    BY <1>1, <2>8, <1>RemoveKeysReturnGets, Zenon
  <2> QED
    BY <1>2, <2>1, <2>2, <2>3, <2>4, <2>5, <2>6, <2>7, <2>8, ZenonT(60)
       DEF Step, Fault, Writing
<1>3. ASSUME NEW p \in Procs, StartOp(p)
      PROVE  GetterInv'
  BY <1>1, <1>3, <1>StartOpGets, Zenon
<1>4. ASSUME NEW n, NEW S, SetPeers(n, S)
      PROVE  GetterInv'
  BY <1>1, <1>4, <1>OthersGet, Zenon DEF SetPeers
<1>5. ASSUME NEW msg, DeliverLate(msg)
      PROVE  GetterInv'
  BY <1>1, <1>5, <1>OthersGet, Zenon DEF DeliverLate
<1>6. ASSUME NEW k, WriteSource(k)
      PROVE  GetterInv'
  BY <1>1, <1>6, <1>OthersGet, Zenon DEF WriteSource
<1>7. ASSUME NEW n, NEW k, Evict(n, k)
      PROVE  GetterInv'
  BY <1>1, <1>7, <1>OthersGet, Zenon DEF Evict
<1>8. CASE UNCHANGED vars
  BY <1>1, <1>8, <1>OthersGet, Zenon DEF vars
<1>9. ASSUME NEW p, NEW n, GetNilDest(p, n)
      PROVE  GetterInv'
  BY <1>1, <1>9, <1>OthersGet, NilDestFrame, Zenon
<1> QED
  BY <1>2, <1>3, <1>4, <1>5, <1>6, <1>7, <1>8, <1>9, ZenonT(60) DEF Next, Proceed

\* A node runs the Getter only inside a flight that it leads.
LEMMA GetterOfFlight == IndInv /\ GetterInv => OneGetterAtOwner
<1> SUFFICES ASSUME IndInv, GetterInv, Undisturbed,
                    NEW t \in Tasks, NEW u \in Tasks, task[t].pc = "local"
             PROVE  /\ task[t].node = Owner(Nodes, task[t].key)
                    /\ task[u].pc = "local" /\ task[u].key = task[t].key => u = t
  BY Zenon DEF OneGetterAtOwner
<1>1. \A v \in Tasks : task[v].pc = "local" =>
        Leads(task[v]) /\ task[v].node = Owner(Nodes, task[v].key)
  <2> SUFFICES ASSUME NEW v \in Tasks, task[v].pc = "local"
               PROVE  Leads(task[v]) /\ task[v].node = Owner(Nodes, task[v].key)
    BY Zenon
  <2>1. task[v].op = "get"
    BY Zenon DEF IndInv, TaskOK, Formed, Form, FormAt
  <2> QED
    BY <2>1, Zenon DEF Leads, GetterInv, AtOwner
<1> QED
  BY <1>1, Zenon DEF GetterInv, LeaderAlone

\* However many callers and peers ask for a key at once, whatever is written
\* or evicted meanwhile: while no request fails, no Getter panics and every
\* node has the list of all, group.load runs the Getter for the key on its
\* owner only, and in one goroutine at a time.
THEOREM AlwaysOneGetterAtOwner == Spec => []OneGetterAtOwner
<1>1. Init => GetterInv
  BY InitGets, Zenon
<1>2. IndInv /\ IndInv' /\ GetterInv /\ [Next]_vars => GetterInv'
  BY NextGets, Zenon
<1>3. IndInv /\ GetterInv => OneGetterAtOwner
  BY GetterOfFlight, Zenon
<1> QED
  BY <1>1, <1>2, <1>3, Invariance, PTL DEF Spec

-------------------------------------------------------------------------------
(***************************************************************************)
(* The moves of a Get.  A step moves at most one Get along its way, or     *)
(* lets one begin or forward its load, and what it does to the goroutines  *)
(* beside is little: Shape.  How often the Getter runs and what is counted *)
(* are argued from Shape alone.                                            *)
(***************************************************************************)

\* Where a Get may go next, within one task.
Link(p, q) ==
  \/ p = "lookup" /\ q = "lookupHot"
  \/ p = "lookupHot" /\ q = "do"
  \/ p = "do" /\ q \in {"recheck", "wait"}
  \/ p = "recheck" /\ q \in {"recheckHot", "done"}
  \/ p = "recheckHot" /\ q \in {"load", "done"}
  \/ p = "load" /\ q \in {"local", "reply"}
  \/ p = "rpc" /\ q = "reply"
  \/ p = "reply" /\ q \in {"local", "done"}
  \/ p = "local" /\ q = "done"
  \/ p = "done" /\ q = "delete"

Keeps(r, s) == s.op = r.op /\ s.node = r.node /\ s.key = r.key

\* A goroutine beside the one that moves: it may be answered, or released.
Beside(v) ==
  LET r == task[v]
      s == task'[v]
  IN  /\ Keeps(r, s)
      /\ \/ s.pc = r.pc /\ s.res = r.res
         \/ r.pc = "rpc" /\ s.pc = "reply"
         \/ r.pc = "wait" /\ s.pc = "wake"

Aside(u) == \A v \in Tasks \ {u} : Beside(v)

\* Nothing but get operations is asked for.
GetsOnly == \A p \in Procs : Ops[p] \subseteq {"get"}

\* A step that moves no Get, of the environment or of a write.
Elsewhere ==
  /\ runs' = runs
  /\ \/ /\ \A v \in Tasks : Beside(v)
        /\ left' = left
        /\ (main' = main /\ late' = late) \/ late # {} \/ Evicting # {}
     \/ \E u \in Tasks :
          /\ Aside(u) /\ task[u].op \notin {"get", "none"}
          /\ task'[u].op \in {task[u].op, "none"} /\ left' = left
     \/ \E u \in Tasks :
          /\ Aside(u) /\ task[u].op = "none" /\ task'[u].op \notin {"get", "none"}
          /\ ~ GetsOnly

Still == main' = main /\ runs' = runs /\ late' = late

Enters(u) ==
  /\ task[u].op = "none" /\ task'[u].op = "get" /\ task'[u].pc = "lookup"
  /\ task'[u].node \in Nodes /\ task'[u].key \in Keys
  /\ Still

\* A caller begins a Get.
Calls ==
  \E u \in Procs :
    Aside(u) /\ Enters(u) /\ left[u] > 0 /\ left' = [left EXCEPT ![u] = @ - 1]

\* A node forwards its load.
Forwards ==
  \E u, t \in Tasks :
    /\ u # t /\ Enters(u) /\ left' = left
    /\ task[t].op = "get" /\ Keeps(task[t], task'[t])
    /\ task[t].pc = "load" /\ task'[t].pc = "rpc"
    /\ \A v \in Tasks \ {u, t} : Beside(v)

\* A Get ends.
Ends ==
  \E u \in Tasks :
    /\ Aside(u) /\ Still /\ left' = left
    /\ task[u].op = "get" /\ task'[u].op = "none" /\ task'[u].pc = "idle"
    /\ task[u].pc \in {"lookup", "lookupHot", "do", "delete", "wake"}

\* A Get goes on.
Advances(u) ==
  LET r == task[u]
      s == task'[u]
  IN  /\ left' = left /\ late' = late
      /\ r.op = "get" /\ Keeps(r, s)
      /\ \/ /\ Link(r.pc, s.pc) /\ Still
            /\ r.pc = "recheck" /\ s.pc = "recheckHot" /\ Caching => main[r.node][r.key] = 0
            /\ s.pc = "reply" => faults' # 0
            /\ r.pc = "reply" => (s.pc = "local" <=> r.res.st = "net")
            /\ r.pc = "local" /\ s.res.st = "panic" => faults' # 0
         \/ /\ r.pc = "local" /\ s.pc = "fill" /\ main' = main
            /\ s.res.ver = src[r.key] /\ runs' = [runs EXCEPT ![r.key] = @ + 1]
         \/ /\ r.pc = "fill" /\ s.pc = "done" /\ runs' = runs
            /\ Caching => main' = [main EXCEPT ![r.node][r.key] = r.res.ver]

Continues == \E u \in Tasks : Aside(u) /\ Advances(u)

\* No Get carries an error, and no flight hands one out.
Clean ==
  /\ \A t \in Tasks : task[t].op = "get" => task[t].res.st = "ok"
  /\ \A n \in Nodes, k \in Keys :
       LET f == flight["get"][n][k] IN f.state = "done" => f.res.st = "ok"

\* Errors come from a failure or from the Getter.
Fresh ==
  Clean /\ faults' = 0 =>
    \/ Clean'
    \/ \E u \in Tasks : task[u].op = "get" /\ task[u].pc = "local" /\ task'[u].pc = "done"

Shape == (Elsewhere \/ Calls \/ Forwards \/ Ends \/ Continues) /\ Fresh

-------------------------------------------------------------------------------
(* Writes, callers and the environment *)

\* Every step but a call that is refused.
LEMMA NextShape == IndInv /\ GetterInv /\ [Proceed]_vars => Shape
\* Errors do not appear from nowhere.
<1>CleanKept.
    ASSUME Clean,
           \A v \in Tasks : task'[v].op = "get" =>
             \/ task[v].op = "get" /\ task'[v].res = task[v].res
             \/ task'[v].res.st = "ok",
           \A n \in Nodes, k \in Keys :
             \/ flight'["get"][n][k] = flight["get"][n][k]
             \/ flight'["get"][n][k].state = "done" => flight'["get"][n][k].res.st = "ok"
    PROVE  Clean'
  <2> USE <1>CleanKept
  <2>1. \A t \in Tasks : task'[t].op = "get" => task'[t].res.st = "ok"
    BY Zenon DEF Clean
  <2>2. \A n \in Nodes, k \in Keys :
          flight'["get"][n][k].state = "done" => flight'["get"][n][k].res.st = "ok"
    BY Zenon DEF Clean
  <2> QED
    BY <2>1, <2>2, Zenon DEF Clean
\* A goroutine that is left alone is beside the others.
<1>SameBeside.
    ASSUME NEW v, task'[v] = task[v] PROVE Beside(v)
  BY <1>SameBeside, Zenon DEF Beside, Keeps
\* Goto, and the steps that also set the result.
<1>StepFacts.
    ASSUME IndInv, NEW t \in Tasks, NEW p, NEW x,
           task' = [task EXCEPT ![t].pc = p, ![t].res = x]
    PROVE  /\ \A v \in Tasks \ {t} : task'[v] = task[v]
           /\ Keeps(task[t], task'[t]) /\ task'[t].pc = p /\ task'[t].res = x
  <2> USE <1>StepFacts
  <2>1. task \in [Tasks -> Task] /\ task[t] \in Task
    BY Zenon DEF IndInv, TaskOK
  <2>2. /\ \A v \in Tasks \ {t} : task'[v] = task[v]
        /\ task'[t] = [task[t] EXCEPT !.pc = p, !.res = x]
    BY <2>1, ZenonT(60)
  <2>3. /\ task'[t].node = task[t].node /\ task'[t].key = task[t].key
        /\ task'[t].op = task[t].op /\ task'[t].pc = p /\ task'[t].res = x
    BY <2>1, <2>2, ZenonT(60) DEF Task
  <2> QED
    BY <2>2, <2>3, Zenon DEF Keeps
\* The same of Finish: the callback has returned.
<1>FinishFacts.
    ASSUME IndInv, NEW t \in Tasks, NEW x, Finish(t, x)
    PROVE  /\ \A v \in Tasks \ {t} : task'[v] = task[v]
           /\ Keeps(task[t], task'[t]) /\ task'[t].pc = "done" /\ task'[t].res = x
  <2> USE <1>FinishFacts
  <2> DEFINE p == "done"
  <2>1. task' = [task EXCEPT ![t].pc = p, ![t].res = x]
    BY Zenon DEF Finish
  <2> HIDE DEF p
  <2>2. /\ \A v \in Tasks \ {t} : task'[v] = task[v]
        /\ Keeps(task[t], task'[t]) /\ task'[t].pc = p /\ task'[t].res = x
    BY <2>1, <1>StepFacts, ZenonT(60)
  <2> QED
    BY <2>2, Zenon DEF p
\* Return ends the goroutine and answers its parent.
<1>ReturnFacts.
    ASSUME IndInv, NEW t \in Tasks, NEW r \in Result, Return(t, r)
    PROVE  /\ task'[t] = NoTask
           /\ \A v \in Tasks \ {t} :
                \/ task'[v] = task[v]
                \/ /\ v = task[t].parent /\ task[v].pc = "rpc" /\ task'[v].pc = "reply"
                   /\ Keeps(task[v], task'[v]) /\ task'[v].res = Wire(r)
  <2> USE <1>ReturnFacts
  <2>1. \A v \in Tasks : task'[v] = IF v = t THEN NoTask
                   ELSE IF v = task[t].parent
                        THEN [task[v] EXCEPT !.pc = "reply", !.res = Wire(r)]
                        ELSE task[v]
    BY ZenonT(60) DEF Return
  <2>2. ASSUME NEW v \in Tasks, v # t, v = task[t].parent
        PROVE  /\ task[v].pc = "rpc" /\ task'[v].pc = "reply"
               /\ Keeps(task[v], task'[v]) /\ task'[v].res = Wire(r)
    <3>1. v # Nil
      BY TaskAssumption, Zenon DEF Tasks
    <3>2. task[v].pc = "rpc"
      BY <2>2, <3>1, Zenon DEF IndInv, Forwarding, Descends
    <3>3. task[v] \in Task
      BY Zenon DEF IndInv, TaskOK
    <3>4. task'[v] = [task[v] EXCEPT !.pc = "reply", !.res = Wire(r)]
      BY <2>1, <2>2, Zenon
    <3>5. /\ task'[v].node = task[v].node /\ task'[v].key = task[v].key
          /\ task'[v].op = task[v].op /\ task'[v].pc = "reply" /\ task'[v].res = Wire(r)
      BY <3>3, <3>4, ZenonT(60) DEF Task
    <3> QED
      BY <3>2, <3>5, Zenon DEF Keeps
  <2> QED
    BY <2>1, <2>2, Zenon
\* A Get that advances alone.
<1>AdvanceShape.
    ASSUME NEW t \in Tasks, Advances(t), \A v \in Tasks \ {t} : task'[v] = task[v],
           \A n \in Nodes, k \in Keys :
             \/ flight'["get"][n][k] = flight["get"][n][k]
             \/ flight'["get"][n][k].state # "done",
           \/ task'[t].res = task[t].res
           \/ task'[t].res.st = "ok"
           \/ faults' # 0
           \/ task[t].pc = "local" /\ task'[t].pc = "done"
    PROVE  Shape
  <2> USE <1>AdvanceShape
  <2>1. Aside(t)
    BY <1>SameBeside, Zenon DEF Aside
  <2>2. task[t].op = "get"
    BY Zenon DEF Advances
  <2>3. ASSUME Clean, faults' = 0, ~ (task[t].pc = "local" /\ task'[t].pc = "done")
        PROVE  Clean'
    <3>1. \A v \in Tasks : task'[v].op = "get" =>
             \/ task[v].op = "get" /\ task'[v].res = task[v].res
             \/ task'[v].res.st = "ok"
      BY <2>2, <2>3, Zenon
    <3> QED
      BY <2>3, <3>1, <1>CleanKept, Zenon
  <2>4. Fresh
    BY <2>2, <2>3, Zenon DEF Fresh
  <2> QED
    BY <2>1, <2>4, Zenon DEF Shape, Continues
\* A Get that ends.
<1>EndShape.
    ASSUME IndInv, NEW t \in Tasks, NEW r \in Result, Return(t, r),
           task[t].op = "get",
           task[t].pc \in {"lookup", "lookupHot", "do", "delete", "wake"},
           Still, left' = left, Clean => r.st = "ok",
           \A n \in Nodes, k \in Keys :
             \/ flight'["get"][n][k] = flight["get"][n][k]
             \/ flight'["get"][n][k].state # "done"
    PROVE  Shape
  <2> USE <1>EndShape
  <2>1. /\ task'[t] = NoTask
        /\ \A v \in Tasks \ {t} :
                \/ task'[v] = task[v]
                \/ /\ v = task[t].parent /\ task[v].pc = "rpc" /\ task'[v].pc = "reply"
                   /\ Keeps(task[v], task'[v]) /\ task'[v].res = Wire(r)
    BY <1>ReturnFacts, Zenon
  <2>2. NoTask.op = "none" /\ NoTask.pc = "idle"
    BY AtRest, Zenon
  <2>3. Aside(t)
    BY <2>1, <1>SameBeside, Zenon DEF Aside, Beside
  <2>4. r.st = "ok" => Wire(r).st = "ok"
    BY Zenon DEF Wire
  <2>5. ASSUME Clean PROVE Clean'
    <3>1. \A v \in Tasks : task'[v].op = "get" =>
             \/ task[v].op = "get" /\ task'[v].res = task[v].res
             \/ task'[v].res.st = "ok"
      <4> SUFFICES ASSUME NEW v \in Tasks, task'[v].op = "get"
                   PROVE  \/ task[v].op = "get" /\ task'[v].res = task[v].res
                          \/ task'[v].res.st = "ok"
        BY Zenon
      <4>1. v # t
        BY <2>1, <2>2, Zenon
      <4> QED
        BY <2>1, <2>4, <2>5, <4>1, Zenon
    <3> QED
      BY <2>5, <3>1, <1>CleanKept, Zenon
  <2> QED
    BY <2>1, <2>2, <2>3, <2>5, Zenon DEF Shape, Ends, Fresh
\* A step of a write.
<1>WriteShape.
    ASSUME NEW t \in Tasks, task[t].op \notin {"get", "none"},
           task'[t].op \in {task[t].op, "none"}, runs' = runs, left' = left,
           flight'["get"] = flight["get"],
           \A v \in Tasks \ {t} : \/ task'[v] = task[v]
                                  \/ Beside(v) /\ task'[v].op # "get"
    PROVE  Shape
  <2> USE <1>WriteShape
  <2>1. Aside(t)
    BY <1>SameBeside, Zenon DEF Aside
  <2>2. ASSUME Clean PROVE Clean'
    <3>1. \A v \in Tasks : task'[v].op = "get" =>
             \/ task[v].op = "get" /\ task'[v].res = task[v].res
             \/ task'[v].res.st = "ok"
      BY Zenon
    <3> QED
      BY <2>2, <3>1, <1>CleanKept, Zenon
  <2> QED
    BY <2>1, <2>2, Zenon DEF Shape, Elsewhere, Fresh
\* A step of the environment.
<1>StillShape.
    ASSUME task' = task, flight' = flight, runs' = runs, left' = left,
           (main' = main /\ late' = late) \/ late # {} \/ Evicting # {}
    PROVE  Shape
  <2> USE <1>StillShape
  <2>1. \A v \in Tasks : Beside(v)
    BY <1>SameBeside, Zenon
  <2>2. Clean => Clean'
    BY <1>CleanKept, Zenon
  <2> QED
    BY <2>1, <2>2, Zenon DEF Shape, Elsewhere, Fresh
\* The flight of a Get, of loadGroup, and those of other groups.
<1>FlightMove.
    ASSUME IndInv, NEW t \in Tasks, NEW f, SetFlight(t, f),
           task[t].pc \in {"do", "done", "delete"}, f.state # "done"
    PROVE  \A n \in Nodes, k \in Keys :
             \/ flight'["get"][n][k] = flight["get"][n][k]
             \/ flight'["get"][n][k].state # "done"
  <2> USE <1>FlightMove
  <2>1. /\ task[t].node \in Nodes /\ task[t].key \in Keys
        /\ task[t].op \in {"get", "set", "remove"}
    BY Zenon DEF IndInv, TaskOK, Formed, Form, FormAt
  <2>2. CASE task[t].op = "get"
    <3>1. \A n \in Nodes, k \in Keys :
            flight'["get"][n][k] = IF n = task[t].node /\ k = task[t].key THEN f
                                   ELSE flight["get"][n][k]
      BY <2>1, <2>2, GetFlight, ZenonT(60)
    <3> QED
      BY <3>1, Zenon
  <2>3. CASE task[t].op # "get"
    BY <2>1, <2>3, OtherFlight, Zenon
  <2> QED
    BY <2>2, <2>3, Zenon
\* DoLead and DoJoin.
<1>DoShape.
    ASSUME IndInv, GetterInv, NEW t \in Tasks, DoLead(t) \/ DoJoin(t)
    PROVE  Shape
  <2> USE <1>DoShape
  <2>1. PICK p \in {"recheck", "pick", "wait"} :
          /\ task[t].pc = "do" /\ Goto(t, p)
          /\ task[t].op = "get" => p \in {"recheck", "wait"}
    <3>1. CASE DoLead(t)
      BY <3>1, Zenon DEF DoLead
    <3>2. CASE DoJoin(t)
      BY <3>2, Zenon DEF DoJoin
    <3> QED
      BY <3>1, <3>2, Zenon
  <2>2. main' = main /\ runs' = runs /\ left' = left /\ late' = late
    BY ZenonT(60) DEF DoLead, DoJoin, Stay, Quiet, Caches
  <2>3. /\ \A u \in Tasks \ {t} : task'[u] = task[u]
        /\ task'[t].node = task[t].node /\ task'[t].key = task[t].key
        /\ task'[t].parent = task[t].parent /\ task'[t].op = task[t].op
        /\ task'[t].res = task[t].res /\ task'[t].pc = p
    BY <2>1, GotoFacts, Zenon
  <2>4. \A n \in Nodes, k \in Keys :
          \/ flight'["get"][n][k] = flight["get"][n][k]
          \/ flight'["get"][n][k].state # "done"
    <3>1. CASE DoLead(t)
      <4>1. SetFlight(t, NewFlight) /\ NewFlight.state # "done"
        BY <3>1, Zenon DEF DoLead, NewFlight
      <4> QED
        BY <2>1, <4>1, <1>FlightMove, Zenon
    <3>2. CASE DoJoin(t)
      BY <3>2, Zenon DEF DoJoin
    <3> QED
      BY <3>1, <3>2, Zenon
  <2>5. CASE task[t].op = "get"
    <3>1. Advances(t)
      BY <2>1, <2>2, <2>3, <2>5, Zenon DEF Advances, Keeps, Link, Still
    <3> QED
      BY <2>3, <2>4, <3>1, <1>AdvanceShape, Zenon
  <2>6. CASE task[t].op # "get"
    <3>1. task[t].op \in {"set", "remove"}
      BY <2>1, <2>6, Zenon DEF IndInv, TaskOK, Formed, Form, FormAt
    <3>2. flight'["get"] = flight["get"]
      BY <3>1, OtherFlight, Zenon DEF DoLead, DoJoin
    <3> QED
      BY <2>2, <2>3, <3>1, <3>2, <1>WriteShape, Zenon
  <2> QED
    BY <2>5, <2>6, Zenon
\* A write answers nobody.
<1>WriteReturns.
    ASSUME IndInv, GetterInv, NEW t \in Tasks, NEW r \in Result, Return(t, r),
           task[t].op \notin {"get", "none"}
    PROVE  task'[t].op = "none" /\ \A v \in Tasks \ {t} : task'[v] = task[v]
  <2> USE <1>WriteReturns
  <2>1. task[t].parent = Nil
    BY Zenon DEF GetterInv, Asking
  <2>2. \A v \in Tasks : v # Nil
    BY TaskAssumption, Zenon DEF Tasks
  <2>3. NoTask.op = "none"
    BY AtRest, Zenon
  <2> QED
    BY <2>1, <2>2, <2>3, <1>ReturnFacts, Zenon
\* DoJoinLate, LeaderReturn and DuplicateReturn.
<1>ReturnShape.
    ASSUME IndInv, GetterInv, NEW t \in Tasks,
           DoJoinLate(t) \/ LeaderReturn(t) \/ DuplicateReturn(t)
    PROVE  Shape
  <2> USE <1>ReturnShape
  <2>1. /\ task[t].pc \in {"do", "delete", "wake"}
        /\ main' = main /\ runs' = runs /\ left' = left /\ late' = late
        /\ flight' = flight \/ (task[t].pc = "delete" /\ SetFlight(t, NoFlight))
    BY ZenonT(60) DEF DoJoinLate, LeaderReturn, DuplicateReturn, Stay, Caches
  <2>2. /\ task[t].node \in Nodes /\ task[t].key \in Keys
        /\ task[t].op \in {"get", "set", "remove"}
    BY <2>1, Zenon DEF IndInv, TaskOK, Formed, Form, FormAt
  <2>3. PICK r \in Result : Return(t, r) /\ (task[t].op = "get" /\ Clean => r.st = "ok")
    <3>1. CASE DoJoinLate(t)
      <4>1. Flight(t).res \in Result
        BY <2>2, FlightType, Zenon DEF Flight
      <4>2. Flight(t).state = "done" /\ Return(t, Flight(t).res)
        BY <3>1, Zenon DEF DoJoinLate
      <4>3. task[t].op = "get" /\ Clean => Flight(t).res.st = "ok"
        BY <2>2, <4>2, Zenon DEF Clean, Flight
      <4> QED
        BY <4>1, <4>2, <4>3, Zenon
    <3>2. CASE LeaderReturn(t) \/ DuplicateReturn(t)
      <4>1. task[t].res \in Result /\ Return(t, task[t].res)
        BY <3>2, Zenon DEF IndInv, TaskOK, Task, LeaderReturn, DuplicateReturn
      <4> QED
        BY <4>1, Zenon DEF Clean
    <3> QED
      BY <3>1, <3>2, Zenon
  <2>4. \A n \in Nodes, k \in Keys :
          \/ flight'["get"][n][k] = flight["get"][n][k]
          \/ flight'["get"][n][k].state # "done"
    <3>1. NoFlight.state # "done"
      BY Zenon DEF NoFlight
    <3> QED
      BY <2>1, <3>1, <1>FlightMove, Zenon
  <2>5. CASE task[t].op = "get"
    BY <2>1, <2>3, <2>4, <2>5, <1>EndShape, Zenon DEF Still
  <2>6. CASE task[t].op # "get"
    <3>1. task[t].op \in {"set", "remove"}
      BY <2>2, <2>6, Zenon
    <3>2. flight'["get"] = flight["get"]
      BY <2>1, <3>1, OtherFlight, Zenon
    <3>3. task'[t].op = "none" /\ \A v \in Tasks \ {t} : task'[v] = task[v]
      BY <2>3, <3>1, <1>WriteReturns, Zenon
    <3> QED
      BY <2>1, <3>1, <3>2, <3>3, <1>WriteShape, Zenon
  <2> QED
    BY <2>5, <2>6, Zenon
\* The leader releases its duplicates.
<1>LeaderDoneShape.
    ASSUME IndInv, GetterInv, NEW t \in Tasks, LeaderDone(t)
    PROVE  Shape
  <2> USE <1>LeaderDoneShape
  <2> DEFINE r == IF task[t].res.st = "panic" THEN NewFlight.res ELSE task[t].res
             woken(u) == /\ task[u].pc = "wait" /\ task[u].op = task[t].op
                         /\ task[u].node = task[t].node
                         /\ task[u].key = task[t].key
             f == [state |-> "done", res |-> r]
  <2>1. /\ task[t].pc = "done" /\ SetFlight(t, f)
        /\ main' = main /\ runs' = runs /\ left' = left /\ late' = late
    BY ZenonT(60) DEF LeaderDone, Stay, Quiet, Caches
  <2>2. task' = [u \in Tasks |->
                   IF u = t THEN [task[t] EXCEPT !.pc = "delete"]
                   ELSE IF woken(u) THEN [task[u] EXCEPT !.pc = "wake", !.res = r]
                   ELSE task[u]]
    BY Zenon DEF LeaderDone
  <2>3. \A u \in Tasks : task[u] \in Task
    BY Zenon DEF IndInv, TaskOK
  <2>4. /\ task[t].node \in Nodes /\ task[t].key \in Keys
        /\ task[t].op \in {"get", "set", "remove"}
    BY <2>1, Zenon DEF IndInv, TaskOK, Formed, Form, FormAt
  <2>5. task[t].op = "get" /\ Clean => r.st = "ok" /\ f.res.st = "ok"
    BY Zenon DEF Clean
  <2> HIDE DEF r, f
  <2>6. /\ task'[t].node = task[t].node /\ task'[t].key = task[t].key
        /\ task'[t].op = task[t].op
        /\ task'[t].res = task[t].res /\ task'[t].pc = "delete"
    <3>1. task'[t] = [task[t] EXCEPT !.pc = "delete"]
      BY <2>2, Zenon
    <3> QED
      BY <2>3, <3>1, ZenonT(60) DEF Task
  <2>7. ASSUME NEW u \in Tasks \ {t}, task'[u] # task[u]
        PROVE  Beside(u) /\ task'[u].op = task[t].op /\ task'[u].res = r
    <3>1. woken(u) /\ task'[u] = [task[u] EXCEPT !.pc = "wake", !.res = r]
      BY <2>2, <2>7, Zenon
    <3> HIDE DEF woken
    <3>2. /\ task'[u].node = task[u].node /\ task'[u].key = task[u].key
          /\ task'[u].op = task[u].op
          /\ task'[u].res = r /\ task'[u].pc = "wake"
      BY <2>3, <3>1, ZenonT(60) DEF Task
    <3> QED
      BY <3>1, <3>2, Zenon DEF woken, Beside, Keeps
  <2> HIDE DEF woken
  <2>8. CASE task[t].op = "get"
    <3>1. Aside(t)
      BY <2>7, <1>SameBeside, Zenon DEF Aside
    <3>2. Advances(t)
      BY <2>1, <2>6, <2>8, Zenon DEF Advances, Keeps, Link, Still
    <3>3. ASSUME Clean PROVE Clean'
      <4>1. \A v \in Tasks : task'[v].op = "get" =>
               \/ task[v].op = "get" /\ task'[v].res = task[v].res
               \/ task'[v].res.st = "ok"
        BY <2>5, <2>6, <2>7, <2>8, <3>3, Zenon
      <4>2. \A n \in Nodes, k \in Keys :
              flight'["get"][n][k] = IF n = task[t].node /\ k = task[t].key THEN f
                                     ELSE flight["get"][n][k]
        BY <2>1, <2>4, <2>8, GetFlight, ZenonT(60)
      <4>3. \A n \in Nodes, k \in Keys :
              \/ flight'["get"][n][k] = flight["get"][n][k]
              \/ flight'["get"][n][k].state = "done" => flight'["get"][n][k].res.st = "ok"
        BY <2>5, <2>8, <3>3, <4>2, Zenon
      <4> QED
        BY <3>3, <4>1, <4>3, <1>CleanKept, Zenon
    <3> QED
      BY <3>1, <3>2, <3>3, Zenon DEF Shape, Continues, Fresh
  <2>9. CASE task[t].op # "get"
    <3>1. task[t].op \in {"set", "remove"}
      BY <2>4, <2>9, Zenon
    <3>2. flight'["get"] = flight["get"]
      BY <2>1, <3>1, OtherFlight, Zenon
    <3> QED
      BY <2>1, <2>6, <2>7, <2>9, <3>1, <3>2, <1>WriteShape, Zenon
  <2> QED
    BY <2>8, <2>9, Zenon
\* lookupCache, of either cache.
<1>LookupShape.
    ASSUME IndInv, GetterInv, NEW t \in Tasks, LookupMain(t) \/ LookupHot(t)
    PROVE  Shape
  <2> USE <1>LookupShape
  <2>1. /\ task[t].pc \in {"lookup", "recheck", "lookupHot", "recheckHot"}
        /\ flight' = flight /\ main' = main /\ runs' = runs /\ left' = left /\ late' = late
    BY Zenon DEF LookupMain, LookupHot, Stay, Caches
  <2>2. task[t].op = "get" /\ task[t].node \in Nodes /\ task[t].key \in Keys
    BY <2>1, Zenon DEF IndInv, TaskOK, Formed, Form, FormAt
  <2>3. main[task[t].node][task[t].key] \in Version /\ hot[task[t].node][task[t].key] \in Version
    BY <2>2, CachedType, Zenon
  <2>4. \/ \E v \in Version : /\ Return(t, Res("ok", v))
                              /\ task[t].pc \in {"lookup", "lookupHot"}
        \/ \E v \in Version : /\ Finish(t, Res("ok", v))
                              /\ task[t].pc \in {"recheck", "recheckHot"}
        \/ \E p \in Pcs :
             /\ Goto(t, p) /\ Link(task[t].pc, p)
             /\ task[t].pc = "recheck" /\ Caching => main[task[t].node][task[t].key] = 0
    <3>1. CASE LookupMain(t)
      BY <2>2, <2>3, <3>1, Zenon DEF LookupMain, Hit, Link, Pcs
    <3>2. CASE LookupHot(t)
      BY <2>2, <2>3, <3>2, Zenon DEF LookupHot, Hit, Link, Pcs
    <3> QED
      BY <3>1, <3>2, Zenon
  <2>5. CASE \E v \in Version : Return(t, Res("ok", v)) /\ task[t].pc \in {"lookup", "lookupHot"}
    <3>1. PICK v \in Version : Return(t, Res("ok", v))
      BY <2>5, Zenon
    <3>2. Res("ok", v) \in Result /\ Res("ok", v).st = "ok"
      BY ResType, Zenon DEF Status, Res
    <3> HIDE DEF Res
    <3> QED
      BY <2>1, <2>2, <2>5, <3>1, <3>2, <1>EndShape, Zenon DEF Still
  <2>6. CASE \E v \in Version : Finish(t, Res("ok", v)) /\ task[t].pc \in {"recheck", "recheckHot"}
    <3>1. PICK v \in Version : Finish(t, Res("ok", v))
      BY <2>6, Zenon
    <3>2. Res("ok", v).st = "ok"
      BY Zenon DEF Res
    <3>3. /\ \A u \in Tasks \ {t} : task'[u] = task[u]
          /\ Keeps(task[t], task'[t]) /\ task'[t].pc = "done" /\ task'[t].res = Res("ok", v)
      BY <3>1, <1>FinishFacts, Zenon
    <3>4. Advances(t)
      BY <2>1, <2>2, <2>6, <3>3, Zenon DEF Advances, Link, Still
    <3> QED
      BY <2>1, <3>2, <3>3, <3>4, <1>AdvanceShape, Zenon
  <2>7. ASSUME NEW p \in Pcs, Goto(t, p), Link(task[t].pc, p),
               task[t].pc = "recheck" /\ Caching => main[task[t].node][task[t].key] = 0
        PROVE  Shape
    <3>1. /\ \A u \in Tasks \ {t} : task'[u] = task[u]
          /\ Keeps(task[t], task'[t]) /\ task'[t].pc = p /\ task'[t].res = task[t].res
      BY <2>7, GotoFacts, Zenon DEF Keeps
    <3>2. p # "reply"
      BY <2>1, <2>7, Zenon DEF Link
    <3>3. Advances(t)
      BY <2>1, <2>2, <2>7, <3>1, <3>2, Zenon DEF Advances, Still
    <3> QED
      BY <2>1, <3>1, <3>3, <1>AdvanceShape, Zenon
  <2> QED
    BY <2>4, <2>5, <2>6, <2>7, Zenon
\* Its record, when a handler starts on the request.
<1>GetTaskFields.
    ASSUME NEW n \in Nodes, NEW k \in Keys, NEW q \in Tasks \cup {Nil}
    PROVE  /\ GetTask(n, k, q).op = "get" /\ GetTask(n, k, q).pc = "lookup"
           /\ GetTask(n, k, q).node = n /\ GetTask(n, k, q).key = k
           /\ GetTask(n, k, q).parent = q /\ GetTask(n, k, q).res = Res("ok", 0)
  <2> USE <1>GetTaskFields
  <2>1. NoTask \in Task /\ NoTask.res = Res("ok", 0)
    BY NoTaskType, ZenonT(60) DEF NoTask
  <2>2. GetTask(n, k, q).op = "get" /\ GetTask(n, k, q).res = Res("ok", 0)
    BY <2>1, ZenonT(60) DEF GetTask, Task
  <2> QED
    BY <2>2, GetTaskType, SMTT(30)
\* A load is forwarded.
<1>LoadFromPeerShape.
    ASSUME IndInv, GetterInv, NEW t \in Tasks, LoadFromPeer(t)
    PROVE  Shape
  <2> USE <1>LoadFromPeerShape
  <2> DEFINE free == {x \in Handlers : task[x].pc = "idle"}
             h == CHOOSE x \in free : TRUE
             o == Owner(peers[task[t].node], task[t].key)
  <2>1. /\ task[t].pc = "load" /\ free # {} /\ flight' = flight
        /\ task' = [task EXCEPT ![t].pc = "rpc", ![h] = GetTask(o, task[t].key, t)]
        /\ main' = main /\ runs' = runs /\ left' = left /\ late' = late
        /\ Remote(task[t].node, task[t].key)
    BY ZenonT(60) DEF LoadFromPeer, Stay, Quiet, Caches
  <2>2. h \in Tasks /\ task[h].pc = "idle" /\ h # t
    <3>1. h \in free
      BY <2>1, Zenon
    <3> QED
      BY <2>1, <3>1, Zenon DEF Tasks
  <2> HIDE DEF free, h
  <2>3. task \in [Tasks -> Task] /\ task[t] \in Task
    BY Zenon DEF IndInv, TaskOK
  <2>4. /\ task[t].op = "get" /\ task[t].node \in Nodes /\ task[t].key \in Keys
        /\ task[h].op = "none"
    BY <2>1, <2>2, Zenon DEF IndInv, TaskOK, Formed, Form, FormAt
  <2>5. o \in Nodes
    <3>1. peers[task[t].node] \in SUBSET Nodes /\ peers[task[t].node] # {}
      BY <2>1, <2>4, Zenon DEF IndInv, DataOK, Remote
    <3> QED
      BY <2>4, <3>1, OwnerNearest, Zenon
  <2> HIDE DEF o
  <2>6. /\ \A u \in Tasks \ {t, h} : task'[u] = task[u]
        /\ task'[t] = [task[t] EXCEPT !.pc = "rpc"]
        /\ task'[h] = GetTask(o, task[t].key, t)
    BY <2>1, <2>2, <2>3, Zenon
  <2>7. Keeps(task[t], task'[t]) /\ task'[t].res = task[t].res /\ task'[t].pc = "rpc"
    BY <2>3, <2>6, ZenonT(60) DEF Task, Keeps
  <2>8. /\ task'[h].op = "get" /\ task'[h].pc = "lookup" /\ task'[h].node = o
        /\ task'[h].key = task[t].key /\ task'[h].res = Res("ok", 0)
    BY <2>4, <2>5, <2>6, <1>GetTaskFields, SMTT(30)
  <2>9. Forwards
    <3>1. \A v \in Tasks \ {h, t} : Beside(v)
      BY <2>6, <1>SameBeside, Zenon
    <3>2. Enters(h)
      BY <2>1, <2>4, <2>5, <2>8, Zenon DEF Enters, Still
    <3> QED
      BY <2>1, <2>2, <2>4, <2>7, <3>1, <3>2, Zenon DEF Forwards
  <2>10. Clean => Clean'
    <3>1. task'[h].res.st = "ok"
      BY <2>8, ResParts, SMTT(30)
    <3>2. \A v \in Tasks : task'[v].op = "get" =>
             \/ task[v].op = "get" /\ task'[v].res = task[v].res
             \/ task'[v].res.st = "ok"
      BY <2>4, <2>6, <2>7, <3>1, Zenon
    <3> QED
      BY <2>1, <3>2, <1>CleanKept, Zenon
  <2> QED
    BY <2>9, <2>10, Zenon DEF Shape, Fresh
\* The Getter of this node will be run.
<1>LoadHereShape.
    ASSUME IndInv, GetterInv, NEW t \in Tasks, LoadHere(t)
    PROVE  Shape
  <2> USE <1>LoadHereShape
  <2>1. /\ task[t].pc = "load" /\ Goto(t, "local") /\ flight' = flight
        /\ main' = main /\ runs' = runs /\ left' = left /\ late' = late
    BY ZenonT(60) DEF LoadHere, Stay, Quiet, Caches
  <2>2. task[t].op = "get"
    BY <2>1, Zenon DEF IndInv, TaskOK, Formed, Form, FormAt
  <2>3. /\ \A u \in Tasks \ {t} : task'[u] = task[u]
        /\ Keeps(task[t], task'[t]) /\ task'[t].pc = "local" /\ task'[t].res = task[t].res
    BY <2>1, GotoFacts, Zenon DEF Keeps
  <2>4. Advances(t)
    BY <2>1, <2>2, <2>3, Zenon DEF Advances, Still, Link
  <2> QED
    BY <2>1, <2>3, <2>4, <1>AdvanceShape, Zenon
\* A request fails.
<1>RequestFailsShape.
    ASSUME IndInv, GetterInv, NEW t \in Tasks, NEW st \in {"net", "ctx"},
           PeerUnreachable(t, st) \/ ReplyLost(t, st)
    PROVE  Shape
  <2> USE <1>RequestFailsShape
  <2>1. /\ task[t].pc \in {"load", "rpc"} /\ faults' = faults + 1 /\ flight' = flight
        /\ main' = main /\ runs' = runs /\ left' = left /\ late' = late
    BY Zenon DEF PeerUnreachable, ReplyLost, Stay, Caches
  <2>2. faults' # 0
    <3>1. faults \in Nat
      BY Zenon DEF IndInv, DataOK
    <3> QED
      BY <2>1, <3>1, SMTT(30)
  <2>3. task \in [Tasks -> Task] /\ task[t].op = "get"
    BY <2>1, Zenon DEF IndInv, TaskOK, Formed, Form, FormAt
  <2>4. Keeps(task[t], task'[t]) /\ task'[t].pc = "reply"
    <3>1. task'[t] = [task[t] EXCEPT !.pc = "reply", !.res = Res(st, 0)]
      <4>1. CASE PeerUnreachable(t, st)
        BY <2>3, <4>1, ZenonT(60) DEF PeerUnreachable
      <4>2. CASE ReplyLost(t, st)
        BY <4>2, ZenonT(60) DEF ReplyLost
      <4> QED
        BY <4>1, <4>2, Zenon
    <3>2. task[t] \in Task
      BY <2>3, Zenon
    <3> QED
      BY <3>1, <3>2, ZenonT(60) DEF Task, Keeps
  <2>5. ASSUME NEW u \in Tasks \ {t} PROVE Beside(u)
    <3>1. task'[u] = task[u] \/ task'[u] = [task[u] EXCEPT !.parent = Nil]
      <4>1. CASE PeerUnreachable(t, st)
        BY <2>3, <4>1, ZenonT(60) DEF PeerUnreachable
      <4>2. CASE ReplyLost(t, st)
        BY <4>2, ZenonT(60) DEF ReplyLost
      <4> QED
        BY <4>1, <4>2, Zenon
    <3>2. task[u] \in Task
      BY <2>3, Zenon
    <3> QED
      BY <3>1, <3>2, ZenonT(60) DEF Task, Beside, Keeps
  <2>6. Advances(t)
    BY <2>1, <2>2, <2>3, <2>4, Zenon DEF Advances, Still, Link
  <2> QED
    BY <2>2, <2>5, <2>6, Zenon DEF Shape, Continues, Aside, Fresh
\* The answer of a peer.
<1>ReplyShape.
    ASSUME IndInv, GetterInv, NEW t \in Tasks, PeerValue(t) \/ PeerError(t)
    PROVE  Shape
  <2> USE <1>ReplyShape
  <2>1. /\ task[t].pc = "reply" /\ flight' = flight
        /\ main' = main /\ runs' = runs /\ left' = left /\ late' = late
        /\ \E p \in {"done", "local"} : Goto(t, p) /\ (p = "local" <=> task[t].res.st = "net")
    <3>1. CASE PeerValue(t)
      BY <3>1, Zenon DEF PeerValue, Stay, Quiet
    <3>2. CASE PeerError(t)
      BY <3>2, Zenon DEF PeerError, Stay, Quiet, Caches
    <3> QED
      BY <3>1, <3>2, Zenon
  <2>2. task[t].op = "get"
    BY <2>1, Zenon DEF IndInv, TaskOK, Formed, Form, FormAt
  <2>3. PICK p \in {"done", "local"} : Goto(t, p) /\ (p = "local" <=> task[t].res.st = "net")
    BY <2>1, Zenon
  <2>4. /\ \A u \in Tasks \ {t} : task'[u] = task[u]
        /\ Keeps(task[t], task'[t]) /\ task'[t].pc = p /\ task'[t].res = task[t].res
    BY <2>3, GotoFacts, Zenon DEF Keeps
  <2>5. Advances(t)
    BY <2>1, <2>2, <2>3, <2>4, Zenon DEF Advances, Still, Link
  <2> QED
    BY <2>1, <2>4, <2>5, <1>AdvanceShape, Zenon
\* The Getter's value is cached.
<1>PopulateMainShape.
    ASSUME IndInv, GetterInv, NEW t \in Tasks, PopulateMain(t)
    PROVE  Shape
  <2> USE <1>PopulateMainShape
  <2>1. /\ task[t].pc = "fill" /\ Goto(t, "done") /\ flight' = flight
        /\ runs' = runs /\ left' = left /\ late' = late
        /\ Caching => main' = [main EXCEPT ![task[t].node][task[t].key] = task[t].res.ver]
    BY ZenonT(60) DEF PopulateMain, Stay, Quiet
  <2>2. task[t].op = "get"
    BY <2>1, Zenon DEF IndInv, TaskOK, Formed, Form, FormAt
  <2>3. /\ \A u \in Tasks \ {t} : task'[u] = task[u]
        /\ Keeps(task[t], task'[t]) /\ task'[t].pc = "done" /\ task'[t].res = task[t].res
    BY <2>1, GotoFacts, Zenon DEF Keeps
  <2>4. Advances(t)
    BY <2>1, <2>2, <2>3, Zenon DEF Advances
  <2> QED
    BY <2>1, <2>3, <2>4, <1>AdvanceShape, Zenon
\* The Getter.
<1>RunGetterShape.
    ASSUME IndInv, GetterInv, NEW t \in Tasks, RunGetter(t)
    PROVE  Shape
  <2> USE <1>RunGetterShape
  <2> DEFINE v == src[task[t].key]
  <2>1. /\ task[t].pc = "local" /\ flight' = flight
        /\ main' = main /\ left' = left /\ late' = late
    BY ZenonT(60) DEF RunGetter, Stay, Caches
  <2>2. task[t].op = "get" /\ faults \in Nat
    BY <2>1, Zenon DEF IndInv, TaskOK, Formed, Form, FormAt, DataOK
  <2>3. PICK o \in GetterOutcomes :
          /\ o = "panic" => faults' = faults + 1
          /\ \/ /\ task' = [task EXCEPT ![t].pc = "fill", ![t].res = Res("ok", v)]
                /\ runs' = [runs EXCEPT ![task[t].key] = @ + 1]
             \/ Finish(t, Res(o, 0)) /\ runs' = runs
    BY Zenon DEF RunGetter
  <2> HIDE DEF v
  <2>4. CASE /\ task' = [task EXCEPT ![t].pc = "fill", ![t].res = Res("ok", v)]
             /\ runs' = [runs EXCEPT ![task[t].key] = @ + 1]
    <3> DEFINE p == "fill"
               x == Res("ok", v)
    <3>1. x.st = "ok" /\ x.ver = v
      BY Zenon DEF Res
    <3>2. task' = [task EXCEPT ![t].pc = p, ![t].res = x]
      BY <2>4, Zenon
    <3> HIDE DEF p, x
    <3>3. /\ \A u \in Tasks \ {t} : task'[u] = task[u]
          /\ Keeps(task[t], task'[t]) /\ task'[t].pc = p /\ task'[t].res = x
      BY <3>2, <1>StepFacts, ZenonT(60)
    <3>4. Advances(t)
      BY <2>1, <2>2, <2>4, <3>1, <3>3, Zenon DEF Advances, p, v
    <3> QED
      BY <2>1, <3>1, <3>3, <3>4, <1>AdvanceShape, Zenon
  <2>5. CASE Finish(t, Res(o, 0)) /\ runs' = runs
    <3>1. /\ \A u \in Tasks \ {t} : task'[u] = task[u]
          /\ Keeps(task[t], task'[t]) /\ task'[t].pc = "done" /\ task'[t].res = Res(o, 0)
      BY <2>5, <1>FinishFacts, Zenon
    <3>2. task'[t].res.st = o
      BY <3>1, ResParts, SMTT(30)
    <3>3. task'[t].res.st = "panic" => faults' # 0
      BY <2>2, <2>3, <3>2, SMTT(30)
    <3>4. Advances(t)
      BY <2>1, <2>2, <2>5, <3>1, <3>3, Zenon DEF Advances, Still, Link
    <3> QED
      BY <2>1, <3>1, <3>4, <1>AdvanceShape, Zenon
  <2> QED
    BY <2>3, <2>4, <2>5, Zenon
\* A step of a write.
<1>WritingShape.
    ASSUME IndInv, GetterInv, NEW t \in Tasks, Writing(t)
    PROVE  Shape
  <2> USE <1>WritingShape
  <2>1. /\ flight' = flight /\ task[t].op # "get"
        /\ \A u \in Tasks \ {t} : task'[u] = task[u]
        /\ task'[t].op = task[t].op
    BY WritingKeeps, Zenon
  <2>2. /\ task[t].pc \in {"pick", "owner", "here", "list", "fan", "rklist", "group", "rkhere"}
        /\ runs' = runs /\ left' = left
    BY ZenonT(60)
       DEF Writing, WritePick, WriteOwner, WriteOwnerFails, WriteHere, SetList, RemoveList,
           BroadcastEnd, RemoveKeysList, Broadcast, BroadcastFails, GroupByOwner,
           RemoveKeysHere, At, Stay, Quiet
  <2>3. task[t].op # "none"
    BY <2>2, ZenonT(60) DEF IndInv, TaskOK, Formed, Form, FormAt
  <2> QED
    BY <2>1, <2>2, <2>3, <1>WriteShape, Zenon
\* RemoveKeys returns.
<1>RemoveKeysReturnShape.
    ASSUME IndInv, GetterInv, NEW t \in Tasks, RemoveKeysReturn(t)
    PROVE  Shape
  <2> USE <1>RemoveKeysReturnShape
  <2>1. /\ task[t].op = "removekeys" /\ Return(t, Res(task[t].sent, 0)) /\ flight' = flight
        /\ runs' = runs /\ left' = left
    BY Zenon DEF RemoveKeysReturn, At, Stay
  <2>2. Res(task[t].sent, 0) \in Result
    <3>1. task[t].sent \in Status
      BY Zenon DEF IndInv, TaskOK, Task, Status
    <3> QED
      BY <3>1, FailureType, Zenon
  <2>3. task'[t].op = "none" /\ \A v \in Tasks \ {t} : task'[v] = task[v]
    BY <2>1, <2>2, <1>WriteReturns, Zenon
  <2> QED
    BY <2>1, <2>3, <1>WriteShape, Zenon
\* A caller enters the API.
<1>StartOpShape.
    ASSUME IndInv, GetterInv, NEW p \in Procs, StartOp(p)
    PROVE  Shape
  <2> USE <1>StartOpShape
  <2>1. PICK n \in Nodes :
          \/ \E k \in Keys : StartGet(p, n, k) \/ StartSet(p, n, k)
                               \/ StartRemove(p, n, k)
          \/ \E K \in SUBSET Keys : StartRemoveKeys(p, n, K)
    BY Zenon DEF StartOp
  <2>2. p \in Tasks /\ task \in [Tasks -> Task]
    BY Zenon DEF Tasks, IndInv, TaskOK
  <2>3. ASSUME NEW op, NEW r, Start(p, op, n, r), r.op = op,
               \/ op \notin {"get", "none"}
               \/ /\ op = "get" /\ r.pc = "lookup" /\ r.node = n /\ r.key \in Keys
                  /\ r.res.st = "ok"
        PROVE  Shape
    <3>1. /\ flight' = flight /\ task' = [task EXCEPT ![p] = r] /\ task[p].pc = "idle"
          /\ main' = main /\ runs' = runs /\ late' = late /\ op \in Ops[p]
          /\ left' = [left EXCEPT ![p] = @ - 1] /\ left[p] > 0
      BY <2>3, Zenon DEF Start, Quiet
    <3>2. task'[p] = r /\ \A u \in Tasks : task'[u] = task[u] \/ u = p
      BY <2>2, <3>1, Zenon
    <3>3. task[p].op = "none"
      BY <2>2, <3>1, Zenon DEF IndInv, TaskOK, Formed, Form, FormAt
    <3>4. Aside(p)
      BY <3>2, <1>SameBeside, Zenon DEF Aside
    <3>5. Elsewhere \/ Calls
      <4>1. CASE op \notin {"get", "none"}
        <5>1. ~ GetsOnly
          BY <3>1, <4>1, Zenon DEF GetsOnly
        <5> QED
          BY <2>2, <2>3, <3>1, <3>2, <3>3, <3>4, <4>1, <5>1, Zenon DEF Elsewhere
      <4>2. CASE /\ op = "get" /\ r.pc = "lookup" /\ r.node = n /\ r.key \in Keys
                 /\ r.res.st = "ok"
        BY <2>3, <3>1, <3>2, <3>3, <3>4, <4>2, Zenon DEF Calls, Enters, Still
      <4> QED
        BY <2>3, <4>1, <4>2, Zenon
    <3>6. Clean => Clean'
      <4>1. \A v \in Tasks : task'[v].op = "get" =>
               \/ task[v].op = "get" /\ task'[v].res = task[v].res
               \/ task'[v].res.st = "ok"
        BY <2>3, <3>2, Zenon
      <4> QED
        BY <3>1, <4>1, <1>CleanKept, Zenon
    <3> QED
      BY <3>5, <3>6, Zenon DEF Shape, Fresh
  <2>4. NoTask \in Task
    BY NoTaskType, Zenon
  <2>5. ASSUME NEW k \in Keys, StartGet(p, n, k)
        PROVE  Shape
    <3>1. Start(p, "get", n, GetTask(n, k, Nil))
      BY <2>5, Zenon DEF StartGet
    <3>2. /\ GetTask(n, k, Nil).op = "get" /\ GetTask(n, k, Nil).pc = "lookup"
          /\ GetTask(n, k, Nil).node = n /\ GetTask(n, k, Nil).key = k
          /\ GetTask(n, k, Nil).res = Res("ok", 0)
      BY <1>GetTaskFields, SMTT(30)
    <3>3. GetTask(n, k, Nil).res.st = "ok"
      BY <3>2, ResParts, SMTT(30)
    <3> QED
      BY <2>3, <3>1, <3>2, <3>3, Zenon
  <2>6. ASSUME NEW k \in Keys, NEW op \in {"set", "remove"},
               Start(p, op, n, WriteTask(op, n, k))
        PROVE  Shape
    <3>1. WriteTask(op, n, k).op = op
      BY <2>4, ZenonT(60) DEF WriteTask, Task
    <3> QED
      BY <2>3, <2>6, <3>1, Zenon
  <2>7. ASSUME NEW K \in SUBSET Keys, StartRemoveKeys(p, n, K)
        PROVE  Shape
    <3> DEFINE seen == [k \in Keys |-> IF k \in K THEN src[k] ELSE 0]
               r == [NoTask EXCEPT !.op = "removekeys", !.node = n, !.keys = K,
                                   !.todo = K, !.seen = seen, !.pc = "group"]
    <3>1. Start(p, "removekeys", n, r)
      BY <2>7, Zenon DEF StartRemoveKeys
    <3> HIDE DEF seen
    <3>2. r.op = "removekeys"
      BY <2>4, ZenonT(60) DEF Task
    <3> HIDE DEF r
    <3> QED
      BY <2>3, <3>1, <3>2, Zenon
  <2> QED
    BY <2>1, <2>5, <2>6, <2>7, Zenon DEF StartSet, StartRemove
<1> SUFFICES ASSUME IndInv, GetterInv, [Proceed]_vars
             PROVE  Shape
  BY Zenon
<1>1. ASSUME NEW t \in Tasks, Step(t) \/ Fault(t)
      PROVE  Shape
  <2>1. CASE Writing(t)
    BY <2>1, <1>WritingShape, Zenon
  <2>2. ASSUME NEW st \in {"net", "ctx"}, PeerUnreachable(t, st) \/ ReplyLost(t, st)
        PROVE  Shape
    BY <2>2, <1>RequestFailsShape, Zenon
  <2>3. CASE DoLead(t) \/ DoJoin(t) \/ DoJoinLate(t)
    BY <2>3, <1>DoShape, <1>ReturnShape, Zenon
  <2>4. CASE LeaderDone(t) \/ LeaderReturn(t) \/ DuplicateReturn(t)
    BY <2>4, <1>LeaderDoneShape, <1>ReturnShape, Zenon
  <2>5. CASE LookupMain(t) \/ LookupHot(t)
    BY <2>5, <1>LookupShape, Zenon
  <2>6. CASE LoadFromPeer(t) \/ LoadHere(t) \/ PeerValue(t) \/ PeerError(t)
    BY <2>6, <1>LoadFromPeerShape, <1>LoadHereShape, <1>ReplyShape, Zenon
  <2>7. CASE RunGetter(t) \/ PopulateMain(t)
    BY <2>7, <1>RunGetterShape, <1>PopulateMainShape, Zenon
  <2>8. CASE RemoveKeysReturn(t)
    BY <2>8, <1>RemoveKeysReturnShape, Zenon
  <2> QED
    BY <1>1, <2>1, <2>2, <2>3, <2>4, <2>5, <2>6, <2>7, <2>8, ZenonT(60)
       DEF Step, Fault, Writing
<1>2. ASSUME NEW p \in Procs, StartOp(p)
      PROVE  Shape
  BY <1>2, <1>StartOpShape, Zenon
<1>3. ASSUME NEW n, NEW S, SetPeers(n, S)
      PROVE  Shape
  BY <1>3, <1>StillShape, Zenon DEF SetPeers
<1>4. ASSUME NEW msg \in late, DeliverLate(msg)
      PROVE  Shape
  BY <1>4, <1>StillShape, Zenon DEF DeliverLate, Stay
<1>5. ASSUME NEW k, WriteSource(k)
      PROVE  Shape
  BY <1>5, <1>StillShape, Zenon DEF WriteSource, Quiet, Caches
<1>6. ASSUME NEW n, NEW k, Evict(n, k)
      PROVE  Shape
  <2>1. n \in Evicting
    BY <1>6, Zenon DEF Evict
  <2> QED
    BY <1>6, <2>1, <1>StillShape, Zenon DEF Evict, Stay, Quiet
<1>7. CASE UNCHANGED vars
  BY <1>7, <1>StillShape, Zenon DEF vars
<1> QED
  BY <1>1, <1>2, <1>3, <1>4, <1>5, <1>6, <1>7, Zenon DEF Proceed

-------------------------------------------------------------------------------
(***************************************************************************)
(* How often the Getter runs.  While nobody writes and nothing is evicted  *)
(* or fails, the owner has run its Getter for a key once for all Gets: a   *)
(* flight that follows another finds the value by its second lookup.       *)
(***************************************************************************)

\* Nobody writes, nothing is evicted, and values are cached.
ReadOnly == GetsOnly /\ Evicting = {} /\ Caching

\* A goroutine whose flight has found the main cache empty and has no value yet.
Missed(r) == r.op = "get" /\ r.pc \in {"recheckHot", "load", "rpc", "reply", "local"}

Filling(t) == task[t].op = "get" /\ task[t].pc = "fill"

\* The value of the Getter is on its way to the owner's main cache, or there.
Kept(k) ==
  \/ main[Owner(Nodes, k)][k] # 0
  \/ \E t \in Tasks : Filling(t) /\ task[t].key = k

OnlyReads ==
  /\ late = {}
  /\ \A t \in Tasks : task[t].op \in {"none", "get"}
  /\ \A k \in Keys : src[k] # 0
  /\ \A t \in Tasks : Filling(t) => task[t].res.ver # 0

OwnerRuns ==
  Undisturbed =>
    /\ \A t \in Tasks : Filling(t) => task[t].node = Owner(Nodes, task[t].key)
    /\ \A k \in Keys : runs[k] = 0 \/ (runs[k] = 1 /\ Kept(k))
    /\ \A t \in Tasks : Missed(task[t]) /\ task[t].node = Owner(Nodes, task[t].key)
                          => runs[task[t].key] = 0

RunsInv == OnlyReads /\ OwnerRuns

\* A goroutine does not write the data source.
LEMMA GoroutineSource ==
  ASSUME NEW t, Step(t) \/ Fault(t)
  PROVE  src' = src
<1>1. CASE DoLead(t) \/ DoJoin(t) \/ DoJoinLate(t)
  BY <1>1, ZenonT(60) DEF DoLead, DoJoin, DoJoinLate, Stay
<1>2. CASE LeaderDone(t) \/ LeaderReturn(t) \/ DuplicateReturn(t)
  BY <1>2, ZenonT(60) DEF LeaderDone, LeaderReturn, DuplicateReturn, Stay
<1>3. CASE LookupMain(t) \/ LookupHot(t)
  BY <1>3, ZenonT(60) DEF LookupMain, LookupHot, Stay
<1>4. CASE LoadFromPeer(t) \/ LoadHere(t) \/ PeerValue(t) \/ PeerError(t)
  BY <1>4, Zenon DEF LoadFromPeer, LoadHere, PeerValue, PeerError, Stay
<1>5. CASE RunGetter(t) \/ PopulateMain(t)
  BY <1>5, Zenon DEF RunGetter, PopulateMain, Stay
<1>6. CASE WritePick(t) \/ WriteOwner(t) \/ WriteHere(t)
  BY <1>6, Zenon DEF WritePick, WriteOwner, WriteHere, Stay
<1>7. CASE SetList(t) \/ RemoveList(t) \/ BroadcastEnd(t)
  BY <1>7, Zenon DEF SetList, RemoveList, BroadcastEnd, Stay
<1>8. ASSUME NEW msg, Broadcast(t, msg) \/ BroadcastFails(t, msg)
      PROVE  src' = src
  BY <1>8, ZenonT(60) DEF Broadcast, BroadcastFails, Stay
<1>9. ASSUME NEW k, GroupByOwner(t, k) \/ RemoveKeysHere(t, k)
      PROVE  src' = src
  BY <1>9, ZenonT(60) DEF GroupByOwner, RemoveKeysHere, Stay
<1>10. CASE RemoveKeysList(t) \/ RemoveKeysReturn(t)
  BY <1>10, Zenon DEF RemoveKeysList, RemoveKeysReturn, Stay
<1>11. ASSUME NEW st, PeerUnreachable(t, st) \/ ReplyLost(t, st)
       PROVE  src' = src
  BY <1>11, ZenonT(60) DEF PeerUnreachable, ReplyLost, Stay
<1>12. CASE WriteOwnerFails(t)
  BY <1>12, ZenonT(60) DEF WriteOwnerFails, Stay
<1> QED
  BY <1>1, <1>2, <1>3, <1>4, <1>5, <1>6, <1>7, <1>8, <1>9, <1>10, <1>11, <1>12,
     ZenonT(60) DEF Step, Fault

\* Versions of the source only grow.
LEMMA SourceGrows ==
  ASSUME IndInv, [Next]_vars
  PROVE  \A k \in Keys : src'[k] >= src[k]
<1>1. src \in [Keys -> Nat]
  BY BoundAssumption DEF IndInv, DataOK, Version
<1>2. ASSUME src' = src PROVE \A k \in Keys : src'[k] >= src[k]
  BY <1>1, <1>2
<1>3. ASSUME NEW t \in Tasks, Step(t) \/ Fault(t)
      PROVE  \A k \in Keys : src'[k] >= src[k]
  BY <1>2, <1>3, GoroutineSource, Zenon
<1>4. ASSUME NEW p \in Procs, StartOp(p)
      PROVE  \A k \in Keys : src'[k] >= src[k]
  <2>1. src' = src
    BY <1>4, ZenonT(60) DEF StartOp, StartGet, StartSet, StartRemove, StartRemoveKeys, Start
  <2> QED
    BY <1>2, <2>1, Zenon
<1>5. ASSUME NEW k \in Keys, WriteSource(k)
      PROVE  \A q \in Keys : src'[q] >= src[q]
  <2>1. src' = [src EXCEPT ![k] = @ + 1]
    BY <1>5, Zenon DEF WriteSource
  <2> QED
    BY <1>1, <2>1
<1>6. ASSUME NEW n, NEW S, SetPeers(n, S)
      PROVE  \A k \in Keys : src'[k] >= src[k]
  BY <1>2, <1>6, Zenon DEF SetPeers
<1>7. ASSUME NEW msg, DeliverLate(msg)
      PROVE  \A k \in Keys : src'[k] >= src[k]
  BY <1>2, <1>7, Zenon DEF DeliverLate, Stay
<1>8. ASSUME NEW n, NEW k, Evict(n, k)
      PROVE  \A q \in Keys : src'[q] >= src[q]
  BY <1>2, <1>8, Zenon DEF Evict, Stay
<1>9. CASE UNCHANGED vars
  BY <1>2, <1>9, Zenon DEF vars
<1>10. ASSUME NEW p, NEW n, GetNilDest(p, n)
       PROVE  \A k \in Keys : src'[k] >= src[k]
  BY <1>2, <1>10, NilDestFrame, Zenon
<1> QED
  BY <1>3, <1>4, <1>5, <1>6, <1>7, <1>8, <1>9, <1>10, ZenonT(60) DEF Next, Proceed

\* A goroutine that neither runs the Getter nor caches what it returned; it may
\* find the main cache empty.
Plain(v) ==
  LET r == task[v]
      s == task'[v]
  IN  /\ s.op \in {"none", "get"}
      /\ Filling(v)' => Filling(v)
      /\ Filling(v) => Filling(v)' /\ s.node = r.node /\ s.key = r.key /\ s.res = r.res
      /\ Missed(s) =>
           /\ Keeps(r, s)
           /\ Missed(r) \/ (r.op = "get" /\ r.pc = "recheck" /\ main[r.node][r.key] = 0)

\* While the flight looks again, nobody else is filling the cache of its node.
LEMMA EmptyCache ==
  ASSUME GetterInv, OwnerRuns, IndInv, Undisturbed, NEW t \in Tasks,
         task[t].op = "get", task[t].pc = "recheck",
         task[t].node = Owner(Nodes, task[t].key), main[task[t].node][task[t].key] = 0
  PROVE  runs[task[t].key] = 0
<1> DEFINE k == task[t].key
<1>1. k \in Keys
  BY Zenon DEF IndInv, TaskOK, Formed, Form, FormAt
<1>2. SUFFICES ASSUME Kept(k) PROVE FALSE
  BY <1>1, Zenon DEF OwnerRuns
<1>3. PICK u \in Tasks : Filling(u) /\ task[u].key = k
  BY <1>2, Zenon DEF Kept
<1>4. task[u].node = task[t].node
  BY <1>3, Zenon DEF OwnerRuns
<1>5. Leads(task[u]) /\ Leads(task[t])
  BY <1>3, Zenon DEF Leads, Filling
<1>6. u = t
  BY <1>3, <1>4, <1>5, Zenon DEF GetterInv, LeaderAlone
<1> QED
  BY <1>3, <1>6, Zenon DEF Filling

\* Most steps.
LEMMA PlainRuns ==
  ASSUME IndInv, GetterInv, RunsInv, Ages, Still, \A k \in Keys : src'[k] # 0,
         \A v \in Tasks : Plain(v)
  PROVE  RunsInv'
<1>1. OnlyReads'
  <2>1. late' = {}
    BY Zenon DEF RunsInv, OnlyReads, Still
  <2>2. \A v \in Tasks : task'[v].op \in {"none", "get"}
    BY Zenon DEF Plain
  <2>3. \A v \in Tasks : Filling(v)' => task'[v].res.ver # 0
    BY Zenon DEF Plain, RunsInv, OnlyReads
  <2> QED
    BY <2>1, <2>2, <2>3, Zenon DEF OnlyReads
<1>2. ASSUME Undisturbed'
      PROVE  /\ \A v \in Tasks : Filling(v)' => task'[v].node = Owner(Nodes, task'[v].key)
             /\ \A k \in Keys : runs'[k] = 0 \/ (runs'[k] = 1 /\ Kept(k)')
             /\ \A v \in Tasks :
                  Missed(task'[v]) /\ task'[v].node = Owner(Nodes, task'[v].key)
                    => runs'[task'[v].key] = 0
  <2>1. Undisturbed /\ OwnerRuns
    BY <1>2, Zenon DEF Ages, RunsInv
  <2>2. ASSUME NEW v \in Tasks, Filling(v)'
        PROVE  task'[v].node = Owner(Nodes, task'[v].key)
    <3>1. Filling(v) /\ task'[v].node = task[v].node /\ task'[v].key = task[v].key
      BY <2>2, Zenon DEF Plain
    <3>2. task[v].node = Owner(Nodes, task[v].key)
      BY <2>1, <3>1, Zenon DEF OwnerRuns
    <3> QED
      BY <3>1, <3>2, Zenon
  <2>3. ASSUME NEW k \in Keys
        PROVE  runs'[k] = 0 \/ (runs'[k] = 1 /\ Kept(k)')
    <3>1. runs' = runs /\ main' = main
      BY Zenon DEF Still
    <3>2. Kept(k) => Kept(k)'
      BY <3>1, Zenon DEF Kept, Plain
    <3>3. runs[k] = 0 \/ (runs[k] = 1 /\ Kept(k))
      BY <2>1, Zenon DEF OwnerRuns
    <3> QED
      BY <3>1, <3>2, <3>3, Zenon
  <2>4. ASSUME NEW v \in Tasks, Missed(task'[v]),
               task'[v].node = Owner(Nodes, task'[v].key)
        PROVE  runs'[task'[v].key] = 0
    <3>1. /\ task'[v].node = task[v].node /\ task'[v].key = task[v].key
          /\ \/ Missed(task[v])
             \/ /\ task[v].op = "get" /\ task[v].pc = "recheck"
                /\ main[task[v].node][task[v].key] = 0
      BY <2>4, Zenon DEF Plain, Keeps
    <3>2. task[v].node = Owner(Nodes, task[v].key)
      BY <2>4, <3>1, Zenon
    <3>3. runs[task[v].key] = 0
      <4>1. CASE Missed(task[v])
        BY <2>1, <3>2, <4>1, Zenon DEF OwnerRuns
      <4>2. CASE /\ task[v].op = "get" /\ task[v].pc = "recheck"
                 /\ main[task[v].node][task[v].key] = 0
        BY <2>1, <3>2, <4>2, EmptyCache, Zenon
      <4> QED
        BY <3>1, <4>1, <4>2, Zenon
    <3> QED
      BY <3>1, <3>3, Zenon DEF Still
  <2> QED
    BY <2>2, <2>3, <2>4, Zenon
<1> QED
  BY <1>1, <1>2, Zenon DEF RunsInv, OwnerRuns

\* A goroutine beside the one that moves is plain.
LEMMA BesidePlain ==
  ASSUME OnlyReads, NEW v \in Tasks, Beside(v)
  PROVE  Plain(v)
<1>1. task[v].op \in {"none", "get"}
  BY Zenon DEF OnlyReads
<1> QED
  BY <1>1, Zenon DEF Beside, Plain, Keeps, Filling, Missed

\* The Getter ran.
LEMMA RanRuns ==
  ASSUME IndInv, GetterInv, RunsInv, Ages, \A k \in Keys : src'[k] # 0,
         NEW t \in Tasks, Aside(t), late' = late, main' = main,
         task[t].op = "get", Keeps(task[t], task'[t]),
         task[t].pc = "local", task'[t].pc = "fill",
         task'[t].res.ver = src[task[t].key],
         runs' = [runs EXCEPT ![task[t].key] = @ + 1]
  PROVE  RunsInv'
<1> DEFINE k == task[t].key
<1>1. OnlyReads /\ k \in Keys /\ runs \in [Keys -> Nat]
  BY Zenon DEF RunsInv, IndInv, DataOK, TaskOK, Formed, Form, FormAt
<1>2. \A v \in Tasks \ {t} : Plain(v)
  BY <1>1, BesidePlain, Zenon DEF Aside
<1>3. task'[t].op = "get" /\ task'[t].node = task[t].node /\ task'[t].key = k
  BY Zenon DEF Keeps
<1>4. Filling(t)' /\ ~ Missed(task'[t])
  BY <1>3, Zenon DEF Filling, Missed
<1>5. OnlyReads'
  <2>1. \A v \in Tasks : task'[v].op \in {"none", "get"}
    BY <1>2, <1>3, Zenon DEF Plain
  <2>2. ASSUME NEW v \in Tasks, Filling(v)' PROVE task'[v].res.ver # 0
    <3>1. CASE v = t
      <4>1. src[k] # 0
        BY <1>1, Zenon DEF OnlyReads
      <4> QED
        BY <3>1, <4>1, Zenon
    <3>2. CASE v # t
      <4>1. Filling(v) /\ task'[v].res = task[v].res
        BY <1>2, <2>2, <3>2, Zenon DEF Plain
      <4>2. task[v].res.ver # 0
        BY <1>1, <4>1, Zenon DEF OnlyReads
      <4> QED
        BY <4>1, <4>2, Zenon
    <3> QED
      BY <3>1, <3>2, Zenon
  <2> QED
    BY <1>1, <2>1, <2>2, Zenon DEF OnlyReads
<1>6. ASSUME Undisturbed'
      PROVE  /\ \A v \in Tasks : Filling(v)' => task'[v].node = Owner(Nodes, task'[v].key)
             /\ \A q \in Keys : runs'[q] = 0 \/ (runs'[q] = 1 /\ Kept(q)')
             /\ \A v \in Tasks :
                  Missed(task'[v]) /\ task'[v].node = Owner(Nodes, task'[v].key)
                    => runs'[task'[v].key] = 0
  <2>1. Undisturbed /\ OwnerRuns
    BY <1>6, Zenon DEF Ages, RunsInv
  <2>2. task[t].node = Owner(Nodes, k)
    BY <2>1, Zenon DEF GetterInv, AtOwner
  <2>3. runs[k] = 0
    <3>1. Missed(task[t])
      BY Zenon DEF Missed
    <3> QED
      BY <2>1, <2>2, <3>1, Zenon DEF OwnerRuns
  <2>4. ASSUME NEW v \in Tasks, Filling(v)'
        PROVE  task'[v].node = Owner(Nodes, task'[v].key)
    <3>1. CASE v = t
      BY <1>3, <2>2, <3>1, Zenon
    <3>2. CASE v # t
      <4>1. Filling(v) /\ task'[v].node = task[v].node /\ task'[v].key = task[v].key
        BY <1>2, <2>4, <3>2, Zenon DEF Plain
      <4> QED
        BY <2>1, <4>1, Zenon DEF OwnerRuns
    <3> QED
      BY <3>1, <3>2, Zenon
  <2>5. ASSUME NEW q \in Keys
        PROVE  runs'[q] = 0 \/ (runs'[q] = 1 /\ Kept(q)')
    <3>1. CASE q = k
      <4>1. runs'[k] = 1
        BY <1>1, <2>3
      <4> QED
        BY <1>3, <1>4, <3>1, <4>1, Zenon DEF Kept
    <3>2. CASE q # k
      <4>1. runs'[q] = runs[q]
        BY <1>1, <3>2, Zenon
      <4>2. Kept(q) => Kept(q)'
        <5>1. ASSUME NEW v \in Tasks, Filling(v), task[v].key = q
              PROVE  Filling(v)' /\ task'[v].key = q
          <6>1. v # t
            BY <5>1, Zenon DEF Filling
          <6> QED
            BY <1>2, <5>1, <6>1, Zenon DEF Plain
        <5> QED
          BY <5>1, Zenon DEF Kept
      <4>3. runs[q] = 0 \/ (runs[q] = 1 /\ Kept(q))
        BY <2>1, Zenon DEF OwnerRuns
      <4> QED
        BY <4>1, <4>2, <4>3, Zenon
    <3> QED
      BY <3>1, <3>2, Zenon
  <2>6. ASSUME NEW v \in Tasks, Missed(task'[v]),
               task'[v].node = Owner(Nodes, task'[v].key)
        PROVE  runs'[task'[v].key] = 0
    <3>1. v # t
      BY <1>4, <2>6, Zenon
    <3>2. /\ task'[v].node = task[v].node /\ task'[v].key = task[v].key
          /\ task'[v].op = task[v].op
          /\ \/ Missed(task[v])
             \/ /\ task[v].op = "get" /\ task[v].pc = "recheck"
                /\ main[task[v].node][task[v].key] = 0
      BY <1>2, <2>6, <3>1, Zenon DEF Plain, Keeps
    <3>3. task[v].node = Owner(Nodes, task[v].key)
      BY <2>6, <3>2, Zenon
    <3>4. Leads(task[v]) /\ Leads(task[t])
      BY <3>2, Zenon DEF Leads, Missed
    <3>5. task[v].key # k
      BY <2>2, <3>1, <3>3, <3>4, Zenon DEF GetterInv, LeaderAlone
    <3>6. runs[task[v].key] = 0
      <4>1. CASE Missed(task[v])
        BY <2>1, <3>3, <4>1, Zenon DEF OwnerRuns
      <4>2. CASE /\ task[v].op = "get" /\ task[v].pc = "recheck"
                 /\ main[task[v].node][task[v].key] = 0
        BY <2>1, <3>3, <4>2, EmptyCache, Zenon
      <4> QED
        BY <3>2, <4>1, <4>2, Zenon
    <3>7. task[v].key \in Keys
      BY <3>4, Place, Zenon
    <3> QED
      BY <1>1, <3>2, <3>5, <3>6, <3>7, Zenon
  <2> QED
    BY <2>4, <2>5, <2>6, Zenon
<1> QED
  BY <1>5, <1>6, Zenon DEF RunsInv, OwnerRuns

\* What the Getter returned is cached.
LEMMA FilledRuns ==
  ASSUME IndInv, GetterInv, RunsInv, Ages, \A k \in Keys : src'[k] # 0,
         NEW t \in Tasks, Aside(t), late' = late, runs' = runs,
         task[t].op = "get", Keeps(task[t], task'[t]),
         task[t].pc = "fill", task'[t].pc = "done",
         main' = [main EXCEPT ![task[t].node][task[t].key] = task[t].res.ver]
  PROVE  RunsInv'
<1> DEFINE k == task[t].key
           n == task[t].node
<1>1. OnlyReads /\ k \in Keys /\ n \in Nodes /\ main \in [Nodes -> [Keys -> Version]]
  BY Zenon DEF RunsInv, IndInv, DataOK, TaskOK, Formed, Form, FormAt
<1>2. \A v \in Tasks \ {t} : Plain(v)
  BY <1>1, BesidePlain, Zenon DEF Aside
<1>3. task'[t].op = "get" /\ task'[t].node = n /\ task'[t].key = k
  BY Zenon DEF Keeps
<1>4. ~ Filling(t)' /\ ~ Missed(task'[t]) /\ Filling(t)
  BY <1>3, Zenon DEF Filling, Missed
<1>5. OnlyReads'
  <2>1. \A v \in Tasks : task'[v].op \in {"none", "get"}
    BY <1>2, <1>3, Zenon DEF Plain
  <2>2. ASSUME NEW v \in Tasks, Filling(v)' PROVE task'[v].res.ver # 0
    <3>1. Filling(v) /\ task'[v].res = task[v].res
      BY <1>2, <1>4, <2>2, Zenon DEF Plain
    <3>2. task[v].res.ver # 0
      BY <1>1, <3>1, Zenon DEF OnlyReads
    <3> QED
      BY <3>1, <3>2, Zenon
  <2> QED
    BY <1>1, <2>1, <2>2, Zenon DEF OnlyReads
<1>6. task[t].res.ver # 0
  BY <1>1, <1>4, Zenon DEF OnlyReads
<1>7. ASSUME Undisturbed'
      PROVE  /\ \A v \in Tasks : Filling(v)' => task'[v].node = Owner(Nodes, task'[v].key)
             /\ \A q \in Keys : runs'[q] = 0 \/ (runs'[q] = 1 /\ Kept(q)')
             /\ \A v \in Tasks :
                  Missed(task'[v]) /\ task'[v].node = Owner(Nodes, task'[v].key)
                    => runs'[task'[v].key] = 0
  <2>1. Undisturbed /\ OwnerRuns
    BY <1>7, Zenon DEF Ages, RunsInv
  <2>2. n = Owner(Nodes, k)
    BY <1>4, <2>1, Zenon DEF OwnerRuns
  <2>3. ASSUME NEW v \in Tasks, Filling(v)'
        PROVE  task'[v].node = Owner(Nodes, task'[v].key)
    <3>1. v # t
      BY <1>4, <2>3, Zenon
    <3>2. Filling(v) /\ task'[v].node = task[v].node /\ task'[v].key = task[v].key
      BY <1>2, <2>3, <3>1, Zenon DEF Plain
    <3>3. task[v].node = Owner(Nodes, task[v].key)
      BY <2>1, <3>2, Zenon DEF OwnerRuns
    <3> QED
      BY <3>2, <3>3, Zenon
  <2>4. ASSUME NEW q \in Keys
        PROVE  runs'[q] = 0 \/ (runs'[q] = 1 /\ Kept(q)')
    <3>1. runs[q] = 0 \/ (runs[q] = 1 /\ Kept(q))
      BY <2>1, Zenon DEF OwnerRuns
    <3> DEFINE o == Owner(Nodes, q)
    <3>2. o \in Nodes
      BY <1>1, OwnerNearest, Zenon
    <3> HIDE DEF o
    <3>3. main'[o][q] = IF o = n /\ q = k THEN task[t].res.ver ELSE main[o][q]
      BY <1>1, <3>2, Zenon
    <3>4. ASSUME Kept(q) PROVE Kept(q)'
      <4>1. CASE main[o][q] # 0
        BY <1>6, <3>3, <4>1, Zenon DEF Kept, o
      <4>2. ASSUME NEW v \in Tasks, Filling(v), task[v].key = q
            PROVE  Kept(q)'
        <5>1. CASE v = t
          <6>1. q = k /\ o = n
            BY <2>2, <4>2, <5>1, Zenon DEF o
          <6> QED
            BY <1>6, <3>3, <6>1, Zenon DEF Kept, o
        <5>2. CASE v # t
          <6>1. Filling(v)' /\ task'[v].key = q
            BY <1>2, <4>2, <5>2, Zenon DEF Plain
          <6> QED
            BY <6>1, Zenon DEF Kept
        <5> QED
          BY <5>1, <5>2, Zenon
      <4> QED
        BY <3>4, <4>1, <4>2, Zenon DEF Kept, o
    <3> QED
      BY <3>1, <3>4, Zenon
  <2>5. ASSUME NEW v \in Tasks, Missed(task'[v]),
               task'[v].node = Owner(Nodes, task'[v].key)
        PROVE  runs'[task'[v].key] = 0
    <3>1. v # t
      BY <1>4, <2>5, Zenon
    <3>2. /\ task'[v].node = task[v].node /\ task'[v].key = task[v].key
          /\ \/ Missed(task[v])
             \/ /\ task[v].op = "get" /\ task[v].pc = "recheck"
                /\ main[task[v].node][task[v].key] = 0
      BY <1>2, <2>5, <3>1, Zenon DEF Plain, Keeps
    <3>3. task[v].node = Owner(Nodes, task[v].key)
      BY <2>5, <3>2, Zenon
    <3>4. runs[task[v].key] = 0
      <4>1. CASE Missed(task[v])
        BY <2>1, <3>3, <4>1, Zenon DEF OwnerRuns
      <4>2. CASE /\ task[v].op = "get" /\ task[v].pc = "recheck"
                 /\ main[task[v].node][task[v].key] = 0
        BY <2>1, <3>3, <4>2, EmptyCache, Zenon
      <4> QED
        BY <3>2, <4>1, <4>2, Zenon
    <3> QED
      BY <3>2, <3>4, Zenon
  <2> QED
    BY <2>3, <2>4, <2>5, Zenon
<1> QED
  BY <1>5, <1>7, Zenon DEF RunsInv, OwnerRuns

\* Every step.
LEMMA NextRuns ==
  ASSUME ReadOnly
  PROVE  IndInv /\ GetterInv /\ RunsInv /\ [Next]_vars => RunsInv'
<1> SUFFICES ASSUME IndInv, GetterInv, RunsInv, [Next]_vars
             PROVE  RunsInv'
  BY Zenon
<1>1. Ages /\ (Shape \/ \E p, n : GetNilDest(p, n))
  <2>1. [Proceed]_vars \/ \E p, n : GetNilDest(p, n)
    BY Zenon DEF Next
  <2> QED
    BY <2>1, NextAges, NextShape, Zenon
<1>2. \A k \in Keys : src'[k] # 0
  <2>1. \A k \in Keys : src[k] # 0 /\ src[k] \in Nat
    BY BoundAssumption DEF RunsInv, OnlyReads, IndInv, DataOK, Version
  <2>2. \A k \in Keys : src'[k] >= src[k]
    BY SourceGrows, Zenon
  <2> QED
    BY <2>1, <2>2, SMTT(30)
<1>3. OnlyReads /\ GetsOnly /\ Evicting = {} /\ Caching
  BY Zenon DEF RunsInv, ReadOnly
<1>4. CASE Elsewhere
  <2>1. (\A v \in Tasks : Beside(v)) /\ Still
    BY <1>3, <1>4, Zenon DEF Elsewhere, OnlyReads, Still
  <2>2. \A v \in Tasks : Plain(v)
    BY <1>3, <2>1, BesidePlain, Zenon
  <2> QED
    BY <1>1, <1>2, <2>1, <2>2, PlainRuns, Zenon
<1>5. ASSUME NEW u \in Tasks, Enters(u) PROVE Plain(u)
  BY <1>5, Zenon DEF Enters, Plain, Filling, Missed
<1>6. CASE Calls
  <2>1. PICK u \in Procs : Aside(u) /\ Enters(u)
    BY <1>6, Zenon DEF Calls
  <2>2. u \in Tasks
    BY Zenon DEF Tasks
  <2>3. \A v \in Tasks : Plain(v)
    BY <1>3, <1>5, <2>1, <2>2, BesidePlain, Zenon DEF Aside
  <2>4. Still
    BY <2>1, Zenon DEF Enters
  <2> QED
    BY <1>1, <1>2, <2>3, <2>4, PlainRuns, Zenon
<1>7. CASE Forwards
  <2>1. PICK u \in Tasks, t \in Tasks :
          /\ Enters(u)
          /\ task[t].op = "get" /\ Keeps(task[t], task'[t])
          /\ task[t].pc = "load" /\ task'[t].pc = "rpc"
          /\ \A v \in Tasks \ {u, t} : Beside(v)
    BY <1>7, Zenon DEF Forwards
  <2>2. Plain(t)
    BY <2>1, Zenon DEF Plain, Keeps, Filling, Missed
  <2>3. \A v \in Tasks : Plain(v)
    BY <1>3, <1>5, <2>1, <2>2, BesidePlain, Zenon
  <2>4. Still
    BY <2>1, Zenon DEF Enters
  <2> QED
    BY <1>1, <1>2, <2>3, <2>4, PlainRuns, Zenon
<1>8. CASE Ends
  <2>1. PICK u \in Tasks :
          /\ Aside(u) /\ Still /\ task'[u].op = "none"
          /\ task[u].pc \in {"lookup", "lookupHot", "do", "delete", "wake"}
    BY <1>8, Zenon DEF Ends
  <2>2. Plain(u)
    BY <2>1, Zenon DEF Plain, Filling, Missed
  <2>3. \A v \in Tasks : Plain(v)
    BY <1>3, <2>1, <2>2, BesidePlain, Zenon DEF Aside
  <2> QED
    BY <1>1, <1>2, <2>1, <2>3, PlainRuns, Zenon
<1>9. CASE Continues
  <2>1. PICK u \in Tasks : Aside(u) /\ Advances(u)
    BY <1>9, Zenon DEF Continues
  <2>2. late' = late /\ task[u].op = "get" /\ Keeps(task[u], task'[u])
    BY <2>1, Zenon DEF Advances
  <2>3. CASE /\ Link(task[u].pc, task'[u].pc) /\ Still
             /\ task[u].pc = "recheck" /\ task'[u].pc = "recheckHot" /\ Caching
                   => main[task[u].node][task[u].key] = 0
    <3>1. Plain(u)
      BY <1>3, <2>2, <2>3, Zenon DEF Plain, Keeps, Link, Filling, Missed
    <3>2. \A v \in Tasks : Plain(v)
      BY <1>3, <2>1, <3>1, BesidePlain, Zenon DEF Aside
    <3> QED
      BY <1>1, <1>2, <2>3, <3>2, PlainRuns, Zenon
  <2>4. CASE /\ task[u].pc = "local" /\ task'[u].pc = "fill" /\ main' = main
             /\ task'[u].res.ver = src[task[u].key]
             /\ runs' = [runs EXCEPT ![task[u].key] = @ + 1]
    BY <1>1, <1>2, <2>1, <2>2, <2>4, RanRuns, Zenon
  <2>5. CASE /\ task[u].pc = "fill" /\ task'[u].pc = "done" /\ runs' = runs
             /\ Caching => main' = [main EXCEPT ![task[u].node][task[u].key] = task[u].res.ver]
    BY <1>1, <1>2, <1>3, <2>1, <2>2, <2>5, FilledRuns, Zenon
  <2> QED
    BY <2>1, <2>3, <2>4, <2>5, Zenon DEF Advances
<1>10. ASSUME NEW p, NEW n, GetNilDest(p, n)
       PROVE  RunsInv'
  <2>1. task' = task /\ Still
    BY <1>10, NilDestFrame, Zenon DEF Still
  <2>2. \A v \in Tasks : Plain(v)
    BY <1>3, <2>1, Zenon DEF Plain, Filling, Keeps, OnlyReads
  <2> QED
    BY <1>1, <1>2, <2>1, <2>2, PlainRuns, Zenon
<1> QED
  BY <1>1, <1>4, <1>6, <1>7, <1>8, <1>9, <1>10, Zenon DEF Shape

\* At first the Getter has not run.
LEMMA InitRuns == Init => RunsInv
<1> SUFFICES ASSUME Init PROVE RunsInv
  BY Zenon
<1>1. NoTask.op = "none"
  BY AtRest, Zenon
<1>2. \A t \in Tasks : task[t] = NoTask
  BY Zenon DEF Init
<1>3. \A t \in Tasks : ~ Filling(t) /\ ~ Missed(task[t]) /\ task[t].op = "none"
  BY <1>1, <1>2, Zenon DEF Filling, Missed
<1>4. late = {} /\ \A k \in Keys : src[k] = 1 /\ runs[k] = 0
  BY Zenon DEF Init
<1> QED
  BY <1>3, <1>4, SMTT(30) DEF RunsInv, OnlyReads, OwnerRuns

\* "A million simultaneous Get calls run your Getter once" (README), for any
\* number of callers, nodes and keys, as long as nobody writes, nothing is
\* evicted, no request fails and every node has the list of all: between two
\* flights of load for a key nothing is lost, thanks to its second lookup.
THEOREM AlwaysGetterRunsOnce ==
  ASSUME ReadOnly PROVE Spec => []GetterRunsOnce
<1>1. Init => GetterInv /\ RunsInv
  BY InitGets, InitRuns, Zenon
<1>2. IndInv /\ IndInv' /\ GetterInv /\ [Next]_vars => GetterInv'
  BY NextGets, Zenon
<1>3. IndInv /\ GetterInv /\ RunsInv /\ [Next]_vars => RunsInv'
  BY NextRuns, Zenon
<1>4. RunsInv => GetterRunsOnce
  BY SMTT(30) DEF RunsInv, OwnerRuns, GetterRunsOnce
<1> QED
  BY <1>1, <1>2, <1>3, <1>4, Invariance, PTL DEF Spec

===============================================================================
