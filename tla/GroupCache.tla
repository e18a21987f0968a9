------------------------------ MODULE GroupCache ------------------------------
(***************************************************************************)
(* One group on a cluster of nodes: Get, Set, Remove and RemoveKeys of     *)
(* group.go, the requests they send each other through the HTTP transport, *)
(* and SetPeers.                                                           *)
(*                                                                         *)
(* A task is a goroutine: a caller of the group's API (Procs) or a request *)
(* handler of a peer (Handlers).  Every action is one access to state that *)
(* other goroutines share.  Cached data is abstracted to the version of    *)
(* the source it was read from; 0 is "not cached".                         *)
(*                                                                         *)
(* Three facts come from the other modules.  A duplicate's result is fixed *)
(* when its flight's WaitGroup is released (SingleFlight), so LeaderDone   *)
(* hands it over.  A cache may lose any entry at any time to its limit or  *)
(* to expiry (MutexCache): Evict.  The owner of a key among a set of peers *)
(* is the one nearest to it on the ring, which all nodes compute alike.    *)
(***************************************************************************)
EXTENDS Naturals, FiniteSets

CONSTANTS
  Nodes, Keys,
  Procs,           \* callers of the API
  Handlers,        \* bound: requests being served at once
  Nil,
  Rank,            \* Rank[k][n]: distance of node n from key k on the ring
  Ops,             \* Ops[p]: the operations caller p may make
  Home,            \* Home[p]: the nodes it may make them on
  MaxOps,          \* bound: MaxOps[p] operations of caller p
  MaxVer,          \* bound: versions of a key in the data source
  MaxFaults,       \* bound: requests that fail, Getters that panic
  MaxViews,        \* bound: successful calls of SetPeers per node
  GetterOutcomes,  \* what the Getter may do: ok, notfound, err, panic
  Caching,         \* maxCacheBytes > 0
  Evicting,        \* the nodes whose caches may drop entries
  InitPeers        \* the peer list every node starts with; {}: SetPeers not called

ASSUME RankAssumption ==
  /\ Rank \in [Keys -> [Nodes -> Nat]]
  /\ \A k \in Keys, n, q \in Nodes : Rank[k][n] = Rank[k][q] => n = q
ASSUME NearestAssumption ==
  \A k \in Keys : \A S \in SUBSET Nodes : S # {} =>
    \E n \in S : \A q \in S : Rank[k][n] <= Rank[k][q]
ASSUME TaskAssumption == Procs \cap Handlers = {} /\ Nil \notin Procs \cup Handlers
ASSUME FiniteAssumption == IsFiniteSet(Nodes) /\ IsFiniteSet(Procs \cup Handlers)
ASSUME NodeAssumption == Nil \notin Nodes \cup Keys /\ InitPeers \in {{}, Nodes}
ASSUME BoundAssumption ==
  /\ MaxVer \in Nat \ {0} /\ MaxOps \in [Procs -> Nat]
  /\ MaxFaults \in Nat /\ MaxViews \in Nat
  /\ GetterOutcomes \subseteq {"ok", "notfound", "err", "panic"}

VARIABLES
  src,      \* src[k]: the current version in the data source
  peers,    \* peers[n]: the nodes in n's picker, {} before SetPeers
  gen,      \* gen[n]: how often n's picker was replaced
  main, hot,  \* the two caches of each node: version, or 0
  flight,   \* the loadGroup, setGroup and removeGroup of each node
  task,     \* the goroutines
  late,     \* requests whose sender gave up, not yet arrived
  faults,   \* failed requests and panics so far
  left,     \* operations each caller may still start
  floor,    \* ghost: floor[c][k] is the version the last acknowledged write of
            \* class c was made for: "one" key (Set, Remove) or "many" (RemoveKeys)
  raced,    \* ghost: the keys a write of which overlapped a load or another write
  runs      \* Stats.LocalLoads of all nodes: good runs of the Getter

vars == <<src, peers, gen, main, hot, flight, task, late, faults, left,
          floor, raced, runs>>

Tasks == Procs \cup Handlers

Status == {"ok", "notfound", "remote", "ctx", "net", "err", "panic"}

Res(st, v) == [st |-> st, ver |-> v]

NoneSeen == [k \in Keys |-> 0]

NoTask ==
  [op |-> "none", node |-> Nil, key |-> Nil, keys |-> {}, todo |-> {}, seen |-> NoneSeen,
   pc |-> "idle", res |-> Res("ok", 0), parent |-> Nil,
   owner |-> Nil, ogen |-> 0, pend |-> {}, sent |-> "ok"]

NoFlight == [state |-> "none", res |-> Res("ok", 0)]

\* A new call is preset to the error its duplicates see if the leader panics.
NewFlight == [state |-> "pending", res |-> Res("err", 0)]

Init ==
  /\ src = [k \in Keys |-> 1]
  /\ peers = [n \in Nodes |-> InitPeers]
  /\ gen = [n \in Nodes |-> 0]
  /\ main = [n \in Nodes |-> [k \in Keys |-> 0]]
  /\ hot = [n \in Nodes |-> [k \in Keys |-> 0]]
  /\ flight = [g \in {"get", "set", "remove"} |->
                 [n \in Nodes |-> [k \in Keys |-> NoFlight]]]
  /\ task = [t \in Tasks |-> NoTask]
  /\ late = {}
  /\ faults = 0
  /\ left = MaxOps
  /\ floor = [c \in {"one", "many"} |-> [k \in Keys |-> 0]]
  /\ raced = {}
  /\ runs = [k \in Keys |-> 0]

-------------------------------------------------------------------------------
(* Peers *)

\* Picker.Get: the nearest peer on the ring.
Owner(S, k) == CHOOSE n \in S : \A q \in S : Rank[k][n] <= Rank[k][q]

\* Instance.PickPeer: the owner, and whether it is another node.
Remote(n, k) == peers[n] # {} /\ Owner(peers[n], k) # n

\* The client PickPeer returned, as an object of one picker.
Picked(n, k) == IF peers[n] = {} THEN Nil ELSE Owner(peers[n], k)

\* Mutant of SetPeers: a list without the node itself is accepted.
SetPeersWithoutSelf(n, S) ==
  /\ S # {}
  /\ gen[n] < MaxViews
  /\ peers' = [peers EXCEPT ![n] = S]
  /\ gen' = [gen EXCEPT ![n] = @ + 1]
  /\ UNCHANGED <<src, main, hot, flight, task, late, faults, left, floor,
                 raced, runs>>

\* A list without the node itself, or a client that cannot be made, is an
\* error that leaves the picker in place: a stuttering step.
SetPeers(n, S) ==
  /\ n \in S
  /\ gen[n] < MaxViews
  /\ peers' = [peers EXCEPT ![n] = S]
  /\ gen' = [gen EXCEPT ![n] = @ + 1]
  /\ UNCHANGED <<src, main, hot, flight, task, late, faults, left, floor,
                 raced, runs>>

-------------------------------------------------------------------------------
(* Goroutines *)

At(t, op, pc) == task[t].op = op /\ task[t].pc = pc

Stay == UNCHANGED <<src, peers, gen, left>>
Quiet == UNCHANGED <<late, faults, floor, raced, runs>>
Caches == UNCHANGED <<main, hot>>

Goto(t, pc) == task' = [task EXCEPT ![t].pc = pc]

Finish(t, r) == task' = [task EXCEPT ![t].pc = "done", ![t].res = r]

\* A caller enters the API.  seen is what the source held when it did: the
\* value a Set carries, the versions a removal is meant to supersede.
Start(p, op, n, rec) ==
  /\ task[p].pc = "idle"
  /\ op \in Ops[p]
  /\ left[p] > 0
  /\ left' = [left EXCEPT ![p] = @ - 1]
  /\ task' = [task EXCEPT ![p] = rec]
  /\ UNCHANGED <<src, peers, gen, main, hot, flight>>
  /\ Quiet

\* Mutant of Wire: a status the client does not classify.
WireUnclassified(r) ==
  CASE r.st = "ok" -> r
    [] r.st = "notfound" -> r
    [] r.st = "panic" -> Res("net", 0)
    [] OTHER -> Res("status503", 0)

\* What the client of a peer makes of the handler's result.  ServeHTTP answers
\* 404 to ErrNotFound and 503 to any other error; HttpClient.Get turns them
\* back into ErrNotFound and ErrRemoteCall.  A handler that panics closes the
\* connection, which is a transport error.
Wire(r) ==
  CASE r.st = "ok" -> r
    [] r.st = "notfound" -> r
    [] r.st = "panic" -> Res("net", 0)
    [] OTHER -> Res("remote", 0)

\* The task ends with r.  A handler answers the task that waits for it; an
\* acknowledged write raises the floor of its keys, unless it is a Set that
\* logged the failure of a peer.
Return(t, r) ==
  LET me == task[t] IN
  /\ task' = [u \in Tasks |->
                IF u = t THEN NoTask
                ELSE IF u = me.parent
                     THEN [task[u] EXCEPT !.pc = "reply", !.res = Wire(r)]
                     ELSE task[u]]
  /\ floor' = [c \in {"one", "many"} |-> [k \in Keys |->
                 IF /\ r.st = "ok" /\ me.sent = "ok"
                    /\ k \in (IF c = "one" THEN {me.key} ELSE me.keys)
                    /\ me.seen[k] > floor[c][k]
                 THEN me.seen[k] ELSE floor[c][k]]]

-------------------------------------------------------------------------------
(* singleflight.Do, for the flights of all three groups *)

Flight(t) == flight[task[t].op][task[t].node][task[t].key]

SetFlight(t, f) ==
  flight' = [flight EXCEPT ![task[t].op][task[t].node][task[t].key] = f]

\* Mutant of DoLead: the callback does not look into the caches again.
DoLeadNoRecheck(t) ==
  /\ task[t].pc = "do"
  /\ Flight(t).state = "none"
  /\ SetFlight(t, NewFlight)
  /\ Goto(t, IF task[t].op = "get" THEN "load" ELSE "pick")
  /\ Stay /\ Quiet /\ Caches

DoLead(t) ==
  /\ task[t].pc = "do"
  /\ Flight(t).state = "none"
  /\ SetFlight(t, NewFlight)
  /\ Goto(t, IF task[t].op = "get" THEN "recheck" ELSE "pick")
  /\ Stay /\ Quiet /\ Caches

DoJoin(t) ==
  /\ task[t].pc = "do"
  /\ Flight(t).state = "pending"
  /\ Goto(t, "wait")
  /\ UNCHANGED flight /\ Stay /\ Quiet /\ Caches

\* The flight is over but its map entry is not deleted yet.
DoJoinLate(t) ==
  /\ task[t].pc = "do"
  /\ Flight(t).state = "done"
  /\ Return(t, Flight(t).res)
  /\ UNCHANGED <<flight, late, faults, raced, runs>> /\ Stay /\ Caches

\* Mutant of LeaderDone: the duplicates are not released.
LeaderDoneAlone(t) ==
  LET me == task[t]
      r == IF me.res.st = "panic" THEN NewFlight.res ELSE me.res
  IN  /\ me.pc = "done"
      /\ SetFlight(t, [state |-> "done", res |-> r])
      /\ Goto(t, "delete")
      /\ Stay /\ Quiet /\ Caches

\* wg.Done: the duplicates are released with the leader's result.
LeaderDone(t) ==
  LET me == task[t]
      r == IF me.res.st = "panic" THEN NewFlight.res ELSE me.res
  IN  /\ me.pc = "done"
      /\ SetFlight(t, [state |-> "done", res |-> r])
      /\ task' = [u \in Tasks |->
                    IF u = t THEN [me EXCEPT !.pc = "delete"]
                    ELSE IF /\ task[u].pc = "wait" /\ task[u].op = me.op
                            /\ task[u].node = me.node /\ task[u].key = me.key
                         THEN [task[u] EXCEPT !.pc = "wake", !.res = r]
                         ELSE task[u]]
      /\ Stay /\ Quiet /\ Caches

LeaderReturn(t) ==
  /\ task[t].pc = "delete"
  /\ SetFlight(t, NoFlight)
  /\ Return(t, task[t].res)
  /\ UNCHANGED <<late, faults, raced, runs>> /\ Stay /\ Caches

DuplicateReturn(t) ==
  /\ task[t].pc = "wake"
  /\ Return(t, task[t].res)
  /\ UNCHANGED <<flight, late, faults, raced, runs>> /\ Stay /\ Caches

-------------------------------------------------------------------------------
(* Get *)

GetTask(n, k, parent) ==
  [NoTask EXCEPT !.op = "get", !.node = n, !.key = k, !.pc = "lookup",
                 !.parent = parent]

StartGet(p, n, k) == Start(p, "get", n, GetTask(n, k, Nil))

\* A Get without a destination Sink is an error before it looks for anything;
\* it has only been counted (GroupStats).
GetNilDest(p, n) ==
  /\ n \in Home[p] /\ "get" \in Ops[p]
  /\ task[p].pc = "idle"
  /\ left[p] > 0
  /\ left' = [left EXCEPT ![p] = @ - 1]
  /\ UNCHANGED <<src, peers, gen, main, hot, flight, task>>
  /\ Quiet

\* A hit ends Get; inside the flight it ends the callback.
Hit(t, v) ==
  IF task[t].pc \in {"lookup", "lookupHot"}
  THEN Return(t, Res("ok", v))
  ELSE Finish(t, Res("ok", v)) /\ UNCHANGED floor

\* lookupCache, first half: the main cache.
LookupMain(t) ==
  LET me == task[t] IN
  /\ me.pc \in {"lookup", "recheck"}
  /\ IF Caching /\ main[me.node][me.key] # 0
     THEN Hit(t, main[me.node][me.key])
     ELSE /\ Goto(t, IF me.pc = "lookup" THEN "lookupHot" ELSE "recheckHot")
          /\ UNCHANGED floor
  /\ UNCHANGED <<flight, late, faults, raced, runs>> /\ Stay /\ Caches

\* lookupCache, second half: the hot cache.
LookupHot(t) ==
  LET me == task[t] IN
  /\ me.pc \in {"lookupHot", "recheckHot"}
  /\ IF Caching /\ hot[me.node][me.key] # 0
     THEN Hit(t, hot[me.node][me.key])
     ELSE /\ Goto(t, IF me.pc = "lookupHot" THEN "do" ELSE "load")
          /\ UNCHANGED floor
  /\ UNCHANGED <<flight, late, faults, raced, runs>> /\ Stay /\ Caches

\* PickPeer names another node: its handler starts on the request.
LoadFromPeer(t) ==
  LET me == task[t]
      free == {h \in Handlers : task[h].pc = "idle"}
      h == CHOOSE x \in free : TRUE
  IN  /\ me.pc = "load"
      /\ Remote(me.node, me.key)
      /\ free # {}
      /\ task' = [task EXCEPT
                    ![t].pc = "rpc",
                    ![h] = GetTask(Owner(peers[me.node], me.key), me.key, t)]
      /\ UNCHANGED flight /\ Stay /\ Quiet /\ Caches

LoadHere(t) ==
  /\ task[t].pc = "load"
  /\ ~ Remote(task[t].node, task[t].key)
  /\ Goto(t, "local")
  /\ UNCHANGED flight /\ Stay /\ Quiet /\ Caches

\* The request never arrives: "net" is a transport error, "ctx" the caller's
\* context ending.
PeerUnreachable(t, st) ==
  /\ task[t].pc = "load"
  /\ Remote(task[t].node, task[t].key)
  /\ faults < MaxFaults
  /\ faults' = faults + 1
  /\ task' = [task EXCEPT ![t].pc = "reply", ![t].res = Res(st, 0)]
  /\ UNCHANGED <<flight, late, floor, raced, runs>> /\ Stay /\ Caches

\* The caller stops waiting; the handler goes on and answers nobody.
ReplyLost(t, st) ==
  /\ task[t].pc = "rpc"
  /\ faults < MaxFaults
  /\ faults' = faults + 1
  /\ task' = [u \in Tasks |->
                IF u = t THEN [task[t] EXCEPT !.pc = "reply", !.res = Res(st, 0)]
                ELSE IF task[u].parent = t THEN [task[u] EXCEPT !.parent = Nil]
                ELSE task[u]]
  /\ UNCHANGED <<flight, late, floor, raced, runs>> /\ Stay /\ Caches

\* The peer's value always goes to the hot cache.
PeerValue(t) ==
  LET me == task[t] IN
  /\ me.pc = "reply"
  /\ me.res.st = "ok"
  /\ hot' = IF Caching THEN [hot EXCEPT ![me.node][me.key] = me.res.ver] ELSE hot
  /\ Goto(t, "done")
  /\ UNCHANGED <<flight, main>> /\ Stay /\ Quiet

\* Mutant of PeerError: only ErrNotFound and a dead context are final.
PeerErrorRemoteRetried(t) ==
  /\ task[t].pc = "reply"
  /\ task[t].res.st # "ok"
  /\ Goto(t, IF task[t].res.st \in {"notfound", "ctx"} THEN "done" ELSE "local")
  /\ UNCHANGED flight /\ Stay /\ Quiet /\ Caches

\* ErrNotFound, ErrRemoteCall and a dead context are final; any other error
\* falls back to the Getter of this node.
PeerError(t) ==
  /\ task[t].pc = "reply"
  /\ task[t].res.st # "ok"
  /\ Goto(t, IF task[t].res.st = "net" THEN "local" ELSE "done")
  /\ UNCHANGED flight /\ Stay /\ Quiet /\ Caches

\* Mutant of RunGetter: a panic is not caught by the flight's clean-up.
RunGetterPanicEscapes(t) ==
  LET me == task[t] IN
  /\ me.pc = "local"
  /\ \E o \in GetterOutcomes :
       /\ IF o = "panic" THEN faults < MaxFaults /\ faults' = faults + 1
                         ELSE UNCHANGED faults
       /\ IF o = "ok"
          THEN /\ task' = [task EXCEPT ![t].pc = "fill",
                                       ![t].res = Res("ok", src[me.key])]
               /\ runs' = [runs EXCEPT ![me.key] = @ + 1]
          ELSE /\ task' = [task EXCEPT ![t] = NoTask]
               /\ UNCHANGED runs
  /\ UNCHANGED <<flight, late, floor, raced>> /\ Stay /\ Caches

\* getLocally: the Getter reads the source, fails or panics.
RunGetter(t) ==
  LET me == task[t] IN
  /\ me.pc = "local"
  /\ \E o \in GetterOutcomes :
       /\ IF o = "panic" THEN faults < MaxFaults /\ faults' = faults + 1
                         ELSE UNCHANGED faults
       /\ IF o = "ok"
          THEN /\ task' = [task EXCEPT ![t].pc = "fill",
                                       ![t].res = Res("ok", src[me.key])]
               /\ runs' = [runs EXCEPT ![me.key] = @ + 1]
          ELSE Finish(t, Res(o, 0)) /\ UNCHANGED runs
  /\ UNCHANGED <<flight, late, floor, raced>> /\ Stay /\ Caches

\* populateCache(key, value, g.mainCache)
PopulateMain(t) ==
  LET me == task[t] IN
  /\ me.pc = "fill"
  /\ main' = IF Caching THEN [main EXCEPT ![me.node][me.key] = me.res.ver]
             ELSE main
  /\ Goto(t, "done")
  /\ UNCHANGED <<flight, hot>> /\ Stay /\ Quiet

-------------------------------------------------------------------------------
(* Writes *)

WriteTask(op, n, k) ==
  [NoTask EXCEPT !.op = op, !.node = n, !.key = k, !.pc = "do",
                 !.seen = [NoneSeen EXCEPT ![k] = src[k]]]

\* With caching off Set returns at once and has no effect.
StartSet(p, n, k) == Caching /\ Start(p, "set", n, WriteTask("set", n, k))

StartRemove(p, n, k) == Start(p, "remove", n, WriteTask("remove", n, k))

\* What a write does to a node's caches, under loadGroup.Lock: RemoteSet and
\* the same lines of Set, or LocalRemove.  Lock does not wait for flights.
Store(n, K, v) ==
  /\ main' = [main EXCEPT ![n] = [k \in Keys |-> IF k \in K THEN v ELSE @[k]]]
  /\ hot' = [hot EXCEPT ![n] = [k \in Keys |-> IF k \in K THEN 0 ELSE @[k]]]

LocalRemove(n, K) ==
  /\ main' = [main EXCEPT ![n] = [k \in Keys |-> IF k \in K THEN 0 ELSE @[k]]]
  /\ hot' = [hot EXCEPT ![n] = [k \in Keys |-> IF k \in K THEN 0 ELSE @[k]]]

handleRemoveKeysRequest(msg) == LocalRemove(msg.to, msg.keys)

\* PUT, DELETE and POST as the peer's handler executes them.
Apply(msg) ==
  CASE msg.op = "set" -> Store(msg.to, msg.keys, msg.ver)
    [] msg.op = "remove" -> LocalRemove(msg.to, msg.keys)
    [] msg.op = "removekeys" -> handleRemoveKeysRequest(msg)

Request(t, to) ==
  [op |-> task[t].op, to |-> to, gen |-> 0, keys |-> {task[t].key},
   ver |-> IF task[t].op = "set" THEN task[t].seen[task[t].key] ELSE 0]

\* ghost: someone else is loading or writing one of the keys.
Overlapped(t, K) ==
  raced' = raced \cup {k \in K :
              \/ \E n \in Nodes : flight["get"][n][k].state # "none"
              \/ \E u \in Tasks \ {t} : /\ k \in {task[u].key} \cup task[u].keys
                                        /\ task[u].op \notin {"none", "get"}
              \/ \E msg \in late : k \in msg.keys}

\* A request fails: it is lost, or it arrives after its sender gave up.
Fail(msg) ==
  /\ faults < MaxFaults
  /\ faults' = faults + 1
  /\ late' \in {late, late \cup {msg}}

DeliverLate(msg) ==
  /\ msg \in late
  /\ Apply(msg)
  /\ late' = late \ {msg}
  /\ UNCHANGED <<flight, task, faults, floor, raced, runs>> /\ Stay

\* Mutant of WritePick: the owner is left to the broadcast.
WritePickNoOwner(t) ==
  LET me == task[t] IN
  /\ me.pc = "pick"
  /\ task' = [task EXCEPT ![t].pc = "here", ![t].ogen = gen[me.node],
                           ![t].owner = me.node]
  /\ UNCHANGED flight /\ Stay /\ Quiet /\ Caches

\* Set and Remove pick the owner, to write to it first.
WritePick(t) ==
  LET me == task[t] IN
  /\ me.pc = "pick"
  /\ task' = [task EXCEPT
                ![t].pc = IF Remote(me.node, me.key) THEN "owner" ELSE "here",
                ![t].ogen = gen[me.node],
                ![t].owner = Picked(me.node, me.key)]
  /\ UNCHANGED flight /\ Stay /\ Quiet /\ Caches

WriteOwner(t) ==
  /\ task[t].pc = "owner"
  /\ Apply(Request(t, task[t].owner))
  /\ Overlapped(t, {task[t].key})
  /\ Goto(t, "here")
  /\ UNCHANGED <<flight, late, faults, floor, runs>> /\ Stay

\* The owner cannot be told: the operation fails without touching anybody.
WriteOwnerFails(t) ==
  /\ task[t].pc = "owner"
  /\ Fail(Request(t, task[t].owner))
  /\ Finish(t, Res("err", 0))
  /\ UNCHANGED <<flight, floor, raced, runs>> /\ Stay /\ Caches

\* This node's own caches.
WriteHere(t) ==
  LET me == task[t] IN
  /\ me.pc = "here"
  /\ IF me.op = "set" THEN Store(me.node, {me.key}, me.seen[me.key])
                      ELSE LocalRemove(me.node, {me.key})
  /\ IF me.owner \in {Nil, me.node} THEN Overlapped(t, {me.key})
                                     ELSE UNCHANGED raced
  /\ Goto(t, "list")
  /\ UNCHANGED <<flight, late, faults, floor, runs>> /\ Stay

\* Set: everyone but this node and the owner, compared by address.  With no
\* owner (an empty picker) and a peer to compare, owner.HashKey() panics.
SetList(t) ==
  LET me == task[t]
      others == peers[me.node] \ {me.node}
  IN  /\ At(t, "set", "list")
      /\ IF me.owner = Nil /\ others # {}
         THEN Finish(t, Res("panic", 0))
         ELSE task' = [task EXCEPT
                ![t].pc = "fan",
                ![t].pend = {Request(t, q) : q \in others \ {me.owner}}]
      /\ UNCHANGED flight /\ Stay /\ Quiet /\ Caches

\* Remove: everyone but the owner, compared as an object of the same picker;
\* the client of this node itself does nothing.
RemoveList(t) ==
  LET me == task[t]
      skip == IF gen[me.node] = me.ogen THEN {me.owner} ELSE {}
  IN  /\ At(t, "remove", "list")
      /\ task' = [task EXCEPT
                    ![t].pc = "fan",
                    ![t].pend = {Request(t, q) :
                                   q \in peers[me.node] \ ({me.node} \cup skip)}]
      /\ UNCHANGED flight /\ Stay /\ Quiet /\ Caches

\* The broadcast: one goroutine per peer, in any order.
Broadcast(t, msg) ==
  /\ task[t].pc = "fan"
  /\ msg \in task[t].pend
  /\ Apply(msg)
  /\ task' = [task EXCEPT ![t].pend = @ \ {msg}]
  /\ IF task[t].op = "removekeys" THEN Overlapped(t, msg.keys)
                                  ELSE UNCHANGED raced
  /\ UNCHANGED <<flight, late, faults, floor, runs>> /\ Stay

BroadcastFails(t, msg) ==
  /\ task[t].pc = "fan"
  /\ msg \in task[t].pend
  /\ Fail(msg)
  /\ task' = [task EXCEPT ![t].pend = @ \ {msg}, ![t].sent = "err"]
  /\ UNCHANGED <<flight, floor, raced, runs>> /\ Stay /\ Caches

\* Set logs the errors of its broadcast; Remove returns them.
BroadcastEnd(t) ==
  /\ task[t].pc = "fan"
  /\ task[t].op # "removekeys"
  /\ task[t].pend = {}
  /\ Finish(t, Res(IF task[t].op = "remove" THEN task[t].sent ELSE "ok", 0))
  /\ UNCHANGED flight /\ Stay /\ Quiet /\ Caches

-------------------------------------------------------------------------------
(* RemoveKeys: not a flight; pend collects keysByOwner, one request per client *)

StartRemoveKeys(p, n, K) ==
  /\ K # {}
  /\ Start(p, "removekeys", n,
       [NoTask EXCEPT !.op = "removekeys", !.node = n, !.keys = K, !.todo = K,
                      !.seen = [k \in Keys |-> IF k \in K THEN src[k] ELSE 0],
                      !.pc = "group"])

\* keysByOwner[owner] = append(keysByOwner[owner], key); a client is a node
\* in one generation of the picker.
Grouped(t, k) ==
  LET me == task[t]
      o == Owner(peers[me.node], k)
      mine == {msg \in me.pend : msg.to = o /\ msg.gen = gen[me.node]}
  IN  IF ~ Remote(me.node, k) THEN me.pend
      ELSE (me.pend \ mine) \cup
           {[op |-> "removekeys", to |-> o, gen |-> gen[me.node], ver |-> 0,
             keys |-> {k} \cup UNION {msg.keys : msg \in mine}]}

GroupByOwner(t, k) ==
  LET me == task[t] IN
  /\ me.pc = "group"
  /\ k \in me.todo
  /\ task' = [task EXCEPT
                ![t].pend = Grouped(t, k),
                ![t].todo = IF @ = {k} THEN me.keys ELSE @ \ {k},
                ![t].pc = IF me.todo = {k} THEN "rkhere" ELSE @]
  /\ UNCHANGED flight /\ Stay /\ Quiet /\ Caches

\* The caller's own caches come before the owners'.
RemoveKeysHere(t, k) ==
  LET me == task[t] IN
  /\ me.pc = "rkhere"
  /\ k \in me.todo
  /\ LocalRemove(me.node, {k})
  /\ Overlapped(t, {k})
  /\ task' = [task EXCEPT ![t].todo = @ \ {k},
                           ![t].pc = IF me.todo = {k} THEN "rklist" ELSE @]
  /\ UNCHANGED <<flight, late, faults, floor, runs>> /\ Stay

\* Peers that own none of the keys are sent all of them; an owner is skipped.
RemoveKeysList(t) ==
  LET me == task[t]
      owners == {msg.to : msg \in {x \in me.pend : x.gen = gen[me.node]}}
  IN  /\ me.pc = "rklist"
      /\ task' = [task EXCEPT
            ![t].pc = "fan",
            ![t].pend = @ \cup
              {[op |-> "removekeys", to |-> q, gen |-> gen[me.node], ver |-> 0,
                keys |-> me.keys] :
                 q \in peers[me.node] \ ({me.node} \cup owners)}]
      /\ UNCHANGED flight /\ Stay /\ Quiet /\ Caches

\* Mutant of RemoveKeysReturn: it does not wait for the goroutines it started.
RemoveKeysReturnEarly(t) ==
  /\ At(t, "removekeys", "fan")
  /\ Return(t, Res(task[t].sent, 0))
  /\ UNCHANGED <<flight, late, faults, raced, runs>> /\ Stay /\ Caches

RemoveKeysReturn(t) ==
  /\ At(t, "removekeys", "fan")
  /\ task[t].pend = {}
  /\ Return(t, Res(task[t].sent, 0))
  /\ UNCHANGED <<flight, late, faults, raced, runs>> /\ Stay /\ Caches

-------------------------------------------------------------------------------
(* The environment *)

\* The application writes its data source.
WriteSource(k) ==
  /\ src[k] < MaxVer
  /\ src' = [src EXCEPT ![k] = @ + 1]
  /\ UNCHANGED <<peers, gen, left, flight, task>> /\ Quiet /\ Caches

\* A cache drops an entry: its byte limit, or the entry's expiry.
Evict(n, k) ==
  /\ n \in Evicting
  /\ \/ main[n][k] # 0 /\ main' = [main EXCEPT ![n][k] = 0] /\ UNCHANGED hot
     \/ hot[n][k] # 0 /\ hot' = [hot EXCEPT ![n][k] = 0] /\ UNCHANGED main
  /\ UNCHANGED <<flight, task>> /\ Stay /\ Quiet

-------------------------------------------------------------------------------
Step(t) ==
  \/ DoLead(t) \/ DoJoin(t) \/ DoJoinLate(t)
  \/ LeaderDone(t) \/ LeaderReturn(t) \/ DuplicateReturn(t)
  \/ LookupMain(t) \/ LookupHot(t)
  \/ LoadFromPeer(t) \/ LoadHere(t)
  \/ PeerValue(t) \/ PeerError(t)
  \/ RunGetter(t) \/ PopulateMain(t)
  \/ WritePick(t) \/ WriteOwner(t) \/ WriteHere(t)
  \/ SetList(t) \/ RemoveList(t)
  \/ \E msg \in task[t].pend : Broadcast(t, msg)
  \/ BroadcastEnd(t)
  \/ \E k \in task[t].todo : GroupByOwner(t, k) \/ RemoveKeysHere(t, k)
  \/ RemoveKeysList(t) \/ RemoveKeysReturn(t)

Fault(t) ==
  \/ \E st \in {"net", "ctx"} : PeerUnreachable(t, st) \/ ReplyLost(t, st)
  \/ WriteOwnerFails(t)
  \/ \E msg \in task[t].pend : BroadcastFails(t, msg)

StartOp(p) ==
  \E n \in Nodes \cap Home[p] :
    \/ \E k \in Keys : StartGet(p, n, k) \/ StartSet(p, n, k) \/ StartRemove(p, n, k)
    \/ \E K \in SUBSET Keys : StartRemoveKeys(p, n, K)

\* All but the calls that are refused at once.
Proceed ==
  \/ \E t \in Tasks : Step(t) \/ Fault(t)
  \/ \E p \in Procs : StartOp(p)
  \/ \E msg \in late : DeliverLate(msg)
  \/ \E n \in Nodes, S \in SUBSET Nodes : SetPeers(n, S)
  \/ \E k \in Keys : WriteSource(k)
  \/ \E n \in Nodes, k \in Keys : Evict(n, k)

Next == Proceed \/ \E p \in Procs, n \in Nodes : GetNilDest(p, n)

Spec == Init /\ [][Next]_vars

\* Goroutines run; the Getter ends.  Nothing is assumed of callers, of the
\* network's failures, of late requests or of changes of the peer list.
FairSpec == Spec /\ \A t \in Tasks : WF_vars(Step(t))

-------------------------------------------------------------------------------
(* Properties *)

Pcs == {"idle", "do", "wait", "wake", "done", "delete", "lookup", "lookupHot",
        "recheck", "recheckHot", "load", "rpc", "reply", "local", "fill",
        "pick", "owner", "here", "list", "fan", "group", "rkhere", "rklist"}

Version == 0 .. MaxVer

Result == [st : Status, ver : Version]

Message ==
  [op : {"set", "remove", "removekeys"}, to : Nodes, gen : Nat,
   keys : SUBSET Keys, ver : Version]

Task ==
  [op : {"none", "get", "set", "remove", "removekeys"},
   node : Nodes \cup {Nil}, key : Keys \cup {Nil},
   keys : SUBSET Keys, todo : SUBSET Keys, seen : [Keys -> Version],
   pc : Pcs, res : Result, parent : Procs \cup Handlers \cup {Nil},
   owner : Nodes \cup {Nil}, ogen : Nat, pend : SUBSET Message,
   sent : {"ok", "err"}]

\* Every result a caller or a duplicate can see is one Get classifies, and no
\* message or cache names a version the source never had (getFromPeer,
\* setPeer and the flights pass them along).
TypeOK ==
  /\ src \in [Keys -> Version]
  /\ peers \in [Nodes -> SUBSET Nodes]
  /\ gen \in [Nodes -> Nat]
  /\ main \in [Nodes -> [Keys -> Version]]
  /\ hot \in [Nodes -> [Keys -> Version]]
  /\ flight \in [{"get", "set", "remove"} -> [Nodes -> [Keys ->
                   [state : {"none", "pending", "done"}, res : Result]]]]
  /\ task \in [Tasks -> Task]
  /\ late \subseteq Message
  /\ faults \in Nat
  /\ left \in [Procs -> Nat]
  /\ floor \in [{"one", "many"} -> [Keys -> Version]]
  /\ raced \subseteq Keys
  /\ runs \in [Keys -> Nat]

\* A request is only ever forwarded to a node nearer to the key, whatever
\* lists the nodes were given and whenever: SetPeers insists on the node
\* itself, so a node never forwards past itself.
ForwardingDescends ==
  \A h \in Handlers : task[h].parent # Nil =>
    Rank[task[h].key][task[h].node]
      < Rank[task[h].key][task[task[h].parent].node]

\* Hence no cycle of flights waiting for each other: every call returns.
CallsReturn == \A p \in Procs : (task[p].pc # "idle") ~> (task[p].pc = "idle")

Undisturbed == faults = 0 /\ \A n \in Nodes : peers[n] = Nodes /\ gen[n] = 0

\* While nothing fails and the nodes agree on the peers, the Getter runs for a
\* key on its owner only, once at a time in the whole cluster.
OneGetterAtOwner ==
  Undisturbed =>
    \A t, u \in Tasks : task[t].pc = "local" =>
      /\ task[t].node = Owner(Nodes, task[t].key)
      /\ task[u].pc = "local" /\ task[u].key = task[t].key => u = t

\* "A million simultaneous Get calls run your Getter once" (README): nothing
\* is lost between two flights of a key, thanks to the second lookup.
GetterRunsOnce == Undisturbed => \A k \in Keys : runs[k] <= 1

Copies(n, k) == {main[n][k], hot[n][k]} \ {0}

\* After an acknowledged Set or Remove no node keeps an older copy, provided
\* no load and no other write was under way when the write took effect.
\* Loads that start during the broadcast are harmless: the owner came first.
NoStaleCopy ==
  \A k \in Keys \ raced :
    \A n \in Nodes : \A v \in Copies(n, k) : v >= floor["one"][k]

\* RemoveKeys guarantees as much for the owner of each key.
NoStaleOwnerCopy ==
  \A k \in Keys \ raced :
    \A v \in Copies(Owner(Nodes, k), k) : v >= floor["many"][k]

\* "RemoveKeys() [goes] to the owner and then to every other peer" (README):
\* no node keeps an older copy of a removed key.
RemoveKeysReachesPeers ==
  \A k \in Keys \ raced :
    \A n \in Nodes : \A v \in Copies(n, k) : v >= floor["many"][k]

\* "Ensure no requests are in flight" (group.go:446): a removal leaves no older
\* copy even if loads are under way.  The loads go on, and put theirs back.
RemoveStopsFlights ==
  \A k \in Keys, n \in Nodes : \A v \in Copies(n, k) : v >= floor["one"][k]

\* "Writes reach the whole cluster" (README): while nothing fails, the owner
\* holds the value of every Set that returned nil, or a later one.
SetReachesOwner == \A k \in Keys : main[Owner(Nodes, k)][k] >= floor["one"][k]

\* SetPeers "is designed to be called at any point" (README): no Set panics.
NoNilOwner == \A t \in Tasks : task[t].op = "set" => task[t].res.st # "panic"

===============================================================================
