# A formal model of groupcache-go

This directory specifies groupcache-go in TLA+: the duplicate suppression, the
caches, the hash ring, the values and the sinks they are delivered to, the
protocol by which the nodes of a cluster load, write and remove keys, its
statistics, and the life of the daemons. TLC checks the specifications on small
instances; TLAPS proves the theorems listed below for instances of any size.
`PROJECT.json` maps every definition to the lines it models.

## The system

| Part | Source | Module |
|---|---|---|
| `singleflight.Group` | `internal/singleflight/singleflight.go` | `SingleFlight`, which implements `Flights`; proofs in `SingleFlightProofs` |
| `lru.Cache` | `internal/lru/lru.go` | `LRU`, proofs in `MutexCacheProofs` |
| `mutexCache`, `ResetCacheSize` | `cache.go`, `group.go` | `MutexCache`, on top of `LRU`; proofs in `MutexCacheProofs` |
| `ByteView`, the sinks | `transport/byteview.go`, `transport/sinks.go`, `group.go` | `Views`, proofs in `ViewsProofs` |
| `peer.Picker` | `transport/peer/picker.go` | `Picker`, proofs in `PickerProofs` |
| `group` (Get, Set, Remove, RemoveKeys) | `group.go` | `GroupCache`, proofs in `GroupCacheProofs` and `GroupWriteProofs` |
| `Instance.SetPeers`, `PickPeer` | `instance.go` | `GroupCache` |
| HTTP requests between peers | `transport/http_transport.go` | `GroupCache` |
| `NewGroup`, `GetGroup`, `RemoveGroup` | `instance.go` | `Cluster` |
| `Daemon`, `cluster` package, the listener | `daemon.go`, `cluster/cluster.go`, `transport/http_transport.go` | `Cluster`, proofs in `ClusterProofs` |
| the statistics of `Get` and `load` | `group.go`, `stats.go` | `GroupStats`, on top of `GroupCache`; proofs in `GroupStatsProofs` |

A `Get` looks into the main and the hot cache of its node. On a miss it enters a
flight of `loadGroup` for the key, looks again, asks the ring for the owner, and
either runs the application's `Getter` here (filling the main cache) or sends a
request to the owner, whose handler runs the same `Get` there (the answer fills
the hot cache here). `Set` and `Remove` write the owner, the own caches and then
every other peer, in a flight of `setGroup` or `removeGroup`. `RemoveKeys` is
not a flight: it groups the keys by owner, clears its own caches, and then sends
to owners and other peers at once.

## The modules

**SingleFlight.** One action per critical section of `g.mu` in `Do` and for each
statement outside it. `calls` is the heap of call objects, reused when nobody
refers to them. `FnPanic` leaves `fn` through the deferred clean-up. The ghost
`out` records what `fn` did, to compare with what duplicates read.

**Flights.** What `Do` and `Lock` promise, without mutex, map, call objects and
WaitGroups: a key has no flight, a pending one or one that is over and not yet
forgotten; the step that ends it gives its result to exactly the goroutines that
joined it. `SingleFlight` maps its state to this one (`FlightsNow`, `JobsNow`): a
call whose WaitGroup is at zero is over, and a goroutine waiting for it has its
result although it has not read it. `GroupCache` contains the flights in this
form, with the same steps (a late duplicate joins and returns in one).

**LRU.** The list is a sequence of keys, front first; the map is a function. The
two are updated separately, as in the code. `evicted` is what the last operation
passed to `OnEvicted`. The ghost `since[k]` is the set of keys used after `k`,
`last[k]` the last entry added. Time advances in `Tick`.

**MutexCache.** Instantiates `LRU` without an entry limit, as `Add` creates it.
The mutex makes operations atomic, but each turn of the loop in `removeOldest`
is an action (`adding`), so that its termination is a property. The cache is the
main or the hot one of a group: `part` is 7 or 1 eighths of the `budget`, and
`ResetCacheSize` replaces the cache by an empty one with a new limit. With a
budget of zero or less the group does not touch its caches (`Disabled`); a
budget of 1 to 7 bytes gives both the limit 0, which means none.

**Views.** One key of one node, and what travels with it. A `[]byte` is a buffer
of `heap`, a string is a value; a view refers to one or the other. A sink is a
record of its kind, its destination and its view, and `SetString`, `SetBytes`,
`SetProto` and `SetSinkView` map a heap and a sink to a heap, a sink and
success. `pc` follows a `Get` through lookup, flight, `Getter` or peer, and
delivery. `Scribble` lets whoever holds a slice outside groupcache write into
it: callers into what they got or passed to `Set`, the `Getter` into what it
passed to `SetBytes`. Buffers without a reference are free again (`Collect`).
The ghosts `d` and `e` of an item are the data and the expiry it was made from;
`shared` marks the view of a slice given to `Set`, which the cache keeps without
a copy. Reader and `WriteTo` only hand the bytes to the standard library.

**Picker.** `Init` chooses an arbitrary hash function, collisions included.
Hashes are converted to signed integers of the same width. `Sort` is the set of
results of an unstable sort. Two instances add peers independently, and a peer
that is in the map may be added again, as a repeated address in a list given to
`SetPeers` would be: `Add` then overwrites the entry of the map and appends the
replicas once more. So `TypeOK` does not count entries; it says that those of a
ring are the replicas of the peers in the map, all of them and no others.

**GroupCache.** The composition. `task` holds the goroutines: callers (`Procs`)
and request handlers (`Handlers`); `pc` names the next access to shared state.
Cached data is the version of the data source it was read from, 0 if absent.
What it takes from the other modules:

- From Flights: a duplicate's result is fixed when its flight's WaitGroup is
  released. `LeaderDone` is `wg.Done`, `LeaderReturn` the deletion of the entry;
  in between `DoJoinLate` joins a flight that is over.
- From MutexCache: `Evict` drops any entry at any time (limit or expiry), on the
  nodes in `Evicting`.
- From Picker: the owner among any set of peers is the nearest one to the key in
  an order that all nodes share, `Rank` (`PicksNearest`, `OwnersAgree`). Peer
  lists are sets here. When an address is repeated in a list, `Remove`, which
  compares clients and not addresses, may send the owner its key a second time.

The two cache operations of `Set`, `RemoteSet` and `LocalRemove` are one action.
Lookups read main and hot in two steps and populating is a step of its own.
`Set` adds to main before it clears hot, and `LocalRemove` clears hot before
main, so a lookup between the two reads what it would read before or after
both. A handler of RemoveKeys removes all its keys in one action: the properties
speak of one key at a time.

Failures: a request is lost or its answer is (`PeerUnreachable`, `ReplyLost`,
as a transport error or as the end of the caller's context); a write fails at
the sender and may still be executed later (`Fail`, `DeliverLate`); the `Getter`
fails or panics. A handler that panics closes the connection.

Ghosts: `floor` is the version the last acknowledged write of a key was made for.
`raced` holds the keys of which a load or another write was under way when a
write took effect at the owner; properties that need a quiet key are conditioned on it.

A `Get` without a destination is refused before it looks anywhere
(`GetNilDest`); `Proceed` is every other step.

`Home` says on which nodes a caller may make its operations; instances use it to
place callers where the cases of interest are.

**GroupStats.** Adds the counters of every node to GroupCache. An operator per
counter says at which step of a goroutine it is bumped (`Gets`, `CacheHits`,
`Loads`, `LoadsDeduped`, `PeerLoads`, `PeerErrors`, `LocalLoads`,
`LocalLoadErrs`); a step of `StatsNext` is a step of GroupCache that bumps them.
`GetNilDest` bumps `Gets` and nothing else of the code's (`CountNilDest`). Two
ghosts are counted along, the hits of the second lookup (`SecondHits`) and the Gets
that were refused (`Refused`).
An ended context counts as an error of the peer only when it is past its
deadline, which GroupCache does not tell apart from a cancelled one: either may
be counted.

**Cluster.** The calls of the `cluster` package are made by one goroutine, a step
per daemon; `call` says where it is. Requests from peers (`req`) are served at
the same time and remember the Instance they were started for. `server` is the
state of a daemon's transport, `daemons` the length of `_daemons` and `_peers`.
A listener may fail, a context may end while the new server is tried or while
handlers drain; a call that fails returns at once and leaves the rest as it is.
Peers are given without `IsSelf`, as `Start` does, and with fixed ports. Three
things the model makes explicit: `Restart` hands the list to `Instance.SetPeers`
with nobody marked as self and ignores the error, so a restarted daemon has no
peers; it also has no groups, since `Start` makes a new Instance; and `GetGroup`
returns a nil `*group` in a non-nil interface, so that a handler panics on an
unknown group where it means to answer 404.

## The runs

| Run | Instance | Shows |
|---|---|---|
| `SingleFlight` | 3 goroutines, 2 keys, 3 call objects | one flight per key; duplicates read the result of their own flight; entries outlive flights; `Flights` is implemented, `Lock` included; every `Do` returns |
| `MutexCache` | 3 keys (0, 1, 3 bytes), 2 values (0, 5), budgets -1, 3 and 8, a resize | list and map agree; order of recency; callback complete; exact byte count; budget kept; eviction count; `Add` returns |
| `Views` | 2 callers, 5 sinks, 2 values, 10 buffers | cached and delivered views never change; every caller gets value and expiry; bytes and strings cannot be told apart |
| `Picker` | 3 peers, all 3-bit hash functions, 2 instances, 4 calls of `Add` each | nearest peer modulo 2^3; agreement; joining peers only take keys |
| `Load` | 2 nodes, 3 callers, 1 failure | one run of the `Getter`, at the owner; every call returns; hits, loads and requests add up |
| `Topology` | 3 nodes, any peer lists, 2 callers | forwarding strictly approaches the key; every call returns |
| `Writes` | 3 nodes, a reader and a writer, 1 failure, the owner evicts | no stale copy after an acknowledged write |
| `Cluster` | 2 daemons, 4 calls, 2 requests, 2 failures | handlers never outlive their Instance; nothing is left listening; pickers are whole or empty; every call returns |
| `RemoveRace` | 2 nodes | violated: `LocalRemove` does not stop loads in flight |
| `SetPanic` | 2 nodes | violated: `Set` panics when `SetPeers` comes between its two reads of the picker |
| `SetDropped` | 2 nodes | violated: overlapping `Set`s of one key, one value is dropped and acknowledged |
| `RemoveKeysSkips` | 2 nodes, 2 keys | violated: owners keep copies of the keys they do not own |

The four violated properties state what the README or a comment says; the
findings in `PROJECT.json` quote it. A fifth finding is about a run that passes:
`stats.go` says of `Loads` "(gets - cacheHits)", which is off by the hits of the
second lookup, counted as hits after their Get was counted as a load, and by the
Gets without a destination, counted as neither. `HitsAndLoads` states the equation
that does hold, with both differences in it.

**Bounds.** Three goroutines are a leader, a duplicate and a latecomer of one
flight. Three nodes are a caller, an owner and a third peer; with three nodes a
cycle of forwards longer than two is possible. Two versions suffice for a stale
copy to differ. A reader makes two calls, to fill a cache before the write and
to read during it. In `Load` one caller is on node a, which does not own the
key, one on b, which does, and one on either; three on one node are the three
goroutines of `SingleFlight`. There is one failure, hence at most one handler whose
client has gone and one whose client waits, and two handlers suffice. `Writes` has
one handler: a read waits for one whose client has gone. There b owns the key and
the lists stay as they are, so the two other nodes are interchangeable and the run
takes them as a symmetry set. In `Topology` one caller is on c, the node furthest
from the key, from which requests can be forwarded twice, and four handlers exceed
what two callers can keep busy. One failure per
behaviour keeps the instances within reach; combinations of two are not covered,
and none happens in `Topology`. In `MutexCache` a budget of 8 gives the main
cache 7 bytes, which one entry exceeds alone, and the hot cache 1, which an
entry with an empty value fits; a budget of 3 leaves both unbounded and -1
closes them. Entries expire at 1 or never, the clock goes to 2. In `Picker` four calls of `Add`
(`MaxAdds`) are all three peers and one of them again. In `Views` one value
is shorter and one longer than the truncating sink's slice, only the longer one is
an encoded message and comes from peers too (`PeerData`), and ten buffers are
enough for `CanAllocate` to hold in every state. In
`Cluster` four calls and two failures allow a failed call, one that fails again
and a `Shutdown` and `StartWith` after it. Deadlock is checked for
`SingleFlight`, `MutexCache` and `Views`; the others stop when the bounded calls
are used up.

**Fairness.** `Do`, `Add` and the goroutines of `GroupCache` (in `Load` too, where
counting never keeps one from running) are weakly fair: a goroutine that can run
does, a `Getter` ends. `DoDelete` is strongly fair since it needs `g.mu`, which others take and release, and `sync.Mutex` does not starve
a waiter. In `Cluster` the goroutine of a call and the handlers are weakly fair.
Nothing is assumed of callers, failures, late requests or `SetPeers`.

## What is proved

`SingleFlightProofs` proves, for any number of goroutines, keys, results and call
objects, that `TypeOK`, `AtMostOneFlight`, `ResultPublished` and
`EntryOutlivesFlight` hold of `Spec`. None of the last three is inductive: that
two goroutines do not run `fn` for one key follows from each leader's call being
the one its key is mapped to (`LeaderRegistered`) and from no call having two
leaders (`LeaderUnique`), which in turn needs every entry to have a leader
(`EntryHasLeader`), so that an object with no references is really free.
`LeaderStage` ties the WaitGroup and the result to the leader's progress, and
`WaiterServed` says a duplicate's call is led or published. Assumptions: `Nil`
and the panic error differ from the other values.

The same module proves that `SingleFlight` implements `Flights`
(`FlightsImplemented`), with a lemma per action. The step that matters is
`WgDone`: it releases one call object, and `Flights` wants the flight over for
all duplicates of the key and no others. A duplicate that still waits has a leader
on its own key (`WaiterServed`), whose call is the entry of that key
(`LeaderRegistered`); so it waits for the object released exactly if it waits for
that key. `Resting` adds that a goroutine outside `Do` refers to no key.

`GroupCacheProofs` proves, for any nodes, keys, callers and handlers, any peer
lists and any failures, that `TypeOK` and `ForwardingDescends` hold of `Spec`:
a load is only ever forwarded to a node strictly nearer to its key, so no chain
of flights waits for itself, not even while the nodes disagree about the peers.
The inductive invariant `IndInv` adds three facts. `SelfListed`: a picker that
is not empty contains its own node, which is what `SetPeers` insists on; hence
the owner a node forwards to is nearer than itself. `Descends`: the parent of a
request is at `rpc`, with the same key, on a node further away. `OnlyChild`: a
goroutine waits for one request, so an answer wakes nobody else's parent. `Form`
says what a goroutine at each `pc` works on; without it neither the type of
`flight` nor that of the requests is inductive. There is one lemma per action.
TLC found `IndInv` invariant on the instances of `Load`, `Topology`,
`RemoveRace`, `RemoveKeysSkips` and `SetPanic` before it was proved. Assumptions:
distances are natural numbers that differ between nodes (`RankAssumption`), a
nonempty set of nodes has a nearest one (`NearestAssumption`, which the well-order
of the naturals gives, and which TLC evaluates), and `Nil` is none of the values.

The same module proves `OneGetterAtOwner` from the same assumptions: however many
callers and peers ask for a key at once, and with writes, removals and evictions
under way, the `Getter` runs for it on its owner only and in one goroutine at a
time, as long as no request failed, no `Getter` panicked and every node has the
list of all. `GetterInv` is inductive together with `IndInv`. `LeaderRegistered`
and `LeaderAlone` are about `loadGroup`: a goroutine between the second lookup and
the end of its flight has the map entry of its node and key, and no other has.
That gives one goroutine per node; that the node is the owner (`AtOwner`) needs
every way to the `Getter` to be closed elsewhere. The one way besides `LoadHere`
is the fallback after a request that failed in transit, so `Calm` says that while
nothing has failed no load and no flight holds such a result. `Asking` says only
loads are forwarded, so that a handler's answer wakes a load. A lemma on frames
(`Follows`) reduces the steps that leave the flights alone to the one goroutine
that moves. TLC found `GetterInv` invariant on the instances of `Load` and
`RemoveRace` before it was proved.

Another part of the module describes every step by what it does to the Gets
(`Shape`): it moves one along its way, or lets one begin, end or forward its load,
and does next to nothing to the others (`Beside`). Only a refused Get, which changes
nothing but the calls that are left, is treated apart. The rest of the module and
`GroupStatsProofs` argue from it. It proves `GetterRunsOnce`, for any nodes, keys,
callers and handlers, if nobody writes, nothing is evicted and caching is on
(`ReadOnly`). `RunsInv` says that while nothing has failed the owner of a key has run
its `Getter` never, or once and the value is in its main cache or on its way there,
and that a flight of the owner that missed the cache at the second lookup means
never. The second lookup is what keeps it: a flight that begins after the value
arrived finds it, and one that began before is the flight that runs the `Getter`,
since there is one at a time.

`GroupWriteProofs` proves `NoStaleCopy` and `NoStaleOwnerCopy`, on top of `IndInv` and
`GetterInv`, with any number of readers, any evictions, lost, late and failed requests
and panics, on two conditions. One caller makes all the writes (`OneWriter`), any
number of them, one after the other: with two, a `Set` that joins the flight of
another is acknowledged without having written, as `SetDropped` shows. And every node
still has the list of all (`Steady`), since after a change of lists the owner that was
told may not be the owner that is asked. Also, there is a node. The argument follows
versions. `Afloat(k, x)` says that a reader may yet be given version x of k through
the owner: it is in a cache of the owner, in a load there or an answer on its way, in
an ended flight whose entry is still in the map, or in a late request. No step makes
up a version: what is afloat, or in a cache, was before, or is the source's, or is
what the writer is setting (`NextFlow`). So once nothing older than the write is
afloat nothing older will be, and once the other nodes have been told nothing older
reaches their caches either. What remains is the moment the owner is told: if no load
and no other write of the key overlaps it, all that is afloat is what the write puts
there (`Effect`), because every load of the key that could bring something has a
flight (`LeaderRegistered`, `Descends`). The invariant `WriteInv` says this of the
write under way, from the point where it has `Landed` on the owner or `Reached` a
node, and of the acknowledged ones; `Control` says how far the write can be, that it
is alone in its flight (so it never joins one), that its requests carry its own key
and version, and that the requests of a `RemoveKeys` reach the owners of its keys. TLC
found the invariant to hold on the instance of `Writes` and on one with two keys and
two calls of `RemoveKeys` before it was proved.

`GroupStatsProofs` is about what `Get` and `load` count. It argues from `Shape`, not
from the actions, except for `GetNilDest`.

- `HitsAndLoads` and `LoadsSettled`, with any writes, evictions and failures.
  `Ledger` says what a step may do to the books of the node it is on: which
  counters go up by one, and one Get from one place to the next. A refused Get is a
  step of its own (`RefusedBooked`), all others follow from `Shape`. The invariant `Balanced` states
  both properties with the Gets at every place added in, which makes each of its
  conjuncts inductive, and `Settled` adds that nothing is lost while no request
  failed and no `Getter` erred (`Spotless`).
- `RequestsCounted`, if callers only read: it is about the counters of all nodes
  together, so the proof adds up the ledgers. `Total` is the number of pairs of a
  node and one of the things it counted (`Tally`), so that it rises by one when one
  counter does, by the theorems on finite sets and without an induction.

Assumption beyond those above: there are finitely many nodes and goroutines
(`FiniteAssumption`).

`PickerProofs` proves `TypeOK`, `PicksNearest`, `OwnersAgree` and `JoinTakesOnly`
for hashes of any width, any hash function and any number of peers, replicas and
instances. The invariant says that a ring is sorted and holds the replicas of the
peers of its map and no other entries. `SameDistance` is the heart of it: the
clockwise distance between two hashes is the same computed from signed integers as
from unsigned ones, so the first entry not below the key, or the first of all, is
the nearest (`GetNearest`). Distances determine hashes (`DistanceInjective`), so
two nearest peers are one unless hashes collide (`NearestUnique`), which gives both
agreement and the property of joins. That the unstable sort loses no entry is that
an injection of a finite set into itself is onto. Assumptions: the width and the
number of replicas are not zero, and 2^b is twice 2^(b-1) (`PowerAssumption`, a law
the provers do not know).

The first part of `MutexCacheProofs` is about `lru.Cache` by itself. It proves, for
any keys, values and limit on entries, that after any sequence of operations the list
and the map hold the same keys, the list is in order of use, the limit holds, an entry
is the last one added for its key (`ListAndMap`), and that no operation drops or
replaces an entry without passing it to `OnEvicted` (`NothingUnannounced`). The
invariant is about the list as a sequence without duplicates that is ordered by the
ghost `since`; the lemmas `WithoutList` and `PushFrontList` say what the two list
operations do to both. The entry limit and `Clear` occur only here: the repository
makes no cache with a limit and never clears one. Assumption: the limit is a natural
number.

The second part proves every safety property of the `MutexCache` run, for any keys,
values, sizes, budgets and resizes: `TypeOK`, `BytesExact`, `WithinBudget`,
`EvictionsBalance`, `ListMapAgree`, `RecencyOrder`, `HoldsLastAdded` and
`EvictedAccounted`. The byte count is a sum over the entries, which `Add` and the
callback of the lru change at different places. The lemmas on sums show what the
library's recursive sum over a finite set computes, and that it changes by the value
of an element that is added or taken away: the library's induction theorems cannot be
instantiated, so the argument takes a smallest set for which the claim fails, which
the well-founded order of the finite subsets gives. The first part supplies what each
operation of the lru does and passes to `OnEvicted`. The invariant adds that the limit
in force is the share of the budget in force and that the count exceeds it only inside
`Add` (`LimitOK`). Assumptions: lengths are natural numbers, budgets integers.

`ViewsProofs` proves `TypeOK`, `Frozen`, `Delivered` and `RepresentationHidden` for
any callers, buffers, values, expiries and lengths. `Frozen` is not inductive: that a cached view keeps
its bytes follows from nobody outside being able to write into its buffer. The
invariant `Ownership` says so: the buffer of an item is not in `Writable`, the
buffers of two callers' destinations differ and are not the `Getter`'s, a
truncating sink is as long as it was given until it is filled, and a filled sink
holds its value. Its lemmas give the effect of every method on every kind of sink
(`Sets`), and a frame rule: a step that writes only fresh buffers and one
destination leaves the other views and destinations as they were.

`ClusterProofs` proves, for any number of daemons, groups and requests and any
failures, `TypeOK`, `HandlersDrained`, `NoneLeftBehind`, `PickersWhole` and
`StartTellsAll`. The invariant adds where a call may be (`CallForm`), that
handlers run on listed daemons for the Instance there is (`Handlers`), that
`StartWith` has told the daemons before the one it is at (`Starting`), and that
what `Restart` and `Shutdown` have drained takes no requests and has none left
(`Closing`). Assumption: at least one daemon is asked for, and `Idle` is no slot.

Only model-checked:

- everything under fairness (`DoReturns`, `AddReturns`, `CallsReturn`,
  `CallReturns`), since TLAPS does not reason about `ENABLED`.

## Not modelled

- The Otter cache (`contrib/otter.go`): a wrapper of a third-party cache whose
  admission and eviction are not in the repository. `Evict` of GroupCache covers
  what the group may see of it.
- The latency gauge and the `RemoveKeys` counters: a maximum and a count of
  arguments that nothing reads. The OpenTelemetry registration (`stats.go`,
  `instance.go`) and the tracer: observability.
- Paths, headers and TLS of the HTTP transport, the generated protobuf messages,
  `cmd/server` and the mock transport: I/O, generated code, an example and a test
  helper.
- A `CacheFactory` that fails: that of the repository never does. An application's
  may; `ResetCacheSize` then returns an error with the new budget already in force
  and, for a cache, whatever the factory returned with its error.
- Sinks made with a nil destination (`AllocatingByteSliceSink(nil)`,
  `TruncatingByteSliceSink(nil)`): every method that sets a value returns an error,
  as `ProtoSink` does on bytes it cannot decode, which is modelled.
- The requests served by a server that `StartWith` dropped when its `waitForConnect`
  failed: Cluster keeps its address taken (`orphans`), but the package tells no
  daemon of it, and its handlers belong to an Instance the package has let go.

## What is left

Convergence of writes from different nodes.
