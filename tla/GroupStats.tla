------------------------------ MODULE GroupStats -------------------------------
(***************************************************************************)
(* The statistics of Get and load, counted along the steps of GroupCache.  *)
(*                                                                         *)
(* Every counter of a node is an AtomicInt that goroutines bump on their   *)
(* way; nothing keeps two of them in step.  An operator below says at      *)
(* which step of goroutine t its node's counter is bumped, and names the   *)
(* counter.  The counters of RemoveKeys and the latency gauge are left out.*)
(***************************************************************************)
EXTENDS GroupCache

VARIABLE stats   \* stats[n]: g.Stats of node n

\* Two of them are ghosts that the code does not have: the hits that follow a
\* load, and the Gets without a destination.
Counters == {"Gets", "CacheHits", "PeerLoads", "PeerErrors", "Loads",
             "LoadsDeduped", "LocalLoads", "LocalLoadErrs",
             "SecondHits", "Refused"}

StatsInit == Init /\ stats = [n \in Nodes |-> [s \in Counters |-> 0]]

NodeOf(t) == IF task[t].op = "none" THEN task'[t].node ELSE task[t].node

\* t goes from one of the places in "from" to one of those in "to".
Goes(t, from, to) ==
  /\ task[t].op = "get" /\ task[t].pc \in from /\ task'[t].pc \in to

\* Mutant of Gets: the requests of peers are not counted.
GetsOfCallers(t) == t \in Procs /\ task[t].op = "none" /\ task'[t].op = "get"

\* A Get begins, a caller's or a peer's, with a destination.
Gets(t) == task[t].op = "none" /\ task'[t].op = "get"

\* The lookup of Get, or the second one, inside the flight, hits.
CacheHits(t) ==
  \/ Goes(t, {"lookup", "lookupHot"}, {"idle"})
  \/ Goes(t, {"recheck", "recheckHot"}, {"done"})

\* The second lookup hits.
SecondHits(t) == Goes(t, {"recheck", "recheckHot"}, {"done"})

\* load, before the flight.
Loads(t) == Goes(t, {"lookupHot"}, {"do"})

\* Mutant of LoadsDeduped: counted before the second lookup.
LoadsDedupedFirst(t) == Goes(t, {"do"}, {"recheck"})

\* The second lookup missed.
LoadsDeduped(t) == Goes(t, {"recheckHot"}, {"load"})

PeerLoads(t) == Goes(t, {"reply"}, {"done"}) /\ task[t].res.st = "ok"

\* Neither a missing key, nor an error the peer answered with, nor a
\* cancelled context; a context past its deadline does count.
PeerErrors(t, deadline) ==
  /\ Goes(t, {"reply"}, {"done", "local"})
  /\ task[t].res.st = "net" \/ (task[t].res.st = "ctx" /\ deadline)

LocalLoads(t) == Goes(t, {"local"}, {"fill"})

\* Mutant of LocalLoadErrs: a bad load does not end there.
LocalLoadErrsToo(t) == Goes(t, {"local"}, {"fill", "done"})

\* A Getter that panics is not counted at all.
LocalLoadErrs(t) == Goes(t, {"local"}, {"done"}) /\ task'[t].res.st # "panic"

\* The counters the step bumps, with their nodes.
Bumps(deadline) ==
  UNION {{NodeOf(t)} \X
           {s \in Counters :
              CASE s = "Gets" -> Gets(t)
                [] s = "CacheHits" -> CacheHits(t)
                [] s = "Loads" -> Loads(t)
                [] s = "LoadsDeduped" -> LoadsDeduped(t)
                [] s = "PeerLoads" -> PeerLoads(t)
                [] s = "PeerErrors" -> PeerErrors(t, deadline)
                [] s = "LocalLoads" -> LocalLoads(t)
                [] s = "LocalLoadErrs" -> LocalLoadErrs(t)
                [] s = "SecondHits" -> SecondHits(t)
                [] OTHER -> FALSE} :
           t \in {u \in Tasks : task'[u] # task[u]}}

\* No step bumps a counter twice.
Count ==
  \E B \in {Bumps(TRUE), Bumps(FALSE)} :
    stats' = [n \in Nodes |-> [s \in Counters |->
                stats[n][s] + IF <<n, s>> \in B THEN 1 ELSE 0]]

\* Get counts before it tests its destination.
CountNilDest(n) == stats' = [stats EXCEPT ![n]["Gets"] = @ + 1, ![n]["Refused"] = @ + 1]

StatsNext ==
  \/ Proceed /\ Count
  \/ \E p \in Procs, n \in Nodes : GetNilDest(p, n) /\ CountNilDest(n)

\* The fairness of GroupCache: counting never keeps a goroutine from running.
StatsSpec ==
  StatsInit /\ [][StatsNext]_<<vars, stats>> /\ \A t \in Tasks : WF_vars(Step(t))

-------------------------------------------------------------------------------
(* Properties *)

\* The Gets under way on node n at one of these places.
On(n, pcs) == Cardinality({t \in Tasks : /\ task[t].op = "get" /\ task[t].node = n
                                         /\ task[t].pc \in pcs})

\* The sum of what f[x] counts, over all x: every thing counted is one pair.
Tally(f) == Cardinality(UNION {{x} \X (1 .. f[x]) : x \in DOMAIN f})

Total(s) == Tally([n \in Nodes |-> stats[n][s]])

\* "Loads // (gets - cacheHits)" (GroupStats) is off by the hits of the second
\* lookup, which are counted after their load, and by the Gets without a
\* destination, which are neither: on every node and at every moment a Get that
\* is past its lookup is refused, a hit of that lookup or a load.  Of a load at
\* most one thing follows, a second hit or a load after singleflight, so no Get
\* is both a hit and a load after singleflight.
HitsAndLoads ==
  \A n \in Nodes :
    LET s == stats[n] IN
    /\ s.Gets + s.SecondHits
         = s.Refused + s.CacheHits + s.Loads + On(n, {"lookup", "lookupHot"})
    /\ s.LoadsDeduped + s.SecondHits <= s.Loads
    /\ s.CacheHits + s.LoadsDeduped <= s.Gets /\ s.Loads <= s.Gets

\* A load after singleflight ends as one peer load, one good local load or one
\* bad one, and never as two of them, though an error of a peer leads to a
\* local load; while nothing goes wrong none is lost.
LoadsSettled ==
  \A n \in Nodes :
    LET s == stats[n]
        ended == s.PeerLoads + s.LocalLoads + s.LocalLoadErrs
        running == On(n, {"load", "rpc", "reply", "local"})
    IN  /\ ended + running <= s.LoadsDeduped
        /\ s.PeerLoads + s.PeerErrors <= s.LoadsDeduped
        /\ faults = 0 /\ Total("LocalLoadErrs") = 0 => ended + running = s.LoadsDeduped

\* The counters of the nodes add up: while no request fails, the Gets of the
\* cluster are those of the callers and one for every load that was not local.
RequestsCounted ==
  faults = 0 =>
    Total("Gets") + Total("LocalLoads") + Total("LocalLoadErrs")
        + Cardinality({t \in Tasks : task[t].op = "get" /\ task[t].pc \in {"load", "local"}})
      = Tally([p \in Procs |-> MaxOps[p] - left[p]]) + Total("LoadsDeduped")
===============================================================================
