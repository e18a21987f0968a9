-------------------------------- MODULE Cluster --------------------------------
(***************************************************************************)
(* The life of a cluster of daemons: StartWith, Restart and Shutdown of    *)
(* cluster.go, the Daemon and the listener of the HTTP transport they      *)
(* drive, and the registry of groups that request handlers look up.        *)
(*                                                                         *)
(* The cluster package and the calls of the application are used by one    *)
(* goroutine; requests from peers are served at the same time.  Peers are  *)
(* given without IsSelf, as Start does, at addresses with a fixed port.    *)
(***************************************************************************)
EXTENDS Naturals, FiniteSets

CONSTANTS
  N,          \* length of the peer list given to StartWith
  Names,      \* names of groups
  Requests,   \* bound: requests being served at once
  Idle,       \* no request
  MaxCalls,   \* bound: calls of the cluster package
  MaxGroups,  \* bound: calls of NewGroup
  MaxFaults   \* bound: failures

ASSUME ClusterAssumption == N \in Nat \ {0} /\ Idle \notin 1 .. N

Slots == 1 .. N

VARIABLES
  daemons,   \* len(_daemons) and len(_peers): the first ones of the list
  server,    \* the transport of each: "new", "serving", "closed", or "lost":
             \* closed, and the listener replaced by nil
  orphans,   \* addresses bound by servers that StartWith dropped
  inst,      \* how often the daemon's Instance was created
  picker,    \* the peers in the Instance's picker
  groups,    \* the names in the Instance's map of groups
  call,      \* the call of the cluster package in progress, and where it is
  req,       \* requests: the daemon that serves it, its Instance, the progress
  calls, news, faults

vars == <<daemons, server, orphans, inst, picker, groups, call, req,
          calls, news, faults>>

NoCall == [op |-> "none", at |-> 0, step |-> "none"]
NoRequest == [at |-> Idle, inst |-> 0, pc |-> "none"]

Init ==
  /\ daemons = 0
  /\ server = [i \in Slots |-> "new"]
  /\ orphans = {}
  /\ inst = [i \in Slots |-> 0]
  /\ picker = [i \in Slots |-> {}]
  /\ groups = [i \in Slots |-> {}]
  /\ call = NoCall
  /\ req = [r \in Requests |-> NoRequest]
  /\ calls = 0 /\ news = 0 /\ faults = 0

-------------------------------------------------------------------------------
(* Daemon *)

At(op, step) == call.op = op /\ call.step = step

Goto(at, step) == call' = [call EXCEPT !.at = at, !.step = step]

Return == call' = NoCall

Fault == faults < MaxFaults /\ faults' = faults + 1

\* groupcache.New: an Instance without peers and groups is registered with the
\* transport, before the transport listens.
New(i) ==
  /\ inst' = [inst EXCEPT ![i] = @ + 1]
  /\ picker' = [picker EXCEPT ![i] = {}]
  /\ groups' = [groups EXCEPT ![i] = {}]

\* Instance.SetPeers, on pickers p: a list that marks nobody as self is an error
\* and changes nothing.
SetPeers(p, i, peers, self) ==
  IF self = {} THEN p ELSE [p EXCEPT ![i] = peers]

\* The handlers of the daemon's server.
Serving(i) == {r \in Requests : req[r].at = i}

-------------------------------------------------------------------------------
(* cluster.StartWith *)

StartWith ==
  /\ call = NoCall /\ calls < MaxCalls
  /\ daemons = 0  \* otherwise an error and no effect
  /\ call' = [op |-> "start", at |-> 1, step |-> "listen"]
  /\ calls' = calls + 1
  /\ server' = [i \in Slots |-> "new"]
  /\ UNCHANGED <<daemons, orphans, inst, picker, groups, req, news, faults>>

\* Mutant of StartDaemon: the peers are told about as they start.
StartDaemonTells ==
  LET i == call.at IN
  /\ At("start", "listen")
  /\ i \notin orphans
  /\ inst' = [inst EXCEPT ![i] = @ + 1]
  /\ picker' = [picker EXCEPT ![i] = 1 .. i]
  /\ groups' = [groups EXCEPT ![i] = {}]
  /\ server' = [server EXCEPT ![i] = "serving"]
  /\ daemons' = i
  /\ IF i < N THEN Goto(i + 1, "listen") ELSE Return
  /\ UNCHANGED <<orphans, req, calls, news, faults>>

\* ListenAndServe of the next daemon.
StartDaemon ==
  LET i == call.at IN
  /\ At("start", "listen")
  /\ i \notin orphans
  /\ New(i)
  /\ server' = [server EXCEPT ![i] = "serving"]
  /\ daemons' = i
  /\ IF i < N THEN Goto(i + 1, "listen") ELSE Goto(1, "peers")
  /\ UNCHANGED <<orphans, req, calls, news, faults>>

\* Mutant of StartListenFails: the list is dropped, as after Shutdown.
StartListenFailsForgets ==
  /\ At("start", "listen")
  /\ IF call.at \in orphans THEN UNCHANGED faults ELSE Fault
  /\ New(call.at)
  /\ daemons' = 0
  /\ Return
  /\ UNCHANGED <<server, orphans, req, calls, news>>

\* net.Listen fails, always if the address is taken.  The daemons that were
\* started stay in the list.
StartListenFails ==
  /\ At("start", "listen")
  /\ IF call.at \in orphans THEN UNCHANGED faults ELSE Fault
  /\ New(call.at)
  /\ Return
  /\ UNCHANGED <<daemons, server, orphans, req, calls, news>>

\* The context ends in waitForConnect: the server runs, the daemon is dropped.
StartConnectFails ==
  /\ At("start", "listen")
  /\ call.at \notin orphans
  /\ Fault
  /\ New(call.at)
  /\ orphans' = orphans \cup {call.at}
  /\ Return
  /\ UNCHANGED <<daemons, server, req, calls, news>>

\* Mutant of TellPeers: the loop runs past the end of the list.
TellPeersPastEnd ==
  LET i == call.at IN
  /\ At("start", "peers")
  /\ picker' = SetPeers(picker, i, 1 .. daemons, {i})
  /\ IF i <= daemons THEN Goto(i + 1, "peers") ELSE Return
  /\ UNCHANGED <<daemons, server, orphans, inst, groups, req, calls, news, faults>>

\* Mutant of TellPeers: the last daemon is not told.
TellPeersButLast ==
  LET i == call.at IN
  /\ At("start", "peers")
  /\ picker' = SetPeers(picker, i, 1 .. daemons, {i})
  /\ IF i + 1 < daemons THEN Goto(i + 1, "peers") ELSE Return
  /\ UNCHANGED <<daemons, server, orphans, inst, groups, req, calls, news, faults>>

\* Daemon.SetPeers marks the daemon's own address as self.
TellPeers ==
  LET i == call.at IN
  /\ At("start", "peers")
  /\ picker' = SetPeers(picker, i, 1 .. daemons, {i})
  /\ IF i < daemons THEN Goto(i + 1, "peers") ELSE Return
  /\ UNCHANGED <<daemons, server, orphans, inst, groups, req, calls, news, faults>>

-------------------------------------------------------------------------------
(* cluster.Restart and cluster.Shutdown; without daemons they have no effect *)

Begin(op) ==
  /\ call = NoCall /\ calls < MaxCalls
  /\ daemons > 0
  /\ call' = [op |-> op, at |-> 1, step |-> "close"]
  /\ calls' = calls + 1
  /\ UNCHANGED <<daemons, server, orphans, inst, picker, groups, req, news, faults>>

\* HttpTransport.Shutdown closes the listener; a server that was shut down
\* before takes it again.
CloseListener ==
  LET i == call.at IN
  /\ call.step = "close"
  /\ server' = [server EXCEPT ![i] = IF @ = "serving" THEN "closed" ELSE @]
  /\ Goto(i, "drain")
  /\ UNCHANGED <<daemons, orphans, inst, picker, groups, req, calls, news, faults>>

\* Mutant of RestartDrained: Close in place of Shutdown.
RestartDrainedAtOnce ==
  /\ At("restart", "drain")
  /\ Goto(call.at, "listen")
  /\ UNCHANGED <<daemons, server, orphans, inst, picker, groups, req, calls,
                 news, faults>>

\* It returns when the handlers have.
RestartDrained ==
  /\ At("restart", "drain")
  /\ Serving(call.at) = {}
  /\ Goto(call.at, "listen")
  /\ UNCHANGED <<daemons, server, orphans, inst, picker, groups, req, calls,
                 news, faults>>

\* Mutant of ShutdownDrained: a server without a listener is waited for.
ShutdownDrainedListener ==
  LET i == call.at IN
  /\ At("shutdown", "drain")
  /\ Serving(i) = {}
  /\ server[i] # "lost"
  /\ IF i < daemons THEN Goto(i + 1, "close") /\ UNCHANGED daemons
                    ELSE Return /\ daemons' = 0
  /\ UNCHANGED <<server, orphans, inst, picker, groups, req, calls, news, faults>>

\* Only when all daemons are shut down is the list dropped.
ShutdownDrained ==
  LET i == call.at IN
  /\ At("shutdown", "drain")
  /\ Serving(i) = {}
  /\ IF i < daemons THEN Goto(i + 1, "close") /\ UNCHANGED daemons
                    ELSE Return /\ daemons' = 0
  /\ UNCHANGED <<server, orphans, inst, picker, groups, req, calls, news, faults>>

\* The context ends while handlers run: the call fails midway.
DrainFails ==
  /\ call.step = "drain"
  /\ Serving(call.at) # {}
  /\ Fault
  /\ Return
  /\ UNCHANGED <<daemons, server, orphans, inst, picker, groups, req, calls, news>>

\* Daemon.Start, then Instance.SetPeers with the list as it is: no peer is
\* marked as self, and the error is ignored.
RestartDaemon ==
  LET i == call.at IN
  /\ At("restart", "listen")
  /\ inst' = [inst EXCEPT ![i] = @ + 1]
  /\ groups' = [groups EXCEPT ![i] = {}]
  /\ picker' = SetPeers([picker EXCEPT ![i] = {}], i, 1 .. daemons, {})
  /\ server' = [server EXCEPT ![i] = "serving"]
  /\ IF i < daemons THEN Goto(i + 1, "close") ELSE Return
  /\ UNCHANGED <<daemons, orphans, req, calls, news, faults>>

\* Daemon.Start fails after the Instance was replaced: in net.Listen, which
\* leaves a nil listener, or in waitForConnect, with the server running.
RestartFails ==
  LET i == call.at IN
  /\ At("restart", "listen")
  /\ Fault
  /\ New(i)
  /\ \E s \in {"lost", "serving"} : server' = [server EXCEPT ![i] = s]
  /\ Return
  /\ UNCHANGED <<daemons, orphans, req, calls, news>>

-------------------------------------------------------------------------------
(* Groups *)

\* The name is taken before the metrics are registered: an error from there
\* leaves the group in the map.  A duplicate name, or a cache that cannot be
\* made, is an error without effect.
NewGroup(i, g) ==
  /\ call = NoCall /\ i <= daemons /\ news < MaxGroups
  /\ g \notin groups[i]
  /\ groups' = [groups EXCEPT ![i] = @ \cup {g}]
  /\ news' = news + 1
  /\ UNCHANGED <<daemons, server, orphans, inst, picker, call, req, calls, faults>>

RemoveGroup(i, g) ==
  /\ call = NoCall /\ i <= daemons
  /\ g \in groups[i]
  /\ groups' = [groups EXCEPT ![i] = @ \ {g}]
  /\ UNCHANGED <<daemons, server, orphans, inst, picker, call, req, calls,
                 news, faults>>

-------------------------------------------------------------------------------
(* HttpTransport.ServeHTTP, as far as the registry *)

Arrive(r, i) ==
  /\ req[r] = NoRequest
  /\ server[i] = "serving"
  /\ req' = [req EXCEPT ![r] = [at |-> i, inst |-> inst[i], pc |-> "lookup"]]
  /\ UNCHANGED <<daemons, server, orphans, inst, picker, groups, call, calls,
                 news, faults>>

\* GetGroup returns a nil *group for an unknown name, in an interface that is
\* not nil: the handler does not answer 404, its first use of the group panics.
GetGroup(r, g) ==
  /\ req[r].pc = "lookup"
  /\ req' = [req EXCEPT ![r].pc = IF g \in groups[req[r].at] THEN "group"
                                                             ELSE "panic"]
  /\ UNCHANGED <<daemons, server, orphans, inst, picker, groups, call, calls,
                 news, faults>>

\* The handler answers, or net/http recovers its panic.
HandlerEnd(r) ==
  /\ req[r].pc \in {"group", "panic"}
  /\ req' = [req EXCEPT ![r] = NoRequest]
  /\ UNCHANGED <<daemons, server, orphans, inst, picker, groups, call, calls,
                 news, faults>>

-------------------------------------------------------------------------------
CallStep ==
  \/ StartDaemon \/ StartListenFails \/ TellPeers
  \/ CloseListener \/ RestartDrained \/ ShutdownDrained \/ RestartDaemon

Handler(r) == (\E g \in Names : GetGroup(r, g)) \/ HandlerEnd(r)

Next ==
  \/ StartWith \/ Begin("restart") \/ Begin("shutdown")
  \/ CallStep
  \/ StartConnectFails \/ DrainFails \/ RestartFails
  \/ \E i \in Slots, g \in Names : NewGroup(i, g) \/ RemoveGroup(i, g)
  \/ \E r \in Requests, i \in Slots : Arrive(r, i)
  \/ \E r \in Requests : Handler(r)

Spec == Init /\ [][Next]_vars

\* The goroutine of the call runs, and handlers end.
FairSpec ==
  /\ Spec
  /\ WF_vars(CallStep)
  /\ \A r \in Requests : WF_vars(Handler(r))

-------------------------------------------------------------------------------
(* Properties *)

\* The call in progress points at a daemon of the list, and the registry, the
\* pickers and the requests hold what they are declared to.
TypeOK ==
  /\ daemons \in 0 .. N
  /\ server \in [Slots -> {"new", "serving", "closed", "lost"}]
  /\ orphans \subseteq Slots
  /\ inst \in [Slots -> Nat]
  /\ picker \in [Slots -> SUBSET Slots]
  /\ groups \in [Slots -> SUBSET Names]
  /\ call \in [op : {"none", "start", "restart", "shutdown"}, at : 0 .. N,
               step : {"none", "listen", "peers", "close", "drain"}]
  /\ req \in [Requests -> [at : Slots \cup {Idle}, inst : Nat,
                           pc : {"none", "lookup", "group", "panic"}]]
  /\ calls \in Nat /\ news \in Nat /\ faults \in Nat

\* A handler never outlives the Instance it was started for: Restart replaces
\* it, without synchronisation, only after HttpTransport.Shutdown returned nil,
\* also when an earlier call failed while handlers were running.
HandlersDrained ==
  \A r \in Requests : req[r] # NoRequest => req[r].inst = inst[req[r].at]

\* "Shutdown all daemons in the cluster" (cluster.go:150): when no daemon is
\* listed none listens, so the addresses are free for the next StartWith; only
\* a server whose waitForConnect failed is left behind.
NoneLeftBehind == \A i \in Slots : server[i] = "serving" => i <= daemons

\* A daemon knows all the daemons that StartWith listed or none at all, so
\* two daemons never disagree about who is in the cluster except by being alone.
PickersWhole == \A i \in 1 .. daemons : picker[i] \in {{}, 1 .. daemons}

\* StartWith that returns nil leaves every daemon serving and aware of all.
StartTellsAll ==
  [][At("start", "peers") /\ call' = NoCall
       => \A i \in Slots : picker'[i] = Slots /\ server'[i] = "serving"]_vars

\* Every call returns, whatever failed in the calls before: in particular
\* Shutdown after a Restart that lost a listener.
CallReturns == (call # NoCall) ~> (call = NoCall)

===============================================================================
