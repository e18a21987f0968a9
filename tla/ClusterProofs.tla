----------------------------- MODULE ClusterProofs -----------------------------
(***************************************************************************)
(* For any number of daemons, groups and requests, and any failures:       *)
(* handlers never outlive their Instance, nothing is left listening, and   *)
(* the daemons agree about the cluster.                                    *)
(***************************************************************************)
EXTENDS Cluster, TLAPS

-------------------------------------------------------------------------------
(* The inductive invariant *)

Call == [op : {"none", "start", "restart", "shutdown"}, at : 0 .. N,
         step : {"none", "listen", "peers", "close", "drain"}]

Req == [at : Slots \cup {Idle}, inst : Nat, pc : {"none", "lookup", "group", "panic"}]

\* Where the call of the cluster package can be.
CallForm ==
  \/ call = NoCall
  \/ At("start", "listen") /\ call.at = daemons + 1
  \/ At("start", "peers") /\ call.at \in Slots /\ daemons = N
  \/ /\ call.op = "restart" /\ call.step \in {"close", "drain", "listen"}
     /\ call.at \in 1 .. daemons
  \/ call.op = "shutdown" /\ call.step \in {"close", "drain"} /\ call.at \in 1 .. daemons

\* Handlers run on listed daemons only, each for the Instance there is.
Handlers ==
  \A r \in Requests : req[r] # NoRequest =>
    req[r].at \in 1 .. daemons /\ req[r].inst = inst[req[r].at] /\ req[r].pc # "none"

\* While StartWith runs all it has listed serves, without peers until told.
Starting ==
  call.op = "start" => \A i \in 1 .. daemons :
    /\ server[i] = "serving"
    /\ call.step = "listen" => picker[i] = {}
    /\ call.step = "peers" /\ i < call.at => picker[i] = Slots

\* Slot i takes no requests, and has none left.
Down(i) == server[i] # "serving" /\ \A r \in Requests : req[r].at # i

\* What Restart and Shutdown have closed stays closed.
Closing ==
  /\ call.step = "drain" => server[call.at] # "serving"
  /\ At("restart", "listen") => Down(call.at)
  /\ call.op = "shutdown" => \A i \in 1 .. daemons : i < call.at => Down(i)

\* The inductive invariant.
IndInv ==
  /\ TypeOK /\ CallForm /\ Handlers /\ Starting /\ Closing
  /\ NoneLeftBehind /\ PickersWhole

\* HandlersDrained follows.
LEMMA IndInvImplies == IndInv => HandlersDrained
BY DEF IndInv, Handlers, HandlersDrained

\* It holds before the first call.
LEMMA InitInv == Init => IndInv
<1> SUFFICES ASSUME Init PROVE IndInv
  OBVIOUS
<1> USE ClusterAssumption
<1>1. TypeOK
  BY DEF Init, TypeOK, NoCall, NoRequest, Slots
<1>2. CallForm /\ Handlers /\ NoneLeftBehind /\ PickersWhole
  BY DEF Init, CallForm, Handlers, NoneLeftBehind, PickersWhole
<1>3. Starting /\ Closing
  BY DEF Init, Starting, Closing, NoCall, At
<1> QED
  BY <1>1, <1>2, <1>3 DEF IndInv

\* Moving on keeps the call that is made.
LEMMA GotoCall ==
  ASSUME call \in Call, NEW i \in 0 .. N,
         NEW st \in {"none", "listen", "peers", "close", "drain"}, Goto(i, st)
  PROVE  call' \in Call /\ call'.op = call.op /\ call'.at = i /\ call'.step = st
BY Zenon DEF Goto, Call

\* A call that returns leaves none.
LEMMA ReturnCall ==
  ASSUME Return
  PROVE  call' = NoCall /\ call' \in Call /\ call'.op = "none" /\ call'.step = "none"
BY ClusterAssumption DEF Return, Call, NoCall

\* The call in progress is at a slot of the list.
LEMMA CallSlot ==
  ASSUME IndInv, call # NoCall
  PROVE  call \in Call /\ call.at \in Slots /\ N \in Nat /\ daemons \in 0 .. N
BY ClusterAssumption DEF IndInv, CallForm, TypeOK, Call, Slots

-------------------------------------------------------------------------------
(* One lemma per action *)

\* The call begins.
LEMMA StartWithInv == ASSUME IndInv, StartWith PROVE IndInv'
<1> USE ClusterAssumption
<1>1. TypeOK'
  BY DEF IndInv, StartWith, TypeOK, Slots
<1>2. CallForm' /\ Handlers' /\ NoneLeftBehind' /\ PickersWhole'
  BY DEF IndInv, StartWith, CallForm, Handlers, NoneLeftBehind, PickersWhole, At
<1>3. Starting' /\ Closing'
  BY DEF IndInv, StartWith, Starting, Closing, At, TypeOK, Down, NoCall
<1> QED
  BY <1>1, <1>2, <1>3 DEF IndInv

\* A daemon listens; its slot was not listed, so no handler refers to it.
LEMMA StartDaemonInv == ASSUME IndInv, StartDaemon PROVE IndInv'
<1> USE ClusterAssumption
<1>1. /\ call \in Call /\ call.at \in Slots /\ N \in Nat /\ daemons \in 0 .. N
      /\ call.at = daemons + 1 /\ daemons' = call.at /\ call.op = "start"
  BY CallSlot DEF StartDaemon, IndInv, CallForm, At, NoCall
<1>2. /\ call' \in Call /\ call'.op = "start"
      /\ \/ call.at < N /\ call'.at = call.at + 1 /\ call'.step = "listen"
         \/ call.at = N /\ call'.at = 1 /\ call'.step = "peers"
  <2>1. CASE call.at < N
    <3>1. Goto(call.at + 1, "listen") /\ call.at + 1 \in 0 .. N
      BY <1>1, <2>1 DEF StartDaemon, Slots
    <3> QED
      BY <1>1, <2>1, <3>1, GotoCall
  <2>2. CASE ~ (call.at < N)
    <3>1. Goto(1, "peers") /\ 1 \in 0 .. N /\ call.at = N
      BY <1>1, <2>2 DEF StartDaemon, Slots
    <3> QED
      BY <1>1, <3>1, GotoCall
  <2> QED
    BY <2>1, <2>2
<1>3. TypeOK'
  <2>1. daemons' \in 0 .. N /\ server' \in [Slots -> {"new", "serving", "closed", "lost"}]
    BY <1>1 DEF StartDaemon, IndInv, TypeOK, Slots
  <2>2. /\ inst' \in [Slots -> Nat] /\ picker' \in [Slots -> SUBSET Slots]
        /\ groups' \in [Slots -> SUBSET Names]
    BY <1>1 DEF StartDaemon, New, IndInv, TypeOK
  <2> QED
    BY <1>2, <2>1, <2>2 DEF StartDaemon, IndInv, TypeOK, Call
<1>4. CallForm'
  BY <1>1, <1>2 DEF CallForm, At, Slots
<1>5. Handlers'
  BY <1>1 DEF IndInv, StartDaemon, Handlers, NoRequest, TypeOK, Slots, New
<1>6. Starting'
  <2>1. \A i \in 1 .. daemons' : server'[i] = "serving" /\ picker'[i] = {}
    BY <1>1 DEF IndInv, StartDaemon, Starting, At, New, TypeOK, Slots
  <2> QED
    BY <1>1, <1>2, <2>1 DEF Starting
<1>7. Closing'
  BY <1>2 DEF Closing, At
<1>8. NoneLeftBehind' /\ PickersWhole'
  BY <1>1 DEF IndInv, StartDaemon, Starting, NoneLeftBehind, PickersWhole, At, TypeOK,
              Slots, New
<1> QED
  BY <1>3, <1>4, <1>5, <1>6, <1>7, <1>8 DEF IndInv

\* The Instance of an unlisted slot is replaced.
LEMMA StartListenFailsInv == ASSUME IndInv, StartListenFails PROVE IndInv'
<1> USE ClusterAssumption
<1>1. TypeOK'
  <2>1. call # NoCall /\ call' \in Call
    BY ReturnCall DEF StartListenFails, At, NoCall
  <2>2. call.at \in Slots
    BY <2>1, CallSlot
  <2>3. /\ inst' \in [Slots -> Nat] /\ picker' \in [Slots -> SUBSET Slots]
        /\ groups' \in [Slots -> SUBSET Names]
    BY <2>2 DEF StartListenFails, New, IndInv, TypeOK
  <2> QED
    BY <2>1, <2>3 DEF StartListenFails, Fault, IndInv, TypeOK, Call
<1>2. CallForm'
  BY DEF IndInv, StartListenFails, CallForm, At, NoCall, TypeOK, Slots, New, Return,
         Fault
<1>3. Handlers'
  BY DEF IndInv, StartListenFails, CallForm, Handlers, At, NoCall, NoRequest, Closing,
         Down, TypeOK, Slots, New, Return, Fault
<1>4. Starting'
  BY DEF IndInv, StartListenFails, CallForm, Starting, At, NoCall, TypeOK, Slots, New,
         Return, Fault
<1>5. Closing'
  BY DEF IndInv, StartListenFails, CallForm, Handlers, Closing, Down, At, NoCall,
         NoRequest, TypeOK, Slots, New, Return, Fault
<1>6. NoneLeftBehind' /\ PickersWhole'
  BY DEF IndInv, StartListenFails, CallForm, Starting, Closing, Down, NoneLeftBehind,
         PickersWhole, At, NoCall, TypeOK, Slots, New, Return, Fault
<1> QED
  BY <1>1, <1>2, <1>3, <1>4, <1>5, <1>6 DEF IndInv

\* As above, and the address stays taken.
LEMMA StartConnectFailsInv == ASSUME IndInv, StartConnectFails PROVE IndInv'
<1> USE ClusterAssumption
<1>1. TypeOK'
  <2>1. call # NoCall /\ call' \in Call
    BY ReturnCall DEF StartConnectFails, At, NoCall
  <2>2. call.at \in Slots
    BY <2>1, CallSlot
  <2>3. /\ inst' \in [Slots -> Nat] /\ picker' \in [Slots -> SUBSET Slots]
        /\ groups' \in [Slots -> SUBSET Names] /\ orphans' \subseteq Slots
    BY <2>2 DEF StartConnectFails, New, IndInv, TypeOK
  <2> QED
    BY <2>1, <2>3 DEF StartConnectFails, Fault, IndInv, TypeOK, Call
<1>2. CallForm'
  BY DEF IndInv, StartConnectFails, CallForm, At, NoCall, TypeOK, Slots, New, Return,
         Fault
<1>3. Handlers'
  BY DEF IndInv, StartConnectFails, CallForm, Handlers, At, NoCall, TypeOK, Slots, New
<1>4. Starting'
  BY DEF IndInv, StartConnectFails, CallForm, Starting, At, NoCall, TypeOK, Slots, New,
         Return, Fault
<1>5. Closing'
  BY DEF IndInv, StartConnectFails, CallForm, Handlers, Closing, Down, At, NoCall,
         NoRequest, TypeOK, Slots, New, Return, Fault
<1>6. NoneLeftBehind' /\ PickersWhole'
  BY DEF IndInv, StartConnectFails, CallForm, Starting, Closing, Down, NoneLeftBehind,
         PickersWhole, At, NoCall, TypeOK, Slots, New, Return, Fault
<1> QED
  BY <1>1, <1>2, <1>3, <1>4, <1>5, <1>6 DEF IndInv

\* The next daemon is told.
LEMMA TellPeersInv == ASSUME IndInv, TellPeers PROVE IndInv'
<1> USE ClusterAssumption
<1>1. /\ call \in Call /\ call.at \in Slots /\ N \in Nat
      /\ call.op = "start" /\ call.step = "peers"
  BY CallSlot DEF TellPeers, At, NoCall
<1>2. daemons = N
  BY <1>1 DEF IndInv, CallForm, At, NoCall
<1>3. picker' = [picker EXCEPT ![call.at] = Slots]
  <2>1. {call.at} # {}
    OBVIOUS
  <2> QED
    BY <2>1, <1>2 DEF TellPeers, SetPeers, Slots
<1>4. /\ call \in Call /\ call.at \in Slots /\ N \in Nat /\ daemons = N
      /\ call.op = "start" /\ call.step = "peers"
      /\ picker' = [picker EXCEPT ![call.at] = Slots]
  BY <1>1, <1>2, <1>3
<1>5. /\ call' \in Call
      /\ \/ /\ call'.op = "start" /\ call'.at = call.at + 1 /\ call'.step = "peers"
            /\ call.at < N
         \/ call' = NoCall
  <2>1. CASE call.at < N
    <3>1. Goto(call.at + 1, "peers") /\ call.at + 1 \in 0 .. N
      BY <1>4, <2>1 DEF TellPeers, Slots
    <3> QED
      BY <1>4, <2>1, <3>1, GotoCall
  <2>2. CASE ~ (call.at < N)
    BY <1>4, <2>2, ReturnCall DEF TellPeers
  <2> QED
    BY <2>1, <2>2
<1>6. TypeOK'
  <2>1. picker' \in [Slots -> SUBSET Slots]
    BY <1>4 DEF IndInv, TypeOK
  <2> QED
    BY <1>5, <2>1, Zenon DEF TellPeers, IndInv, TypeOK, Call
<1>7. CallForm'
  BY <1>4, <1>5 DEF TellPeers, CallForm, At, Slots
<1>8. Handlers'
  BY DEF TellPeers, IndInv, Handlers
<1>9. picker \in [Slots -> SUBSET Slots]
  BY DEF IndInv, TypeOK
<1>10. \A i \in Slots : picker'[i] = IF i = call.at THEN Slots ELSE picker[i]
  BY <1>4, <1>9
<1>11. Starting'
  <2>1. \A i \in 1 .. daemons : server[i] = "serving" /\ (i < call.at => picker[i] = Slots)
    BY <1>4 DEF IndInv, Starting
  <2>2. \A i \in 1 .. daemons : i < call.at + 1 => picker'[i] = Slots
    BY <1>4, <1>10, <2>1 DEF Slots
  <2>3. daemons' = daemons /\ server' = server
    BY DEF TellPeers
  <2> QED
    BY <1>5, <2>1, <2>2, <2>3 DEF Starting, NoCall
<1>12. Closing'
  BY <1>4, <1>5 DEF Closing, At, NoCall
<1>13. NoneLeftBehind' /\ PickersWhole'
  <2>1. daemons' = daemons /\ server' = server
    BY DEF TellPeers
  <2> QED
    BY <1>4, <1>10, <2>1 DEF IndInv, NoneLeftBehind, PickersWhole, Slots
<1> QED
  BY <1>6, <1>7, <1>8, <1>11, <1>12, <1>13 DEF IndInv

\* Restart or Shutdown begins.
LEMMA BeginInv == ASSUME NEW op \in {"restart", "shutdown"}, IndInv, Begin(op) PROVE IndInv'
<1> USE ClusterAssumption
<1>1. TypeOK'
  BY DEF IndInv, Begin, TypeOK, CallForm, At, NoCall, Slots
<1>2. CallForm'
  BY DEF IndInv, Begin, CallForm, At, NoCall, TypeOK, Slots
<1>3. Handlers'
  BY DEF IndInv, Begin, CallForm, Handlers, At, NoCall, NoRequest, Closing, Down,
         TypeOK, Slots
<1>4. Starting'
  BY DEF IndInv, Begin, CallForm, Starting, At, NoCall, TypeOK, Slots
<1>5. Closing'
  BY DEF IndInv, Begin, CallForm, Handlers, Closing, Down, At, NoCall, NoRequest,
         TypeOK, Slots
<1>6. NoneLeftBehind' /\ PickersWhole'
  BY DEF IndInv, Begin, CallForm, Starting, Closing, Down, NoneLeftBehind, PickersWhole,
         At, NoCall, TypeOK, Slots
<1> QED
  BY <1>1, <1>2, <1>3, <1>4, <1>5, <1>6 DEF IndInv

\* A listener closes.
LEMMA CloseListenerInv == ASSUME IndInv, CloseListener PROVE IndInv'
<1> USE ClusterAssumption
<1>1. TypeOK'
  <2>1. call # NoCall
    BY DEF CloseListener, NoCall
  <2>2. call \in Call /\ call.at \in Slots /\ call.at \in 0 .. N
    BY <2>1, CallSlot DEF Slots
  <2>3. call' \in Call
    BY <2>2, GotoCall DEF CloseListener
  <2>4. server' \in [Slots -> {"new", "serving", "closed", "lost"}]
    BY <2>2 DEF CloseListener, IndInv, TypeOK
  <2> QED
    BY <2>3, <2>4 DEF CloseListener, IndInv, TypeOK, Call
<1>2. CallForm'
  BY DEF IndInv, CloseListener, CallForm, At, NoCall, TypeOK, Slots, Goto
<1>3. Handlers'
  BY DEF IndInv, CloseListener, CallForm, Handlers, At, NoCall, NoRequest, Closing,
         Down, TypeOK, Slots, Goto
<1>4. Starting'
  BY DEF IndInv, CloseListener, CallForm, Starting, At, NoCall, TypeOK, Slots, Goto
<1>5. Closing'
  BY DEF IndInv, CloseListener, CallForm, Handlers, Closing, Down, At, NoCall,
         NoRequest, TypeOK, Slots, Goto
<1>6. NoneLeftBehind' /\ PickersWhole'
  BY DEF IndInv, CloseListener, CallForm, Starting, Closing, Down, NoneLeftBehind,
         PickersWhole, At, NoCall, TypeOK, Slots, Goto
<1> QED
  BY <1>1, <1>2, <1>3, <1>4, <1>5, <1>6 DEF IndInv

\* The last handler has ended, and no request arrives any more.
LEMMA RestartDrainedInv == ASSUME IndInv, RestartDrained PROVE IndInv'
<1> USE ClusterAssumption
<1>1. TypeOK'
  BY Zenon DEF IndInv, RestartDrained, TypeOK, CallForm, At, NoCall, Slots, Goto,
               Serving
<1>2. CallForm'
  BY DEF IndInv, RestartDrained, CallForm, At, NoCall, TypeOK, Slots, Goto, Serving
<1>3. Handlers'
  BY DEF IndInv, RestartDrained, CallForm, Handlers, At, NoCall, NoRequest, Closing,
         Down, TypeOK, Slots, Goto, Serving
<1>4. Starting'
  BY DEF IndInv, RestartDrained, CallForm, Starting, At, NoCall, TypeOK, Slots, Goto,
         Serving
<1>5. Closing'
  BY DEF IndInv, RestartDrained, CallForm, Handlers, Closing, Down, At, NoCall,
         NoRequest, TypeOK, Slots, Goto, Serving
<1>6. NoneLeftBehind' /\ PickersWhole'
  BY DEF IndInv, RestartDrained, CallForm, Starting, Closing, Down, NoneLeftBehind,
         PickersWhole, At, NoCall, TypeOK, Slots, Goto, Serving
<1> QED
  BY <1>1, <1>2, <1>3, <1>4, <1>5, <1>6 DEF IndInv

\* The same, and after the last daemon none has handlers.
LEMMA ShutdownDrainedInv == ASSUME IndInv, ShutdownDrained PROVE IndInv'
<1> USE ClusterAssumption
<1>1. /\ call \in Call /\ call.at \in Slots /\ N \in Nat /\ daemons \in 0 .. N
      /\ call.at \in 1 .. daemons /\ call.op = "shutdown"
  BY CallSlot DEF ShutdownDrained, IndInv, CallForm, At, NoCall
<1>2. \A i \in 1 .. daemons : i <= call.at => Down(i)
  <2>1. Down(call.at)
    BY DEF ShutdownDrained, Serving, IndInv, Closing, Down, At
  <2> QED
    BY <1>1, <2>1 DEF IndInv, Closing
<1>3. CASE call.at < daemons
  <2>1. /\ call' \in Call /\ call'.op = "shutdown" /\ call'.at = call.at + 1
        /\ call'.step = "close" /\ daemons' = daemons
    <3>1. Goto(call.at + 1, "close") /\ call.at + 1 \in 0 .. N /\ daemons' = daemons
      BY <1>1, <1>3 DEF ShutdownDrained
    <3> QED
      BY <1>1, <3>1, GotoCall
  <2>2. TypeOK'
    BY <2>1 DEF ShutdownDrained, IndInv, TypeOK, Call
  <2>3. CallForm' /\ Starting'
    BY <1>1, <1>3, <2>1 DEF CallForm, Starting
  <2>4. Closing'
    BY <1>1, <1>2, <2>1 DEF ShutdownDrained, Closing, At, Down
  <2>5. Handlers' /\ NoneLeftBehind' /\ PickersWhole'
    BY <2>1 DEF ShutdownDrained, IndInv, Handlers, NoneLeftBehind, PickersWhole
  <2> QED
    BY <2>2, <2>3, <2>4, <2>5 DEF IndInv
<1>4. CASE ~ (call.at < daemons)
  <2>1. /\ call' = NoCall /\ call' \in Call /\ call'.op = "none" /\ call'.step = "none"
        /\ daemons' = 0
    BY <1>4, ReturnCall DEF ShutdownDrained
  <2>2. \A i \in 1 .. daemons : Down(i)
    BY <1>1, <1>2, <1>4
  <2>3. TypeOK'
    BY <2>1 DEF ShutdownDrained, IndInv, TypeOK, Call
  <2>4. CallForm' /\ Starting' /\ Closing' /\ PickersWhole'
    BY <2>1 DEF CallForm, Starting, Closing, PickersWhole, At
  <2>5. Handlers'
    BY <2>2 DEF ShutdownDrained, IndInv, Handlers, Down
  <2>6. NoneLeftBehind'
    BY <1>1, <2>2 DEF ShutdownDrained, IndInv, NoneLeftBehind, Down, Slots
  <2> QED
    BY <2>3, <2>4, <2>5, <2>6 DEF IndInv
<1> QED
  BY <1>3, <1>4

\* The call fails midway.
LEMMA DrainFailsInv == ASSUME IndInv, DrainFails PROVE IndInv'
<1> USE ClusterAssumption
<1>1. TypeOK'
  BY DEF IndInv, DrainFails, TypeOK, CallForm, At, NoCall, Slots, Return, Fault
<1>2. CallForm'
  BY DEF IndInv, DrainFails, CallForm, At, NoCall, TypeOK, Slots, Return, Fault
<1>3. Handlers'
  BY DEF IndInv, DrainFails, CallForm, Handlers, At, NoCall, NoRequest, Closing, Down,
         TypeOK, Slots, Return, Fault
<1>4. Starting'
  BY DEF IndInv, DrainFails, CallForm, Starting, At, NoCall, TypeOK, Slots, Return,
         Fault
<1>5. Closing'
  BY DEF IndInv, DrainFails, CallForm, Handlers, Closing, Down, At, NoCall, NoRequest,
         TypeOK, Slots, Return, Fault
<1>6. NoneLeftBehind' /\ PickersWhole'
  BY DEF IndInv, DrainFails, CallForm, Starting, Closing, Down, NoneLeftBehind,
         PickersWhole, At, NoCall, TypeOK, Slots, Return, Fault
<1> QED
  BY <1>1, <1>2, <1>3, <1>4, <1>5, <1>6 DEF IndInv

\* The Instance of a daemon that is down is replaced.
LEMMA RestartDaemonInv == ASSUME IndInv, RestartDaemon PROVE IndInv'
<1> USE ClusterAssumption
<1>1. /\ call \in Call /\ call.at \in Slots /\ N \in Nat /\ daemons \in 0 .. N
      /\ call.at \in 1 .. daemons /\ call.op = "restart" /\ Down(call.at)
  BY CallSlot DEF RestartDaemon, IndInv, CallForm, Closing, At, NoCall
<1>2. /\ call' \in Call
      /\ \/ /\ call'.op = "restart" /\ call'.at = call.at + 1 /\ call'.step = "close"
            /\ call.at < daemons
         \/ call' = NoCall
  <2>1. CASE call.at < daemons
    <3>1. Goto(call.at + 1, "close") /\ call.at + 1 \in 0 .. N
      BY <1>1, <2>1 DEF RestartDaemon
    <3> QED
      BY <1>1, <2>1, <3>1, GotoCall
  <2>2. CASE ~ (call.at < daemons)
    BY <2>2, ReturnCall DEF RestartDaemon
  <2> QED
    BY <2>1, <2>2
<1>3. picker' = [picker EXCEPT ![call.at] = {}]
  BY DEF RestartDaemon, SetPeers
<1>4. TypeOK'
  <2>1. server' \in [Slots -> {"new", "serving", "closed", "lost"}]
    BY <1>1 DEF RestartDaemon, IndInv, TypeOK
  <2>2. /\ inst' \in [Slots -> Nat] /\ picker' \in [Slots -> SUBSET Slots]
        /\ groups' \in [Slots -> SUBSET Names]
    <3>1. inst' \in [Slots -> Nat] /\ groups' \in [Slots -> SUBSET Names]
      BY <1>1 DEF RestartDaemon, IndInv, TypeOK
    <3>2. picker' \in [Slots -> SUBSET Slots]
      BY <1>1, <1>3 DEF IndInv, TypeOK
    <3> QED
      BY <3>1, <3>2
  <2> QED
    BY <1>2, <2>1, <2>2, Zenon DEF RestartDaemon, IndInv, TypeOK, Call
<1>5. CallForm' /\ Starting' /\ Closing'
  BY <1>1, <1>2 DEF RestartDaemon, CallForm, Starting, Closing, At, NoCall
<1>6. Handlers'
  BY <1>1 DEF RestartDaemon, IndInv, Handlers, Down, TypeOK
<1>7. NoneLeftBehind'
  BY <1>1 DEF RestartDaemon, IndInv, NoneLeftBehind, TypeOK, Slots
<1>8. PickersWhole'
  <2>1. picker \in [Slots -> SUBSET Slots] /\ daemons' = daemons
    BY DEF RestartDaemon, IndInv, TypeOK
  <2>2. \A i \in Slots : picker'[i] = IF i = call.at THEN {} ELSE picker[i]
    BY <1>1, <1>3, <2>1
  <2> QED
    BY <1>1, <2>1, <2>2 DEF IndInv, PickersWhole, Slots
<1> QED
  BY <1>4, <1>5, <1>6, <1>7, <1>8 DEF IndInv

\* The same, and the call fails.
LEMMA RestartFailsInv == ASSUME IndInv, RestartFails PROVE IndInv'
<1> USE ClusterAssumption
<1>1. TypeOK'
  <2>1. call # NoCall /\ call' \in Call
    BY ReturnCall DEF RestartFails, At, NoCall
  <2>2. call.at \in Slots
    BY <2>1, CallSlot
  <2>3. /\ inst' \in [Slots -> Nat] /\ picker' \in [Slots -> SUBSET Slots]
        /\ groups' \in [Slots -> SUBSET Names]
    BY <2>2 DEF RestartFails, New, IndInv, TypeOK
  <2>4. server' \in [Slots -> {"new", "serving", "closed", "lost"}]
    BY <2>2 DEF RestartFails, IndInv, TypeOK
  <2> QED
    BY <2>1, <2>3, <2>4 DEF RestartFails, Fault, IndInv, TypeOK, Call
<1>2. CallForm'
  BY DEF IndInv, RestartFails, CallForm, At, NoCall, TypeOK, Slots, New, Return, Fault
<1>3. Handlers'
  BY DEF IndInv, RestartFails, CallForm, Handlers, At, NoCall, NoRequest, Closing, Down,
         TypeOK, Slots, New, Return, Fault
<1>4. Starting'
  BY DEF IndInv, RestartFails, CallForm, Starting, At, NoCall, TypeOK, Slots, New,
         Return, Fault
<1>5. Closing'
  BY DEF IndInv, RestartFails, CallForm, Handlers, Closing, Down, At, NoCall, NoRequest,
         TypeOK, Slots, New, Return, Fault
<1>6. NoneLeftBehind' /\ PickersWhole'
  BY DEF IndInv, RestartFails, CallForm, Starting, Closing, Down, NoneLeftBehind,
         PickersWhole, At, NoCall, TypeOK, Slots, New, Return, Fault
<1> QED
  BY <1>1, <1>2, <1>3, <1>4, <1>5, <1>6 DEF IndInv

\* The registry of groups does not matter to the rest.
LEMMA GroupsInv ==
  ASSUME IndInv, NEW i \in Slots, NEW g \in Names, NewGroup(i, g) \/ RemoveGroup(i, g)
  PROVE  IndInv'
<1>1. /\ UNCHANGED <<daemons, server, orphans, inst, picker, call, req, calls, faults>>
      /\ groups' \in [Slots -> SUBSET Names] /\ news' \in Nat
  BY DEF NewGroup, RemoveGroup, IndInv, TypeOK
<1> QED
  BY <1>1 DEF IndInv, TypeOK, CallForm, Handlers, Starting, Closing, Down, At,
              NoneLeftBehind, PickersWhole

\* A request arrives at a server that serves, hence at a listed daemon that no
\* call has closed.
LEMMA ArriveInv ==
  ASSUME IndInv, NEW r \in Requests, NEW i \in Slots, Arrive(r, i)
  PROVE  IndInv'
<1> USE ClusterAssumption
<1>1. i \in 1 .. daemons /\ server[i] = "serving"
  BY DEF IndInv, TypeOK, NoneLeftBehind, Arrive, Slots
<1>2. /\ UNCHANGED <<daemons, server, orphans, inst, picker, groups, call, calls, news,
                     faults>>
      /\ req' = [req EXCEPT ![r] = [at |-> i, inst |-> inst[i], pc |-> "lookup"]]
  BY DEF Arrive
<1>3. req' \in [Requests -> Req]
  BY <1>2 DEF IndInv, TypeOK, Req
<1>4. TypeOK'
  BY <1>2, <1>3 DEF IndInv, TypeOK, Req
<1>5. \A q \in Requests : req'[q] = IF q = r THEN [at |-> i, inst |-> inst[i], pc |-> "lookup"]
                                   ELSE req[q]
  BY <1>2 DEF IndInv, TypeOK
<1>6. Handlers'
  BY <1>1, <1>2, <1>5 DEF IndInv, Handlers
<1>7. Closing'
  <2>1. \A j : Down(j) => Down(j)'
    BY <1>1, <1>2, <1>5 DEF Down
  <2> QED
    BY <1>2, <2>1 DEF IndInv, Closing, At
<1>8. CallForm' /\ Starting' /\ NoneLeftBehind' /\ PickersWhole'
  BY <1>2 DEF IndInv, CallForm, Starting, At, NoneLeftBehind, PickersWhole
<1> QED
  BY <1>4, <1>6, <1>7, <1>8 DEF IndInv

\* A handler goes on, on the same daemon, or ends.
LEMMA HandlerInv ==
  ASSUME IndInv, NEW r \in Requests, Handler(r)
  PROVE  IndInv'
<1> USE ClusterAssumption
<1>1. /\ UNCHANGED <<daemons, server, orphans, inst, picker, groups, call, calls, news,
                     faults>>
      /\ \/ req' = [req EXCEPT ![r] = NoRequest]
         \/ \E p \in {"group", "panic"} : req' = [req EXCEPT ![r].pc = p]
      /\ req[r].pc # "none"
  BY DEF Handler, GetGroup, HandlerEnd
<1>2. req \in [Requests -> Req] /\ NoRequest \in Req
  BY DEF IndInv, TypeOK, Req, NoRequest
<1>3. req[r] # NoRequest
  BY <1>1 DEF NoRequest
<1>4. /\ req' \in [Requests -> Req]
      /\ \A q \in Requests \ {r} : req'[q] = req[q]
      /\ \/ req'[r] = NoRequest
         \/ /\ req'[r].at = req[r].at /\ req'[r].inst = req[r].inst
            /\ req'[r].pc \in {"group", "panic"}
  BY <1>1, <1>2 DEF Req
<1>5. TypeOK'
  BY <1>1, <1>4 DEF IndInv, TypeOK, Req
<1>6. Handlers'
  BY <1>1, <1>3, <1>4 DEF IndInv, Handlers
<1>7. Closing'
  <2>1. ASSUME NEW j \in Slots, Down(j) PROVE Down(j)'
    <3>1. NoRequest.at # j
      BY DEF NoRequest, Slots
    <3>2. ASSUME NEW q \in Requests PROVE req'[q].at # j
      <4>1. CASE q = r
        BY <1>4, <2>1, <3>1, <4>1 DEF Down
      <4>2. CASE q # r
        BY <1>4, <2>1, <4>2 DEF Down
      <4> QED
        BY <4>1, <4>2
    <3> QED
      BY <1>1, <2>1, <3>2 DEF Down
  <2>2. call # NoCall => call.at \in Slots
    BY CallSlot
  <2> QED
    BY <1>1, <2>1, <2>2 DEF IndInv, Closing, At, TypeOK, Slots, NoCall
<1>8. CallForm' /\ Starting' /\ NoneLeftBehind' /\ PickersWhole'
  BY <1>1 DEF IndInv, CallForm, Starting, At, NoneLeftBehind, PickersWhole
<1> QED
  BY <1>5, <1>6, <1>7, <1>8 DEF IndInv

-------------------------------------------------------------------------------
(* Theorems *)

\* Every step keeps the invariant.
LEMMA NextInv == ASSUME IndInv, [Next]_vars PROVE IndInv'
<1>1. CASE UNCHANGED vars
  BY <1>1 DEF vars, IndInv, TypeOK, CallForm, Handlers, Starting, Closing, Down, At,
              NoneLeftBehind, PickersWhole
<1>2. CASE Next
  <2>1. CASE CallStep
    BY <2>1, StartDaemonInv, StartListenFailsInv, TellPeersInv, CloseListenerInv,
       RestartDrainedInv, ShutdownDrainedInv, RestartDaemonInv DEF CallStep
  <2>2. CASE \E r \in Requests : Handler(r)
    BY <2>2, HandlerInv
  <2>3. CASE \E r \in Requests, i \in Slots : Arrive(r, i)
    BY <2>3, ArriveInv
  <2>4. CASE \E i \in Slots, g \in Names : NewGroup(i, g) \/ RemoveGroup(i, g)
    BY <2>4, GroupsInv
  <2>5. CASE Begin("restart") \/ Begin("shutdown")
    BY <2>5, BeginInv
  <2> QED
    BY <1>2, <2>1, <2>2, <2>3, <2>4, <2>5, StartWithInv, StartConnectFailsInv,
       DrainFailsInv, RestartFailsInv DEF Next
<1> QED
  BY <1>1, <1>2

\* It holds throughout.
LEMMA AlwaysInv == Spec => []IndInv
<1>1. IndInv /\ [Next]_vars => IndInv'
  BY NextInv
<1> QED
  BY InitInv, <1>1, PTL DEF Spec

\* Every call of the cluster package points at a daemon of the list, whatever
\* failed before (StartWith, Restart, Shutdown).
THEOREM TypesHold == Spec => []TypeOK
<1>1. IndInv => TypeOK
  BY DEF IndInv
<1> QED
  BY AlwaysInv, <1>1, PTL

\* Restart never replaces an Instance under a handler: HttpTransport.Shutdown
\* returned nil before Daemon.Start.
THEOREM InstancesOutliveHandlers == Spec => []HandlersDrained
BY AlwaysInv, IndInvImplies, PTL

\* Whenever no daemon is listed, none of them listens (Shutdown, StartWith).
THEOREM NothingLeftListening == Spec => []NoneLeftBehind
<1>1. IndInv => NoneLeftBehind
  BY DEF IndInv
<1> QED
  BY AlwaysInv, <1>1, PTL

\* A daemon knows all listed daemons or none (Daemon.SetPeers, Restart).
THEOREM DaemonsAgree == Spec => []PickersWhole
<1>1. IndInv => PickersWhole
  BY DEF IndInv
<1> QED
  BY AlwaysInv, <1>1, PTL

\* StartWith that returns nil leaves every daemon serving and aware of all.
THEOREM StartIsComplete == Spec => StartTellsAll
<1>1. IndInv /\ [Next]_vars
        => [At("start", "peers") /\ call' = NoCall
              => \A i \in Slots : picker'[i] = Slots /\ server'[i] = "serving"]_vars
  <2> SUFFICES ASSUME IndInv, Next, At("start", "peers"), call' = NoCall
               PROVE  \A i \in Slots : picker'[i] = Slots /\ server'[i] = "serving"
    BY DEF At, NoCall, vars
  <2>1. call # NoCall /\ call' # call /\ call.op = "start" /\ call.step = "peers"
    BY DEF At, NoCall
  <2>2. TellPeers
    BY <2>1 DEF Next, CallStep, StartWith, Begin, StartDaemon, StartListenFails,
       CloseListener, RestartDrained, ShutdownDrained, RestartDaemon, StartConnectFails,
       DrainFails, RestartFails, NewGroup, RemoveGroup, Arrive, Handler, GetGroup,
       HandlerEnd, At
  <2>3. daemons = N /\ call.at \in Slots /\ N \in Nat /\ call \in Call
    BY <2>1, CallSlot DEF IndInv, CallForm, At
  <2>4. call.at = N
    <3>1. SUFFICES ASSUME call.at < N PROVE FALSE
      BY <2>3 DEF Slots
    <3>2. Goto(call.at + 1, "peers") /\ call.at + 1 \in 0 .. N
      BY <2>2, <2>3, <3>1 DEF TellPeers, Slots
    <3> QED
      BY <2>1, <2>3, <3>2, GotoCall DEF NoCall
  <2>5. picker' = [picker EXCEPT ![N] = Slots] /\ server' = server
    <3>1. {call.at} # {}
      OBVIOUS
    <3> QED
      BY <2>2, <2>3, <2>4, <3>1 DEF TellPeers, SetPeers, Slots
  <2>6. \A i \in Slots : server[i] = "serving" /\ (i < N => picker[i] = Slots)
    BY <2>1, <2>3, <2>4 DEF IndInv, Starting, Slots
  <2>7. picker \in [Slots -> SUBSET Slots]
    BY DEF IndInv, TypeOK
  <2> QED
    BY <2>3, <2>5, <2>6, <2>7 DEF Slots
<1> QED
  BY AlwaysInv, <1>1, PTL DEF Spec, StartTellsAll

===============================================================================
