-------------------------- MODULE SingleFlightProofs --------------------------
(***************************************************************************)
(* The safety of SingleFlight, and that it implements Flights, for any     *)
(* number of goroutines, keys, results and call objects.                   *)
(***************************************************************************)
EXTENDS SingleFlight, TLAPS

\* A leader's call is the one its key is mapped to.
LeaderRegistered ==
  \A p \in Callers : Leading(p) =>
    key[p] \in Keys /\ cur[p] \in CallIds /\ m[key[p]] = cur[p]

\* No two goroutines lead the same call: DoLead takes an unreferenced one.
LeaderUnique ==
  \A p, q \in Callers : Leading(p) /\ Leading(q) /\ cur[p] = cur[q] => p = q

\* Every map entry has a goroutine that will delete it.
EntryHasLeader ==
  \A k \in Keys : m[k] # Nil =>
    \E p \in Callers : Leading(p) /\ key[p] = k /\ cur[p] = m[k]

\* The state of a call follows its leader's progress.
LeaderStage ==
  \A p \in Callers :
    /\ pc[p] = "run" => calls[cur[p]] = [wg |-> 1, res |-> Panicked]
    /\ pc[p] = "done" => /\ calls[cur[p]].wg = 1
                         /\ out[cur[p]] \in Results
                         /\ calls[cur[p]].res = out[cur[p]]
    /\ pc[p] = "delete" => /\ calls[cur[p]].wg = 0
                           /\ out[cur[p]] \in Results
                           /\ calls[cur[p]].res = out[cur[p]]

\* A duplicate refers to a call, still led or already published.
WaiterServed ==
  \A p \in Callers : pc[p] = "wait" =>
    /\ key[p] \in Keys /\ cur[p] \in CallIds
    /\ IF calls[cur[p]].wg = 1
       THEN \E q \in Callers : /\ pc[q] \in {"run", "done"}
                               /\ cur[q] = cur[p]
                               /\ key[q] = key[p]
       ELSE out[cur[p]] \in Results /\ calls[cur[p]].res = out[cur[p]]

\* The inductive invariant.
IndInv ==
  /\ TypeOK
  /\ LeaderRegistered
  /\ LeaderUnique
  /\ EntryHasLeader
  /\ LeaderStage
  /\ WaiterServed

-------------------------------------------------------------------------------
\* The initial states satisfy the inductive invariant.
LEMMA InitIndInv == Init => IndInv
BY NilAssumption, OutcomesAssumption
   DEF Init, IndInv, TypeOK, LeaderRegistered, LeaderUnique, EntryHasLeader,
       LeaderStage, WaiterServed, Leading, Call, Results

\* DoJoin preserves the inductive invariant.
LEMMA DoJoinIndInv ==
  ASSUME IndInv, NEW p \in Callers, NEW k \in Keys, DoJoin(p, k)
  PROVE  IndInv'
<1> USE NilAssumption, OutcomesAssumption
       DEF IndInv, Leading, NilAssumption, OutcomesAssumption
<1>1. TypeOK'
  BY DEF TypeOK, Call, Results, DoJoin
<1>2. LeaderRegistered'
  BY DEF TypeOK, LeaderRegistered, LeaderUnique, DoJoin
<1>3. LeaderUnique'
  BY DEF TypeOK, LeaderUnique, DoJoin
<1>4. EntryHasLeader'
  BY DEF TypeOK, LeaderRegistered, LeaderUnique, EntryHasLeader, DoJoin
<1>5. LeaderStage'
  BY DEF TypeOK, Call, Results, LeaderRegistered, LeaderUnique, LeaderStage,
         DoJoin
<1>6. WaiterServed'
  BY DEF TypeOK, Call, Results, LeaderRegistered, LeaderUnique, EntryHasLeader,
         LeaderStage, WaiterServed, DoJoin
<1> QED
  BY <1>1, <1>2, <1>3, <1>4, <1>5, <1>6

\* DoLead preserves the inductive invariant.
LEMMA DoLeadIndInv ==
  ASSUME IndInv, NEW p \in Callers, NEW k \in Keys, DoLead(p, k)
  PROVE  IndInv'
<1> USE NilAssumption, OutcomesAssumption
       DEF IndInv, Leading, NilAssumption, OutcomesAssumption
<1>1. TypeOK'
  BY DEF TypeOK, Call, Results, DoLead, Unreferenced
<1>2. LeaderRegistered'
  BY DEF TypeOK, LeaderRegistered, LeaderUnique, DoLead, Unreferenced
<1>3. LeaderUnique'
  BY DEF TypeOK, LeaderUnique, DoLead, Unreferenced
<1>4. EntryHasLeader'
  BY DEF TypeOK, LeaderRegistered, LeaderUnique, EntryHasLeader, DoLead
<1>5. LeaderStage'
  BY DEF TypeOK, Call, Results, LeaderRegistered, LeaderUnique, LeaderStage,
         DoLead, Unreferenced
<1>6. WaiterServed'
  BY DEF TypeOK, Call, Results, LeaderRegistered, LeaderUnique, EntryHasLeader,
         LeaderStage, WaiterServed, DoLead, Unreferenced
<1> QED
  BY <1>1, <1>2, <1>3, <1>4, <1>5, <1>6

\* FnReturn preserves the inductive invariant.
LEMMA FnReturnIndInv ==
  ASSUME IndInv, NEW p \in Callers, FnReturn(p)
  PROVE  IndInv'
<1> USE NilAssumption, OutcomesAssumption
       DEF IndInv, Leading, NilAssumption, OutcomesAssumption
<1>1. TypeOK'
  <2>1. PICK r \in Outcomes :
          /\ calls' = [calls EXCEPT ![cur[p]].res = r]
          /\ out' = [out EXCEPT ![cur[p]] = r]
    BY DEF FnReturn
  <2>2. cur[p] \in CallIds
    BY DEF FnReturn, LeaderRegistered
  <2>3. calls' \in [CallIds -> Call] /\ out' \in [CallIds -> Results \cup {Nil}]
    BY <2>1, <2>2 DEF TypeOK, Call, Results
  <2> QED
    BY <2>3 DEF TypeOK, FnReturn
<1>2. LeaderRegistered'
  BY DEF TypeOK, LeaderRegistered, LeaderUnique, FnReturn
<1>3. LeaderUnique'
  BY DEF TypeOK, LeaderUnique, FnReturn
<1>4. EntryHasLeader'
  BY DEF TypeOK, LeaderRegistered, LeaderUnique, EntryHasLeader, FnReturn
<1>5. LeaderStage'
  <2>1. PICK r \in Outcomes :
          /\ calls' = [calls EXCEPT ![cur[p]].res = r]
          /\ out' = [out EXCEPT ![cur[p]] = r]
    BY DEF FnReturn
  <2>2. cur[p] \in CallIds /\ pc[p] = "run" /\ calls[cur[p]].wg = 1
    BY DEF FnReturn, LeaderRegistered, LeaderStage
  <2>3. calls'[cur[p]].wg = 1 /\ calls'[cur[p]].res = r /\ out'[cur[p]] = r
    BY <2>1, <2>2 DEF TypeOK, Call
  <2>4. \A q \in Callers : q # p /\ Leading(q) =>
          calls'[cur[q]] = calls[cur[q]] /\ out'[cur[q]] = out[cur[q]]
    BY <2>1, <2>2 DEF TypeOK, LeaderRegistered, LeaderUnique
  <2>5. pc' = [pc EXCEPT ![p] = "done"] /\ cur' = cur
    BY DEF FnReturn
  <2> QED
    BY <2>2, <2>3, <2>4, <2>5 DEF TypeOK, LeaderStage, Results
<1>6. WaiterServed'
  BY DEF TypeOK, Call, Results, LeaderRegistered, LeaderUnique, EntryHasLeader,
         LeaderStage, WaiterServed, FnReturn
<1> QED
  BY <1>1, <1>2, <1>3, <1>4, <1>5, <1>6

\* FnPanic preserves the inductive invariant.
LEMMA FnPanicIndInv ==
  ASSUME IndInv, NEW p \in Callers, FnPanic(p)
  PROVE  IndInv'
<1> USE NilAssumption, OutcomesAssumption
       DEF IndInv, Leading, NilAssumption, OutcomesAssumption
<1>1. TypeOK'
  BY DEF TypeOK, Call, Results, FnPanic
<1>2. LeaderRegistered'
  BY DEF TypeOK, LeaderRegistered, LeaderUnique, FnPanic
<1>3. LeaderUnique'
  BY DEF TypeOK, LeaderUnique, FnPanic
<1>4. EntryHasLeader'
  BY DEF TypeOK, LeaderRegistered, LeaderUnique, EntryHasLeader, FnPanic
<1>5. LeaderStage'
  BY DEF TypeOK, Call, Results, LeaderRegistered, LeaderUnique, LeaderStage,
         FnPanic
<1>6. WaiterServed'
  BY DEF TypeOK, Call, Results, LeaderRegistered, LeaderUnique, EntryHasLeader,
         LeaderStage, WaiterServed, FnPanic
<1> QED
  BY <1>1, <1>2, <1>3, <1>4, <1>5, <1>6

\* WgDone preserves the inductive invariant.
LEMMA WgDoneIndInv ==
  ASSUME IndInv, NEW p \in Callers, WgDone(p)
  PROVE  IndInv'
<1> USE NilAssumption, OutcomesAssumption
       DEF IndInv, Leading, NilAssumption, OutcomesAssumption
<1>1. TypeOK'
  <2>1. cur[p] \in CallIds /\ calls[cur[p]].wg = 1
    BY DEF WgDone, LeaderRegistered, LeaderStage
  <2>2. calls' \in [CallIds -> Call]
    BY <2>1 DEF TypeOK, Call, WgDone
  <2> QED
    BY <2>2 DEF TypeOK, WgDone
<1>2. LeaderRegistered'
  BY DEF TypeOK, LeaderRegistered, LeaderUnique, WgDone
<1>3. LeaderUnique'
  BY DEF TypeOK, LeaderUnique, WgDone
<1>4. EntryHasLeader'
  BY DEF TypeOK, LeaderRegistered, LeaderUnique, EntryHasLeader, WgDone
<1>5. LeaderStage'
  BY DEF TypeOK, Call, Results, LeaderRegistered, LeaderUnique, LeaderStage,
         WgDone
<1>6. WaiterServed'
  BY DEF TypeOK, Call, Results, LeaderRegistered, LeaderUnique, EntryHasLeader,
         LeaderStage, WaiterServed, WgDone
<1> QED
  BY <1>1, <1>2, <1>3, <1>4, <1>5, <1>6

\* DoDelete preserves the inductive invariant.
LEMMA DoDeleteIndInv ==
  ASSUME IndInv, NEW p \in Callers, DoDelete(p)
  PROVE  IndInv'
<1> USE NilAssumption, OutcomesAssumption
       DEF IndInv, Leading, NilAssumption, OutcomesAssumption
<1>1. TypeOK'
  BY DEF TypeOK, Call, Results, DoDelete
<1>2. LeaderRegistered'
  BY DEF TypeOK, LeaderRegistered, LeaderUnique, DoDelete
<1>3. LeaderUnique'
  BY DEF TypeOK, LeaderUnique, DoDelete
<1>4. EntryHasLeader'
  BY DEF TypeOK, LeaderRegistered, LeaderUnique, EntryHasLeader, DoDelete
<1>5. LeaderStage'
  BY DEF TypeOK, Call, Results, LeaderRegistered, LeaderUnique, LeaderStage,
         DoDelete
<1>6. WaiterServed'
  BY DEF TypeOK, Call, Results, LeaderRegistered, LeaderUnique, EntryHasLeader,
         LeaderStage, WaiterServed, DoDelete
<1> QED
  BY <1>1, <1>2, <1>3, <1>4, <1>5, <1>6

\* WaitReturn preserves the inductive invariant.
LEMMA WaitReturnIndInv ==
  ASSUME IndInv, NEW p \in Callers, WaitReturn(p)
  PROVE  IndInv'
<1> USE NilAssumption, OutcomesAssumption
       DEF IndInv, Leading, NilAssumption, OutcomesAssumption
<1>1. TypeOK'
  BY DEF TypeOK, Call, Results, WaitReturn
<1>2. LeaderRegistered'
  BY DEF TypeOK, LeaderRegistered, LeaderUnique, WaitReturn
<1>3. LeaderUnique'
  BY DEF TypeOK, LeaderUnique, WaitReturn
<1>4. EntryHasLeader'
  BY DEF TypeOK, LeaderRegistered, LeaderUnique, EntryHasLeader, WaitReturn
<1>5. LeaderStage'
  BY DEF TypeOK, Call, Results, LeaderRegistered, LeaderUnique, LeaderStage,
         WaitReturn
<1>6. WaiterServed'
  BY DEF TypeOK, Call, Results, LeaderRegistered, LeaderUnique, EntryHasLeader,
         LeaderStage, WaiterServed, WaitReturn
<1> QED
  BY <1>1, <1>2, <1>3, <1>4, <1>5, <1>6

\* LockEnter preserves the inductive invariant.
LEMMA LockEnterIndInv ==
  ASSUME IndInv, NEW p \in Callers, LockEnter(p)
  PROVE  IndInv'
<1> USE NilAssumption, OutcomesAssumption
       DEF IndInv, Leading, NilAssumption, OutcomesAssumption
<1>1. TypeOK'
  BY DEF TypeOK, Call, Results, LockEnter
<1>2. LeaderRegistered'
  BY DEF TypeOK, LeaderRegistered, LeaderUnique, LockEnter
<1>3. LeaderUnique'
  BY DEF TypeOK, LeaderUnique, LockEnter
<1>4. EntryHasLeader'
  BY DEF TypeOK, LeaderRegistered, LeaderUnique, EntryHasLeader, LockEnter
<1>5. LeaderStage'
  BY DEF TypeOK, Call, Results, LeaderRegistered, LeaderUnique, LeaderStage,
         LockEnter
<1>6. WaiterServed'
  BY DEF TypeOK, Call, Results, LeaderRegistered, LeaderUnique, EntryHasLeader,
         LeaderStage, WaiterServed, LockEnter
<1> QED
  BY <1>1, <1>2, <1>3, <1>4, <1>5, <1>6

\* LockLeave preserves the inductive invariant.
LEMMA LockLeaveIndInv ==
  ASSUME IndInv, NEW p \in Callers, LockLeave(p)
  PROVE  IndInv'
<1> USE NilAssumption, OutcomesAssumption
       DEF IndInv, Leading, NilAssumption, OutcomesAssumption
<1>1. TypeOK'
  BY DEF TypeOK, Call, Results, LockLeave
<1>2. LeaderRegistered'
  BY DEF TypeOK, LeaderRegistered, LeaderUnique, LockLeave
<1>3. LeaderUnique'
  BY DEF TypeOK, LeaderUnique, LockLeave
<1>4. EntryHasLeader'
  BY DEF TypeOK, LeaderRegistered, LeaderUnique, EntryHasLeader, LockLeave
<1>5. LeaderStage'
  BY DEF TypeOK, Call, Results, LeaderRegistered, LeaderUnique, LeaderStage,
         LockLeave
<1>6. WaiterServed'
  BY DEF TypeOK, Call, Results, LeaderRegistered, LeaderUnique, EntryHasLeader,
         LeaderStage, WaiterServed, LockLeave
<1> QED
  BY <1>1, <1>2, <1>3, <1>4, <1>5, <1>6

-------------------------------------------------------------------------------
\* Every step, stuttering included, preserves the inductive invariant.
LEMMA NextIndInv == IndInv /\ [Next]_vars => IndInv'
<1> SUFFICES ASSUME IndInv, [Next]_vars PROVE IndInv'
  OBVIOUS
<1>1. CASE UNCHANGED vars
  BY <1>1 DEF vars, IndInv, TypeOK, LeaderRegistered, LeaderUnique,
              EntryHasLeader, LeaderStage, WaiterServed, Leading
<1>2. CASE Next
  <2>1. PICK p \in Callers :
          \/ \E k \in Keys : DoJoin(p, k) \/ DoLead(p, k)
          \/ FnReturn(p) \/ FnPanic(p) \/ WgDone(p) \/ DoDelete(p)
          \/ WaitReturn(p) \/ LockEnter(p) \/ LockLeave(p)
    BY <1>2 DEF Next
  <2> QED
    BY <2>1, DoJoinIndInv, DoLeadIndInv, FnReturnIndInv, FnPanicIndInv,
       WgDoneIndInv, DoDeleteIndInv, WaitReturnIndInv, LockEnterIndInv,
       LockLeaveIndInv
<1> QED
  BY <1>1, <1>2

\* The inductive invariant holds in every reachable state.
THEOREM AlwaysIndInv == Spec => []IndInv
BY InitIndInv, NextIndInv, PTL DEF Spec

\* Type correctness of the group's state, for any constants.
THEOREM AlwaysTypeOK == Spec => []TypeOK
<1>1. IndInv => TypeOK
  BY DEF IndInv
<1> QED
  BY <1>1, AlwaysIndInv, PTL

\* Do never has two executions of fn in flight for one key: the key maps to
\* the call of each leader, and a call has one leader.
THEOREM AlwaysAtMostOneFlight == Spec => []AtMostOneFlight
<1>1. IndInv => AtMostOneFlight
  BY DEF IndInv, AtMostOneFlight, LeaderRegistered, LeaderUnique, Leading
<1> QED
  BY <1>1, AlwaysIndInv, PTL

\* A released duplicate reads what fn of its own flight did, and a duplicate
\* not yet released has a leader that will release it.
THEOREM AlwaysResultPublished == Spec => []ResultPublished
<1>1. IndInv => ResultPublished
  <2> SUFFICES ASSUME IndInv, NEW p \in Callers, pc[p] = "wait"
               PROVE  /\ calls[cur[p]].wg = 0
                           => out[cur[p]] # Nil /\ calls[cur[p]].res = out[cur[p]]
                      /\ calls[cur[p]].wg = 1
                           => \E q \in Callers : /\ pc[q] \in {"run", "done"}
                                                 /\ cur[q] = cur[p]
                                                 /\ key[q] = key[p]
    BY DEF ResultPublished
  <2>1. Nil \notin Results
    BY OutcomesAssumption DEF OutcomesAssumption, Results
  <2> QED
    BY <2>1 DEF IndInv, WaiterServed
<1> QED
  BY <1>1, AlwaysIndInv, PTL

\* Map entries are never replaced and are deleted only after their flight.
THEOREM AlwaysEntryOutlivesFlight == Spec => EntryOutlivesFlight
<1> DEFINE Kept == \A k \in Keys : m[k] # Nil /\ m'[k] # m[k] =>
                     m'[k] = Nil /\ calls[m[k]].wg = 0 /\ out[m[k]] # Nil
<1>1. IndInv /\ [Next]_vars => [Kept]_vars
  <2> SUFFICES ASSUME IndInv, Next PROVE Kept
    OBVIOUS
  <2>1. PICK p \in Callers :
          \/ \E k \in Keys : DoJoin(p, k) \/ DoLead(p, k)
          \/ FnReturn(p) \/ FnPanic(p) \/ WgDone(p) \/ DoDelete(p)
          \/ WaitReturn(p) \/ LockEnter(p) \/ LockLeave(p)
    BY DEF Next
  <2>2. ASSUME NEW k \in Keys, DoLead(p, k) PROVE Kept
    BY <2>2 DEF IndInv, TypeOK, DoLead
  <2>3. CASE DoDelete(p)
    BY <2>3, OutcomesAssumption
       DEF OutcomesAssumption, IndInv, TypeOK, LeaderRegistered, LeaderStage,
           Leading, DoDelete, Results
  <2>4. CASE \/ \E k \in Keys : DoJoin(p, k)
             \/ FnReturn(p) \/ FnPanic(p) \/ WgDone(p)
             \/ WaitReturn(p) \/ LockEnter(p) \/ LockLeave(p)
    <3>1. m' = m
      BY <2>4 DEF DoJoin, FnReturn, FnPanic, WgDone, WaitReturn, LockEnter,
                  LockLeave
    <3> QED
      BY <3>1
  <2> QED
    BY <2>1, <2>2, <2>3, <2>4
<1> QED
  BY <1>1, AlwaysIndInv, PTL DEF Spec, EntryOutlivesFlight

-------------------------------------------------------------------------------
(* SingleFlight implements Flights *)

\* A goroutine outside Do refers to nothing, and Lock holds g.mu.
Resting ==
  \A p \in Callers :
    /\ pc[p] \in {"idle", "locked"} => key[p] = Nil
    /\ pc[p] = "locked" => mu = p

\* It is invariant.
LEMMA AlwaysResting == Spec => []Resting
<1>1. Init => Resting
  BY DEF Init, Resting
<1>2. TypeOK /\ Resting /\ [Next]_vars => Resting'
  <2> SUFFICES ASSUME TypeOK, Resting, [Next]_vars PROVE Resting'
    OBVIOUS
  <2>1. CASE UNCHANGED vars
    BY <2>1 DEF vars, Resting
  <2>2. ASSUME NEW p \in Callers, NEW k \in Keys, DoJoin(p, k) \/ DoLead(p, k)
        PROVE  Resting'
    BY <2>2 DEF DoJoin, DoLead, Resting, TypeOK
  <2>3. ASSUME NEW p \in Callers, FnReturn(p) \/ FnPanic(p) \/ WgDone(p)
        PROVE  Resting'
    BY <2>3 DEF FnReturn, FnPanic, WgDone, Resting, TypeOK
  <2>4. ASSUME NEW p \in Callers, DoDelete(p) \/ WaitReturn(p)
        PROVE  Resting'
    BY <2>4 DEF DoDelete, WaitReturn, Resting, TypeOK
  <2>5. ASSUME NEW p \in Callers, LockEnter(p) \/ LockLeave(p)
        PROVE  Resting'
    BY <2>5, NilAssumption DEF LockEnter, LockLeave, Resting, TypeOK, NilAssumption
  <2> QED
    BY <2>1, <2>2, <2>3, <2>4, <2>5 DEF Next
<1> QED
  BY <1>1, <1>2, AlwaysTypeOK, PTL DEF Spec

-------------------------------------------------------------------------------
(* What the mapping makes of a goroutine and of a key *)

\* Outside Do there is no job.
LEMMA RestingJob ==
  ASSUME NEW p \in Callers, pc[p] \in {"idle", "locked"}, key[p] = Nil
  PROVE  JobOf(p) = flights!NoJob
BY DEF JobOf, flights!NoJob

\* Nor after a step that leaves it.
LEMMA RestingJobAfter ==
  ASSUME NEW p \in Callers, pc'[p] \in {"idle", "locked"}, key'[p] = Nil
  PROVE  JobOf(p)' = flights!NoJob
BY DEF JobOf, flights!NoJob

\* A job stays what it is unless the goroutine or its call changes.
LEMMA SameJob ==
  ASSUME NEW p \in Callers, pc'[p] = pc[p], key'[p] = key[p], cur'[p] = cur[p],
         pc[p] \in {"idle", "locked", "run"} \/ calls'[cur[p]] = calls[cur[p]]
  PROVE  JobOf(p)' = JobOf(p)
BY DEF JobOf, Over

\* And a flight unless the entry of its key or its call does.
LEMMA SameFlight ==
  ASSUME NEW k \in Keys, m'[k] = m[k], m[k] # Nil => calls'[m[k]] = calls[m[k]]
  PROVE  FlightOf(k)' = FlightOf(k)
BY DEF FlightOf, Over

\* A step of one job.
LEMMA OneJob ==
  ASSUME NEW p \in Callers, \A q \in Callers \ {p} : JobOf(q)' = JobOf(q)
  PROVE  JobsNow' = [JobsNow EXCEPT ![p] = JobOf(p)']
BY Zenon DEF JobsNow

\* A step of one flight.
LEMMA OneFlight ==
  ASSUME NEW k \in Keys, \A j \in Keys \ {k} : FlightOf(j)' = FlightOf(j)
  PROVE  FlightsNow' = [FlightsNow EXCEPT ![k] = FlightOf(k)']
BY Zenon DEF FlightsNow

\* A step of no flight.
LEMMA NoFlightMoves ==
  ASSUME \A k \in Keys : FlightOf(k)' = FlightOf(k)
  PROVE  FlightsNow' = FlightsNow
BY Zenon DEF FlightsNow

\* The members of the mapped variables.
LEMMA Mapped ==
  /\ \A p \in Callers : JobsNow[p] = JobOf(p)
  /\ \A k \in Keys : FlightsNow[k] = FlightOf(k)
BY Zenon DEF JobsNow, FlightsNow

-------------------------------------------------------------------------------
(* One lemma per action *)

\* A duplicate joins the flight, over or not.
LEMMA DoJoinFlight ==
  ASSUME IndInv, Resting, NEW p \in Callers, NEW k \in Keys, DoJoin(p, k)
  PROVE  flights!Join(p, k) \/ flights!JoinLate(p, k)
<1>1. /\ pc[p] = "idle" /\ mu = Nil /\ m[k] # Nil /\ mu' = mu /\ m' = m /\ calls' = calls
      /\ pc' = [pc EXCEPT ![p] = "wait"] /\ key' = [key EXCEPT ![p] = k]
      /\ cur' = [cur EXCEPT ![p] = m[k]]
  BY DEF DoJoin
<1>2. JobsNow[p] = flights!NoJob
  BY <1>1, RestingJob, Mapped DEF Resting
<1>3. JobsNow' = [JobsNow EXCEPT ![p] = JobOf(p)']
  BY <1>1, SameJob, OneJob DEF IndInv, TypeOK
<1>4. FlightsNow' = FlightsNow
  BY <1>1, SameFlight, NoFlightMoves
<1>5. pc'[p] = "wait" /\ key'[p] = k /\ cur'[p] = m[k]
  BY <1>1 DEF IndInv, TypeOK
<1>6. CASE Over(m[k])
  <2>1. FlightsNow[k] = [state |-> "done", res |-> calls[m[k]].res]
    BY <1>1, <1>6, Mapped DEF FlightOf
  <2>2. JobOf(p)' = [pc |-> "wake", key |-> k, res |-> calls[m[k]].res]
    BY <1>1, <1>5, <1>6 DEF JobOf, Over
  <2>3. flights!JoinLate(p, k)
    BY <1>1, <1>2, <1>3, <1>4, <2>1, <2>2 DEF flights!JoinLate, flights!Enters
  <2> QED
    BY <2>3
<1>7. CASE ~ Over(m[k])
  <2>1. FlightsNow[k] = [state |-> "pending", res |-> Panicked]
    BY <1>1, <1>7, Mapped, ZenonT(60) DEF FlightOf
  <2>2. JobOf(p)' = [pc |-> "wait", key |-> k, res |-> Panicked]
    BY <1>1, <1>5, <1>7 DEF JobOf, Over
  <2>3. flights!Join(p, k)
    BY <1>1, <1>2, <1>3, <1>4, <2>1, <2>2 DEF flights!Join, flights!Enters
  <2> QED
    BY <2>3
<1> QED
  BY <1>6, <1>7

\* The call registered was referred to by nobody.
LEMMA DoLeadFlight ==
  ASSUME IndInv, Resting, NEW p \in Callers, NEW k \in Keys, DoLead(p, k)
  PROVE  flights!Lead(p, k)
<1>1. PICK c \in CallIds :
        /\ Unreferenced(c)
        /\ m' = [m EXCEPT ![k] = c]
        /\ calls' = [calls EXCEPT ![c] = [wg |-> 1, res |-> Panicked]]
        /\ cur' = [cur EXCEPT ![p] = c]
  BY ZenonT(60) DEF DoLead
<1>2. /\ pc[p] = "idle" /\ mu = Nil /\ m[k] = Nil /\ mu' = mu
      /\ pc' = [pc EXCEPT ![p] = "run"] /\ key' = [key EXCEPT ![p] = k]
  BY DEF DoLead
<1>3. JobsNow[p] = flights!NoJob /\ FlightsNow[k].state = "none"
  <2>1. JobsNow[p] = flights!NoJob
    BY <1>2, RestingJob, Mapped DEF Resting
  <2>2. FlightOf(k).state = "none"
    BY <1>2 DEF FlightOf
  <2> QED
    BY <2>1, <2>2, Mapped
<1>4. \A q \in Callers \ {p} : JobOf(q)' = JobOf(q)
  <2> SUFFICES ASSUME NEW q \in Callers \ {p} PROVE JobOf(q)' = JobOf(q)
    OBVIOUS
  <2>1. pc'[q] = pc[q] /\ key'[q] = key[q] /\ cur'[q] = cur[q]
    BY <1>1, <1>2 DEF IndInv, TypeOK
  <2>2. pc[q] \in {"done", "delete", "wait"} => cur[q] \in CallIds \ {c}
    BY <1>1 DEF Unreferenced, IndInv, LeaderRegistered, Leading, WaiterServed
  <2>3. pc[q] \in {"idle", "locked", "run"} \/ calls'[cur[q]] = calls[cur[q]]
    BY <1>1, <2>2 DEF IndInv, TypeOK
  <2> QED
    BY <2>1, <2>3, SameJob
<1>5. \A j \in Keys \ {k} : FlightOf(j)' = FlightOf(j)
  <2> SUFFICES ASSUME NEW j \in Keys \ {k} PROVE FlightOf(j)' = FlightOf(j)
    OBVIOUS
  <2>1. m'[j] = m[j] /\ (m[j] # Nil => calls'[m[j]] = calls[m[j]])
    BY <1>1 DEF Unreferenced, IndInv, TypeOK
  <2> QED
    BY <2>1, SameFlight
<1>6. JobOf(p)' = [pc |-> "run", key |-> k, res |-> Panicked]
  BY <1>2 DEF JobOf, IndInv, TypeOK
<1>7. FlightOf(k)' = [state |-> "pending", res |-> Panicked]
  <2>1. m'[k] = c /\ c # Nil /\ calls'[c].wg = 1
    BY <1>1, NilAssumption DEF NilAssumption, IndInv, TypeOK
  <2> QED
    BY <2>1 DEF FlightOf, Over
<1> QED
  BY <1>2, <1>3, <1>4, <1>5, <1>6, <1>7, OneJob, OneFlight DEF flights!Lead, flights!Enters

\* fn ends: only the leader sees it yet.
LEMMA FnEndFlight ==
  ASSUME IndInv, IndInv', NEW p \in Callers, FnReturn(p) \/ FnPanic(p)
  PROVE  flights!End(p)
<1>1. /\ pc[p] = "run" /\ pc' = [pc EXCEPT ![p] = "done"]
      /\ mu' = mu /\ m' = m /\ key' = key /\ cur' = cur
  BY DEF FnReturn, FnPanic
<1>2. /\ cur[p] \in CallIds /\ key[p] \in Keys /\ m[key[p]] = cur[p]
      /\ calls[cur[p]] = [wg |-> 1, res |-> Panicked]
  BY <1>1 DEF IndInv, LeaderRegistered, Leading, LeaderStage
<1>3. PICK r \in Outcomes \cup {Panicked} : calls' = [calls EXCEPT ![cur[p]].res = r]
  <2>1. CASE FnReturn(p)
    BY <2>1, ZenonT(60) DEF FnReturn
  <2>2. CASE FnPanic(p)
    <3>1. calls' = calls
      BY <2>2 DEF FnPanic
    <3>2. calls = [calls EXCEPT ![cur[p]].res = Panicked]
      BY <1>2 DEF IndInv, TypeOK, Call
    <3> QED
      BY <3>1, <3>2
  <2> QED
    BY <2>1, <2>2
<1>4. /\ calls'[cur[p]] = [wg |-> 1, res |-> r]
      /\ \A c \in CallIds \ {cur[p]} : calls'[c] = calls[c]
  BY <1>2, <1>3 DEF IndInv, TypeOK, Call
<1>5. \A q \in Callers \ {p} : JobOf(q)' = JobOf(q)
  <2> SUFFICES ASSUME NEW q \in Callers \ {p} PROVE JobOf(q)' = JobOf(q)
    OBVIOUS
  <2>1. pc'[q] = pc[q] /\ key'[q] = key[q] /\ cur'[q] = cur[q]
    BY <1>1 DEF IndInv, TypeOK
  <2>2. CASE pc[q] = "wait" /\ cur[q] = cur[p]
    <3>1. ~ Over(cur[q]) /\ ~ Over(cur[q])'
      BY <1>1, <1>2, <1>4, <2>2 DEF Over
    <3> QED
      BY <2>1, <2>2, <3>1 DEF JobOf
  <2>3. CASE pc[q] = "wait" /\ cur[q] # cur[p]
    <3>1. calls'[cur[q]] = calls[cur[q]]
      BY <1>4, <2>3 DEF IndInv, WaiterServed
    <3> QED
      BY <2>1, <3>1, SameJob
  <2>4. CASE pc[q] \in {"done", "delete"}
    <3>1. cur[q] \in CallIds \ {cur[p]}
      BY <1>1, <2>4 DEF IndInv, LeaderRegistered, LeaderUnique, Leading
    <3> QED
      BY <1>4, <2>1, <3>1, SameJob
  <2>5. CASE pc[q] \in {"idle", "locked", "run"}
    BY <2>1, <2>5, SameJob
  <2> QED
    BY <2>2, <2>3, <2>4, <2>5 DEF IndInv, TypeOK
<1>6. \A k \in Keys : FlightOf(k)' = FlightOf(k)
  <2> SUFFICES ASSUME NEW k \in Keys PROVE FlightOf(k)' = FlightOf(k)
    OBVIOUS
  <2>1. CASE m[k] = cur[p]
    <3>1. ~ Over(m[k]) /\ ~ Over(m[k])'
      BY <1>1, <1>2, <1>4, <2>1 DEF Over
    <3> QED
      BY <1>1, <3>1 DEF FlightOf
  <2>2. CASE m[k] # cur[p]
    <3>1. m[k] # Nil => calls'[m[k]] = calls[m[k]]
      BY <1>4, <2>2 DEF IndInv, TypeOK
    <3> QED
      BY <1>1, <3>1, SameFlight
  <2> QED
    BY <2>1, <2>2
<1>7. JobOf(p)' = [pc |-> "done", key |-> key[p], res |-> r]
  <2>1. pc'[p] = "done" /\ calls'[cur'[p]].res = r
    BY <1>1, <1>4 DEF IndInv, TypeOK
  <2> QED
    BY <1>1, <2>1 DEF JobOf
<1>8. JobsNow[p].pc = "run" /\ JobsNow[p].key = key[p]
  <2>1. JobOf(p) = [pc |-> "run", key |-> key[p], res |-> Panicked]
    BY <1>1 DEF JobOf
  <2> QED
    BY <2>1, Mapped
<1> QED
  <2>1. JobsNow' = [JobsNow EXCEPT ![p] = [pc |-> "done", key |-> JobsNow[p].key, res |-> r]]
    BY <1>5, <1>7, <1>8, OneJob
  <2>2. FlightsNow' = FlightsNow
    BY <1>6, NoFlightMoves
  <2> QED
    BY <1>1, <1>8, <2>1, <2>2, Zenon DEF flights!End

\* The duplicates of the key that are not released wait for this very call,
\* and nobody else does.
LEMMA WgDoneFlight ==
  ASSUME IndInv, NEW p \in Callers, WgDone(p)
  PROVE  flights!Release(p)
<1>1. /\ pc[p] = "done" /\ pc' = [pc EXCEPT ![p] = "delete"]
      /\ mu' = mu /\ m' = m /\ key' = key /\ cur' = cur
      /\ calls' = [calls EXCEPT ![cur[p]].wg = @ - 1]
  BY DEF WgDone
<1>2. /\ cur[p] \in CallIds /\ key[p] \in Keys /\ m[key[p]] = cur[p]
      /\ calls[cur[p]].wg = 1
  BY <1>1 DEF IndInv, LeaderRegistered, Leading, LeaderStage
<1> DEFINE r == calls[cur[p]].res
<1>3. /\ calls'[cur[p]] = [wg |-> 0, res |-> r]
      /\ \A c \in CallIds \ {cur[p]} : calls'[c] = calls[c]
  BY <1>1, <1>2 DEF IndInv, TypeOK, Call
<1>4. JobsNow[p] = [pc |-> "done", key |-> key[p], res |-> r]
  BY <1>1, Mapped DEF JobOf
<1>5. JobOf(p)' = [pc |-> "delete", key |-> key[p], res |-> r]
  <2>1. pc'[p] = "delete" /\ calls'[cur'[p]].res = r
    BY <1>1, <1>3 DEF IndInv, TypeOK
  <2> QED
    BY <1>1, <2>1 DEF JobOf
<1>6. ASSUME NEW q \in Callers \ {p}
      PROVE  JobOf(q)' = IF JobsNow[q].pc = "wait" /\ JobsNow[q].key = key[p]
                         THEN [pc |-> "wake", key |-> key[p], res |-> r]
                         ELSE JobsNow[q]
  <2>1. pc'[q] = pc[q] /\ key'[q] = key[q] /\ cur'[q] = cur[q]
    BY <1>1 DEF IndInv, TypeOK
  <2>2. JobsNow[q] = JobOf(q) /\ JobsNow[q].key = key[q]
    BY Mapped DEF JobOf
  <2>3. CASE pc[q] = "wait" /\ ~ Over(cur[q])
    <3>1. cur[q] \in CallIds /\ calls[cur[q]].wg = 1
      BY <2>3 DEF Over, IndInv, WaiterServed, TypeOK, Call
    <3>2. PICK l \in Callers : /\ pc[l] \in {"run", "done"} /\ cur[l] = cur[q]
                               /\ key[l] = key[q]
      BY <2>3, <3>1 DEF IndInv, WaiterServed
    <3>3. m[key[q]] = cur[q]
      BY <3>2 DEF IndInv, LeaderRegistered, Leading
    <3>4. JobOf(q).pc = "wait"
      BY <2>3 DEF JobOf
    <3>5. CASE key[q] = key[p]
      <4>1. cur[q] = cur[p]
        BY <1>2, <3>3, <3>5
      <4>2. Over(cur[q])' /\ calls'[cur[q]].res = r
        <5>1. calls'[cur[q]].wg = 0 /\ calls'[cur[q]].res = r
          <6> HIDE DEF r
          <6> QED
            BY <1>3, <4>1
        <5> QED
          BY <2>1, <5>1 DEF Over
      <4>3. JobOf(q)' = [pc |-> "wake", key |-> key[p], res |-> r]
        BY <2>1, <2>3, <3>5, <4>2 DEF JobOf
      <4> QED
        BY <2>2, <3>4, <3>5, <4>3
    <3>6. CASE key[q] # key[p]
      <4>1. cur[q] # cur[p]
        BY <1>1, <3>2, <3>6 DEF IndInv, LeaderUnique, Leading
      <4>2. JobOf(q)' = JobOf(q)
        BY <1>3, <2>1, <3>1, <4>1, SameJob
      <4> QED
        BY <2>2, <3>6, <4>2
    <3> QED
      BY <3>5, <3>6
  <2>4. CASE ~ (pc[q] = "wait" /\ ~ Over(cur[q]))
    <3>1. JobOf(q).pc # "wait"
      BY <2>4 DEF JobOf
    <3>2. pc[q] \in {"idle", "locked", "run"} \/ cur[q] \in CallIds \ {cur[p]}
      BY <1>1, <1>2, <2>4
         DEF Over, IndInv, TypeOK, LeaderRegistered, LeaderUnique, Leading, WaiterServed
    <3>3. JobOf(q)' = JobOf(q)
      BY <1>3, <2>1, <3>2, SameJob
    <3> QED
      BY <2>2, <3>1, <3>3
  <2> QED
    BY <2>3, <2>4
<1>7. ASSUME NEW k \in Keys \ {key[p]}
      PROVE  FlightOf(k)' = FlightOf(k)
  <2>1. m[k] # cur[p]
    BY <1>1, <1>2, NilAssumption
       DEF NilAssumption, IndInv, EntryHasLeader, LeaderUnique, Leading
  <2>2. m[k] # Nil => calls'[m[k]] = calls[m[k]]
    BY <1>3, <2>1 DEF IndInv, TypeOK
  <2> QED
    BY <1>1, <2>2, SameFlight
<1>8. FlightOf(key[p])' = [state |-> "done", res |-> r]
  BY <1>1, <1>2, <1>3, NilAssumption DEF NilAssumption, FlightOf, Over
<1>9. FlightsNow' = [FlightsNow EXCEPT ![key[p]] = [state |-> "done", res |-> r]]
  <2> HIDE DEF r
  <2>1. \A k \in Keys \ {key[p]} : FlightOf(k)' = FlightOf(k)
    BY <1>7
  <2>2. FlightsNow' = [FlightsNow EXCEPT ![key[p]] = FlightOf(key[p])']
    BY <1>1, <1>2, <2>1, OneFlight
  <2> QED
    BY <1>8, <2>2
<1>10. JobsNow' = [q \in Callers |->
                     IF q = p THEN [pc |-> "delete", key |-> key[p], res |-> r]
                     ELSE IF JobsNow[q].pc = "wait" /\ JobsNow[q].key = key[p]
                          THEN [pc |-> "wake", key |-> key[p], res |-> r]
                          ELSE JobsNow[q]]
  <2> HIDE DEF r
  <2> QED
    BY <1>5, <1>6, Zenon DEF JobsNow
<1> HIDE DEF r
<1> QED
  BY <1>1, <1>4, <1>9, <1>10 DEF flights!Release

\* The leader deletes its own entry.
LEMMA DoDeleteFlight ==
  ASSUME IndInv, NEW p \in Callers, DoDelete(p)
  PROVE  flights!LeaderReturn(p)
<1>1. /\ pc[p] = "delete" /\ mu = Nil /\ mu' = mu /\ calls' = calls
      /\ m' = [m EXCEPT ![key[p]] = Nil] /\ pc' = [pc EXCEPT ![p] = "idle"]
      /\ key' = [key EXCEPT ![p] = Nil] /\ cur' = [cur EXCEPT ![p] = Nil]
  BY DEF DoDelete
<1>2. key[p] \in Keys
  BY <1>1 DEF IndInv, LeaderRegistered, Leading
<1>3. JobsNow[p].pc = "delete" /\ JobsNow[p].key = key[p]
  <2>1. JobOf(p) = [pc |-> "delete", key |-> key[p], res |-> calls[cur[p]].res]
    BY <1>1 DEF JobOf
  <2> QED
    BY <2>1, Mapped
<1>4. JobsNow' = [JobsNow EXCEPT ![p] = flights!NoJob]
  <2>1. JobOf(p)' = flights!NoJob
    BY <1>1, RestingJobAfter DEF IndInv, TypeOK
  <2>2. \A q \in Callers \ {p} : JobOf(q)' = JobOf(q)
    BY <1>1, SameJob DEF IndInv, TypeOK
  <2> QED
    BY <2>1, <2>2, OneJob
<1>5. \A k \in Keys : FlightOf(k)' = IF k = key[p] THEN flights!NoFlight ELSE FlightOf(k)
  <2> SUFFICES ASSUME NEW k \in Keys
               PROVE  FlightOf(k)' = IF k = key[p] THEN flights!NoFlight ELSE FlightOf(k)
    OBVIOUS
  <2>1. CASE k = key[p]
    <3>1. m'[k] = Nil
      BY <1>1, <2>1 DEF IndInv, TypeOK
    <3> QED
      BY <2>1, <3>1 DEF FlightOf, flights!NoFlight
  <2>2. CASE k # key[p]
    <3>1. m'[k] = m[k]
      BY <1>1, <2>2 DEF IndInv, TypeOK
    <3> QED
      BY <1>1, <2>2, <3>1, SameFlight
  <2> QED
    BY <2>1, <2>2
<1>6. FlightsNow' = [FlightsNow EXCEPT ![key[p]] = flights!NoFlight]
  BY <1>2, <1>5, Zenon DEF FlightsNow
<1> QED
  BY <1>1, <1>3, <1>4, <1>6 DEF flights!LeaderReturn

\* A duplicate returns.
LEMMA WaitReturnFlight ==
  ASSUME IndInv, NEW p \in Callers, WaitReturn(p)
  PROVE  flights!DuplicateReturn(p)
<1>1. /\ pc[p] = "wait" /\ Over(cur[p]) /\ mu' = mu /\ m' = m /\ calls' = calls
      /\ pc' = [pc EXCEPT ![p] = "idle"]
      /\ key' = [key EXCEPT ![p] = Nil] /\ cur' = [cur EXCEPT ![p] = Nil]
  BY DEF WaitReturn, Over
<1>2. JobsNow[p].pc = "wake"
  <2>1. JobOf(p).pc = "wake"
    BY <1>1 DEF JobOf
  <2> QED
    BY <2>1, Mapped
<1>3. JobsNow' = [JobsNow EXCEPT ![p] = flights!NoJob]
  <2>1. JobOf(p)' = flights!NoJob
    BY <1>1, RestingJobAfter DEF IndInv, TypeOK
  <2>2. \A q \in Callers \ {p} : JobOf(q)' = JobOf(q)
    BY <1>1, SameJob DEF IndInv, TypeOK
  <2> QED
    BY <2>1, <2>2, OneJob
<1>4. FlightsNow' = FlightsNow
  BY <1>1, SameFlight, NoFlightMoves
<1> QED
  BY <1>1, <1>2, <1>3, <1>4 DEF flights!DuplicateReturn

\* Lock is taken and released outside Do.
LEMMA LockFlight ==
  ASSUME IndInv, Resting, NEW p \in Callers, LockEnter(p) \/ LockLeave(p)
  PROVE  flights!Lock(p) \/ flights!Unlock(p)
<1>1. /\ m' = m /\ calls' = calls /\ key' = key /\ cur' = cur
      /\ \/ pc[p] = "idle" /\ mu = Nil /\ mu' = p /\ pc' = [pc EXCEPT ![p] = "locked"]
         \/ pc[p] = "locked" /\ mu' = Nil /\ pc' = [pc EXCEPT ![p] = "idle"]
  BY DEF LockEnter, LockLeave
<1>2. key[p] = Nil /\ (pc[p] = "locked" => mu = p)
  BY <1>1 DEF Resting
<1>3. JobOf(p) = flights!NoJob
  BY <1>1, <1>2, RestingJob
<1>4. JobOf(p)' = flights!NoJob
  BY <1>1, <1>2, RestingJobAfter DEF IndInv, TypeOK
<1>5. \A q \in Callers \ {p} : JobOf(q)' = JobOf(q)
  BY <1>1, SameJob DEF IndInv, TypeOK
<1>6. JobsNow' = JobsNow
  BY <1>3, <1>4, <1>5, Zenon DEF JobsNow
<1>7. FlightsNow' = FlightsNow
  BY <1>1, SameFlight, NoFlightMoves
<1>8. JobsNow[p] = flights!NoJob
  BY <1>3, Mapped
<1> QED
  BY <1>1, <1>2, <1>6, <1>7, <1>8 DEF flights!Lock, flights!Unlock

-------------------------------------------------------------------------------
(* Refinement *)

\* The group starts without flights.
LEMMA InitFlights == Init => flights!Init
<1> SUFFICES ASSUME Init PROVE flights!Init
  OBVIOUS
<1>1. \A p \in Callers : JobOf(p) = flights!NoJob
  BY RestingJob DEF Init
<1>2. \A k \in Keys : FlightOf(k) = flights!NoFlight
  BY DEF Init, FlightOf, flights!NoFlight
<1>3. mu = Nil
  BY DEF Init
<1> QED
  BY <1>1, <1>2, <1>3, Zenon DEF flights!Init, JobsNow, FlightsNow

\* Every step of the group is a step of Flights or none.
LEMMA NextFlights ==
  IndInv /\ IndInv' /\ Resting /\ [Next]_vars => [flights!Next]_(flights!vars)
<1> SUFFICES ASSUME IndInv, IndInv', Resting, [Next]_vars
             PROVE  flights!Next \/ UNCHANGED flights!vars
  OBVIOUS
<1>1. CASE UNCHANGED vars
  <2>1. /\ \A p \in Callers : JobOf(p)' = JobOf(p)
        /\ \A k \in Keys : FlightOf(k)' = FlightOf(k)
        /\ mu' = mu
    BY <1>1, SameJob, SameFlight DEF vars
  <2> QED
    BY <2>1, Zenon DEF flights!vars, JobsNow, FlightsNow
<1>2. ASSUME NEW p \in Callers, NEW k \in Keys, DoJoin(p, k) \/ DoLead(p, k)
      PROVE  flights!Next
  BY <1>2, DoJoinFlight, DoLeadFlight DEF flights!Next
<1>3. ASSUME NEW p \in Callers, FnReturn(p) \/ FnPanic(p) \/ WgDone(p)
      PROVE  flights!Next
  BY <1>3, FnEndFlight, WgDoneFlight DEF flights!Next
<1>4. ASSUME NEW p \in Callers, DoDelete(p) \/ WaitReturn(p)
      PROVE  flights!Next
  BY <1>4, DoDeleteFlight, WaitReturnFlight DEF flights!Next
<1>5. ASSUME NEW p \in Callers, LockEnter(p) \/ LockLeave(p)
      PROVE  flights!Next
  BY <1>5, LockFlight DEF flights!Next
<1> QED
  BY <1>1, <1>2, <1>3, <1>4, <1>5 DEF Next

\* Do and Lock implement what group.go relies on: one flight per key, over for
\* all its duplicates and only for them when the leader calls wg.Done, and kept
\* as it is while the function given to Lock runs.
THEOREM DoImplementsFlights == Spec => FlightsImplemented
<1>1. Init => flights!Init
  BY InitFlights
<1>2. IndInv /\ IndInv' /\ Resting /\ [Next]_vars => [flights!Next]_(flights!vars)
  BY NextFlights
<1> QED
  BY <1>1, <1>2, AlwaysIndInv, AlwaysResting, PTL DEF Spec, FlightsImplemented, flights!Spec

===============================================================================
