------------------------------- MODULE Flights --------------------------------
(***************************************************************************)
(* What singleflight.Group promises its users, the groups of group.go:     *)
(* without the map, the call objects and their WaitGroups, a key has at    *)
(* most one flight, which ends for all its duplicates at once, and Lock    *)
(* keeps flights from starting, being joined and being forgotten.          *)
(***************************************************************************)
CONSTANTS
  Callers,    \* goroutines
  Keys,
  Outcomes,   \* what the function given to Do may return
  Panicked,   \* the error its duplicates see when it panics
  Nil         \* no key, no goroutine

VARIABLES
  held,    \* the goroutine inside Lock(fn), or Nil
  flight,  \* flight[k]: pending, done but not forgotten yet, or none
  job      \* job[p]: where p is in Do, for which key, and its result

vars == <<held, flight, job>>

NoFlight == [state |-> "none", res |-> Panicked]

NoJob == [pc |-> "idle", key |-> Nil, res |-> Panicked]

Init ==
  /\ held = Nil
  /\ flight = [k \in Keys |-> NoFlight]
  /\ job = [p \in Callers |-> NoJob]

\* p enters Do for k and finds its flight in state st.
Enters(p, k, st) ==
  /\ held = Nil
  /\ job[p] = NoJob
  /\ flight[k].state = st

Lead(p, k) ==
  /\ Enters(p, k, "none")
  /\ flight' = [flight EXCEPT ![k] = [state |-> "pending", res |-> Panicked]]
  /\ job' = [job EXCEPT ![p] = [pc |-> "run", key |-> k, res |-> Panicked]]
  /\ UNCHANGED held

Join(p, k) ==
  /\ Enters(p, k, "pending")
  /\ job' = [job EXCEPT ![p] = [pc |-> "wait", key |-> k, res |-> Panicked]]
  /\ UNCHANGED <<held, flight>>

JoinLate(p, k) ==
  /\ Enters(p, k, "done")
  /\ job' = [job EXCEPT ![p] = [pc |-> "wake", key |-> k, res |-> flight[k].res]]
  /\ UNCHANGED <<held, flight>>

\* The function returns or panics.
End(p) ==
  /\ job[p].pc = "run"
  /\ \E r \in Outcomes \cup {Panicked} :
       job' = [job EXCEPT ![p] = [pc |-> "done", key |-> job[p].key, res |-> r]]
  /\ UNCHANGED <<held, flight>>

\* The flight is over: exactly the duplicates of its key get its result.
Release(p) ==
  LET over(pc) == [pc |-> pc, key |-> job[p].key, res |-> job[p].res] IN
  /\ job[p].pc = "done"
  /\ flight' = [flight EXCEPT ![job[p].key] = [state |-> "done", res |-> job[p].res]]
  /\ job' = [q \in Callers |->
               IF q = p THEN over("delete")
               ELSE IF job[q].pc = "wait" /\ job[q].key = job[p].key THEN over("wake")
               ELSE job[q]]
  /\ UNCHANGED held

\* The leader forgets the flight; its Do returns or panics on.
LeaderReturn(p) ==
  /\ job[p].pc = "delete"
  /\ held = Nil
  /\ flight' = [flight EXCEPT ![job[p].key] = NoFlight]
  /\ job' = [job EXCEPT ![p] = NoJob]
  /\ UNCHANGED held

DuplicateReturn(p) ==
  /\ job[p].pc = "wake"
  /\ job' = [job EXCEPT ![p] = NoJob]
  /\ UNCHANGED <<held, flight>>

Lock(p) ==
  /\ held = Nil
  /\ job[p] = NoJob
  /\ held' = p
  /\ UNCHANGED <<flight, job>>

Unlock(p) ==
  /\ held = p
  /\ held' = Nil
  /\ UNCHANGED <<flight, job>>

Next ==
  \E p \in Callers :
    \/ \E k \in Keys : Lead(p, k) \/ Join(p, k) \/ JoinLate(p, k)
    \/ End(p) \/ Release(p) \/ LeaderReturn(p) \/ DuplicateReturn(p)
    \/ Lock(p) \/ Unlock(p)

Spec == Init /\ [][Next]_vars
===============================================================================
