----------------------------- MODULE SingleFlight -----------------------------
(***************************************************************************)
(* singleflight.Group: duplicate call suppression (Do) and the mutual      *)
(* exclusion of the call map (Lock).                                       *)
(*                                                                         *)
(* Every critical section of g.mu inside Do is one action, enabled while   *)
(* no goroutine is inside Lock(fn).  The function given to Do runs with    *)
(* g.mu released: it starts in DoLead and ends in FnReturn or FnPanic.     *)
(* A call object is a member of CallIds; it may be reused once no          *)
(* goroutine and no map entry refers to it, as the Go heap does.           *)
(***************************************************************************)
EXTENDS Integers

CONSTANTS
  Callers,    \* goroutines using the group
  Keys,
  Outcomes,   \* what fn may return: its values and its errors alike
  CallIds,    \* addresses of call objects
  Panicked,   \* the error "singleflight leader panicked"
  Nil         \* no call, no key, no goroutine

ASSUME NilAssumption ==
  /\ Nil \notin Callers
  /\ Nil \notin CallIds
  /\ Nil \notin Keys
ASSUME OutcomesAssumption == Panicked \notin Outcomes /\ Nil \notin Outcomes \cup {Panicked}

VARIABLES
  mu,     \* the goroutine inside Lock(fn), or Nil when g.mu is free
  m,      \* g.m: key -> call in flight, or Nil
  calls,  \* the call objects: wg is the WaitGroup's counter, res is (val, err)
  pc,     \* what each goroutine is about to do
  key,    \* key[p]: the key of p's current Do
  cur,    \* cur[p]: the call p leads or waits for
  out     \* ghost: out[c] is what fn did in call c, Nil while it runs

vars == <<mu, m, calls, pc, key, cur, out>>

Results == Outcomes \cup {Panicked}

Call == [wg : {0, 1}, res : Results]

\* Leading: p owns the call it refers to.  The three stages are fn running,
\* c.wg.Done() due, and the deletion of the map entry due.
Leading(p) == pc[p] \in {"run", "done", "delete"}

\* In particular a call's WaitGroup never goes below zero, which would panic.
TypeOK ==
  /\ mu \in Callers \cup {Nil}
  /\ m \in [Keys -> CallIds \cup {Nil}]
  /\ calls \in [CallIds -> Call]
  /\ pc \in [Callers -> {"idle", "run", "done", "delete", "wait", "locked"}]
  /\ key \in [Callers -> Keys \cup {Nil}]
  /\ cur \in [Callers -> CallIds \cup {Nil}]
  /\ out \in [CallIds -> Results \cup {Nil}]

Init ==
  /\ mu = Nil
  /\ m = [k \in Keys |-> Nil]
  /\ calls = [c \in CallIds |-> [wg |-> 0, res |-> Panicked]]
  /\ pc = [p \in Callers |-> "idle"]
  /\ key = [p \in Callers |-> Nil]
  /\ cur = [p \in Callers |-> Nil]
  /\ out = [c \in CallIds |-> Nil]

Unreferenced(c) ==
  /\ \A k \in Keys : m[k] # c
  /\ \A p \in Callers : cur[p] # c

-------------------------------------------------------------------------------
(* Do *)

\* A duplicate: the key has a call, so p leaves the critical section to wait.
DoJoin(p, k) ==
  /\ pc[p] = "idle"
  /\ mu = Nil
  /\ m[k] # Nil
  /\ pc' = [pc EXCEPT ![p] = "wait"]
  /\ key' = [key EXCEPT ![p] = k]
  /\ cur' = [cur EXCEPT ![p] = m[k]]
  /\ UNCHANGED <<mu, m, calls, out>>

\* Mutant of DoLead: the map is not consulted before registering.
DoLeadUnchecked(p, k) ==
  /\ pc[p] = "idle"
  /\ mu = Nil
  /\ \E c \in CallIds :
       /\ Unreferenced(c)
       /\ m' = [m EXCEPT ![k] = c]
       /\ calls' = [calls EXCEPT ![c] = [wg |-> 1, res |-> Panicked]]
       /\ out' = [out EXCEPT ![c] = Nil]
       /\ cur' = [cur EXCEPT ![p] = c]
  /\ pc' = [pc EXCEPT ![p] = "run"]
  /\ key' = [key EXCEPT ![p] = k]
  /\ UNCHANGED mu

\* The first caller registers a call preset to the panic error, and runs fn.
DoLead(p, k) ==
  /\ pc[p] = "idle"
  /\ mu = Nil
  /\ m[k] = Nil
  /\ \E c \in CallIds :
       /\ Unreferenced(c)
       /\ m' = [m EXCEPT ![k] = c]
       /\ calls' = [calls EXCEPT ![c] = [wg |-> 1, res |-> Panicked]]
       /\ out' = [out EXCEPT ![c] = Nil]
       /\ cur' = [cur EXCEPT ![p] = c]
  /\ pc' = [pc EXCEPT ![p] = "run"]
  /\ key' = [key EXCEPT ![p] = k]
  /\ UNCHANGED mu

\* Mutant of FnReturn: the results stay in local variables of the leader.
FnReturnLocal(p) ==
  /\ pc[p] = "run"
  /\ \E r \in Outcomes : out' = [out EXCEPT ![cur[p]] = r]
  /\ pc' = [pc EXCEPT ![p] = "done"]
  /\ UNCHANGED <<mu, m, calls, key, cur>>

\* c.val, c.err = fn()
FnReturn(p) ==
  /\ pc[p] = "run"
  /\ \E r \in Outcomes :
       /\ calls' = [calls EXCEPT ![cur[p]].res = r]
       /\ out' = [out EXCEPT ![cur[p]] = r]
  /\ pc' = [pc EXCEPT ![p] = "done"]
  /\ UNCHANGED <<mu, m, key, cur>>

\* Mutant of FnPanic: the clean-up is not deferred.
FnPanicNoDefer(p) ==
  /\ pc[p] = "run"
  /\ pc' = [pc EXCEPT ![p] = "idle"]
  /\ out' = [out EXCEPT ![cur[p]] = Panicked]
  /\ key' = [key EXCEPT ![p] = Nil]
  /\ cur' = [cur EXCEPT ![p] = Nil]
  /\ UNCHANGED <<mu, m, calls>>

\* Mutant of FnPanic: a recover handler calls Done, and so does the defer.
FnPanicDoneTwice(p) ==
  /\ pc[p] = "run"
  /\ pc' = [pc EXCEPT ![p] = "done"]
  /\ out' = [out EXCEPT ![cur[p]] = Panicked]
  /\ calls' = [calls EXCEPT ![cur[p]].wg = @ - 1]
  /\ UNCHANGED <<mu, m, key, cur>>

\* fn panics (or calls runtime.Goexit): only the deferred function is left.
FnPanic(p) ==
  /\ pc[p] = "run"
  /\ pc' = [pc EXCEPT ![p] = "done"]
  /\ out' = [out EXCEPT ![cur[p]] = Panicked]
  /\ UNCHANGED <<mu, m, calls, key, cur>>

\* Mutant of WgDone: the entry is deleted before the duplicates are released.
WgDoneAfterDelete(p) ==
  /\ pc[p] = "done"
  /\ mu = Nil
  /\ m' = [m EXCEPT ![key[p]] = Nil]
  /\ pc' = [pc EXCEPT ![p] = "delete"]
  /\ UNCHANGED <<mu, calls, key, cur, out>>

\* The deferred c.wg.Done(), outside g.mu.
WgDone(p) ==
  /\ pc[p] = "done"
  /\ calls' = [calls EXCEPT ![cur[p]].wg = @ - 1]
  /\ pc' = [pc EXCEPT ![p] = "delete"]
  /\ UNCHANGED <<mu, m, key, cur, out>>

\* Mutant of DoDelete: the map entry is deleted without g.mu.
DoDeleteUnlocked(p) ==
  /\ pc[p] = "delete"
  /\ m' = [m EXCEPT ![key[p]] = Nil]
  /\ pc' = [pc EXCEPT ![p] = "idle"]
  /\ key' = [key EXCEPT ![p] = Nil]
  /\ cur' = [cur EXCEPT ![p] = Nil]
  /\ UNCHANGED <<mu, calls, out>>

\* The deferred delete(g.m, key), inside g.mu; Do then returns or re-panics.
DoDelete(p) ==
  /\ pc[p] = "delete"
  /\ mu = Nil
  /\ m' = [m EXCEPT ![key[p]] = Nil]
  /\ pc' = [pc EXCEPT ![p] = "idle"]
  /\ key' = [key EXCEPT ![p] = Nil]
  /\ cur' = [cur EXCEPT ![p] = Nil]
  /\ UNCHANGED <<mu, calls, out>>

\* c.wg.Wait() returns and the duplicate's Do returns c.val, c.err.
WaitReturn(p) ==
  /\ pc[p] = "wait"
  /\ calls[cur[p]].wg = 0
  /\ pc' = [pc EXCEPT ![p] = "idle"]
  /\ key' = [key EXCEPT ![p] = Nil]
  /\ cur' = [cur EXCEPT ![p] = Nil]
  /\ UNCHANGED <<mu, m, calls, out>>

-------------------------------------------------------------------------------
(* Lock *)

LockEnter(p) ==
  /\ pc[p] = "idle"
  /\ mu = Nil
  /\ mu' = p
  /\ pc' = [pc EXCEPT ![p] = "locked"]
  /\ UNCHANGED <<m, calls, key, cur, out>>

LockLeave(p) ==
  /\ pc[p] = "locked"
  /\ mu' = Nil
  /\ pc' = [pc EXCEPT ![p] = "idle"]
  /\ UNCHANGED <<m, calls, key, cur, out>>

-------------------------------------------------------------------------------
Next ==
  \E p \in Callers :
    \/ \E k \in Keys : DoJoin(p, k) \/ DoLead(p, k)
    \/ FnReturn(p)
    \/ FnPanic(p)
    \/ WgDone(p)
    \/ DoDelete(p)
    \/ WaitReturn(p)
    \/ LockEnter(p)
    \/ LockLeave(p)

Spec == Init /\ [][Next]_vars

\* fn ends, a goroutine that can run does, and g.mu is granted to a goroutine
\* that keeps asking for it (sync.Mutex hands over after a millisecond).
\* Nobody is obliged to call Do or Lock.
Fairness ==
  \A p \in Callers :
    /\ WF_vars(FnReturn(p) \/ FnPanic(p))
    /\ WF_vars(WgDone(p))
    /\ SF_vars(DoDelete(p))
    /\ WF_vars(WaitReturn(p))
    /\ WF_vars(LockLeave(p))

FairSpec == Spec /\ Fairness

-------------------------------------------------------------------------------
(* Properties *)

\* At most one execution of fn is in flight for a key (Do's contract).
AtMostOneFlight ==
  \A p, q \in Callers :
    pc[p] = "run" /\ pc[q] = "run" /\ key[p] = key[q] => p = q

\* Whatever a duplicate may read is what fn of its own call did: its return
\* value, or the panic error exactly when fn panicked.  The call object a
\* duplicate holds is never recycled for another flight under its feet.
ResultPublished ==
  \A p \in Callers :
    /\ pc[p] = "wait" /\ calls[cur[p]].wg = 0
         => out[cur[p]] # Nil /\ calls[cur[p]].res = out[cur[p]]
    /\ pc[p] = "wait" /\ calls[cur[p]].wg = 1
         => \E q \in Callers : /\ pc[q] \in {"run", "done"}
                               /\ cur[q] = cur[p]
                               /\ key[q] = key[p]

\* A map entry is never replaced, and is only deleted after its duplicates
\* were released: no leader deletes the call of a later flight.
EntryOutlivesFlight ==
  [][\A k \in Keys :
       m[k] # Nil /\ m'[k] # m[k] =>
         m'[k] = Nil /\ calls[m[k]].wg = 0 /\ out[m[k]] # Nil]_vars

\* The call's WaitGroup has been released.
Over(c) == calls[c].wg = 0

\* The flight of a key, and where a goroutine is in it.
FlightOf(k) ==
  IF m[k] = Nil THEN [state |-> "none", res |-> Panicked]
  ELSE IF Over(m[k]) THEN [state |-> "done", res |-> calls[m[k]].res]
  ELSE [state |-> "pending", res |-> Panicked]

JobOf(p) ==
  LET stage == IF pc[p] = "locked" THEN "idle"
               ELSE IF pc[p] = "wait" /\ Over(cur[p]) THEN "wake"
               ELSE pc[p]
  IN  [pc |-> stage, key |-> key[p],
       res |-> IF stage \in {"done", "delete", "wake"} THEN calls[cur[p]].res
               ELSE Panicked]

FlightsNow == [k \in Keys |-> FlightOf(k)]
JobsNow == [p \in Callers |-> JobOf(p)]

flights == INSTANCE Flights WITH held <- mu, flight <- FlightsNow, job <- JobsNow

\* Do and Lock implement Flights: the release of one WaitGroup ends the flight
\* for every goroutine that joined it and for no other, although call objects
\* are recycled, duplicates read the result long after, and the next flight of
\* the key may be under way by then; and while fn of Lock runs no flight starts,
\* is joined or is forgotten.
FlightsImplemented == flights!Spec

\* Every Do returns if every fn ends, panics included.
DoReturns ==
  \A p \in Callers : (pc[p] \notin {"idle", "locked"}) ~> (pc[p] = "idle")
===============================================================================
