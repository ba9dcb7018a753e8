------------------------- MODULE ResourceScheduler -------------------------
(***************************************************************************)
(* Admission of experiments by memory, cores and concurrency                *)
(* (controller/resource_scheduler.py) as LocalExecutor uses it             *)
(* (adapters/executor/local.py): several controller processes share one    *)
(* state file of reservations.                                             *)
(*                                                                         *)
(* An access takes the file's lock, reads the file, forgets the            *)
(* reservations of dead processes, decides, replaces the file and lets the *)
(* lock go.  A controller may die anywhere, and its worker, which has a    *)
(* session of its own, runs on; so does the worker of a controller that is *)
(* interrupted.  The operating system may give the number of a dead        *)
(* process to a new one.                                                   *)
(***************************************************************************)
EXTENDS Integers, Sequences, FiniteSets, Functions

CONSTANTS
    Pids,             \* numbers of the processes that use the state file
    Estimates,        \* resource estimates: memory, cores, gpu, heavy, scan
    Limits,           \* the capacities: memory, cores, gpu, heavy, light, scans
    Nobody,           \* not a process, not an estimate
    MaxReservations,  \* bound: reservations granted
    MaxDeaths         \* bound: deaths of a controller that holds a reservation

ASSUME NobodyAssumption == Nobody \notin Pids \cup Estimates
ASSUME EstimateAssumption ==
    Estimates \subseteq [memory : Nat, cores : Nat, gpu : Nat, heavy : BOOLEAN, scan : BOOLEAN]
ASSUME LimitAssumption ==
    Limits \in [memory : Nat, cores : Nat, gpu : Nat, heavy : Nat, light : Nat, scans : Nat]
ASSUME BoundAssumption == MaxReservations \in Nat /\ MaxDeaths \in Nat

\* Tokens are fresh for ever (uuid4); NoToken is none of them.
NoToken == 0
Tokens == 1..MaxReservations
Reservations == [pid : Pids, estimate : Estimates]

VARIABLES
    file,     \* the state file: reservations by token
    lock,     \* the process that holds the exclusive lock, or Nobody
    alive,    \* alive[p]: a process with number p exists
    pc,
    want,     \* want[p]: the estimate of the experiment p works on, or Nobody
    seen,     \* seen[p]: the file as p read it under the lock, stale reservations gone
    held,     \* held[p]: the token p has got back from reserve
    workers,  \* workers that run, by the token they were started under
    given,    \* the estimates of the tokens granted so far
    crashed   \* tokens whose process died, for the properties

vars == <<file, lock, alive, pc, want, seen, held, workers, given, crashed>>

-----------------------------------------------------------------------------
\* The decision.

Total(state, field) ==
    SumFunctionOnSet([t \in DOMAIN state |-> state[t].estimate[field]], DOMAIN state)
Count(state, field) == Cardinality({t \in DOMAIN state : state[t].estimate[field]})

\* Slip: memory, cores and GPU memory are looked at for heavy experiments only.
FitsIfHeavy(e, state) ==
    /\ e.heavy => /\ e.memory + Total(state, "memory") <= Limits.memory
                  /\ e.cores + Total(state, "cores") <= Limits.cores
                  /\ e.gpu + Total(state, "gpu") <= Limits.gpu
                  /\ Count(state, "heavy") < Limits.heavy
    /\ ~e.heavy => Cardinality(DOMAIN state) - Count(state, "heavy") < Limits.light
    /\ e.scan => Count(state, "scan") < Limits.scans

\* ResourceScheduler._decision: e fits beside the reservations of state.
Fits(e, state) ==
    /\ e.memory + Total(state, "memory") <= Limits.memory
    /\ e.cores + Total(state, "cores") <= Limits.cores
    /\ e.gpu + Total(state, "gpu") <= Limits.gpu
    /\ IF e.heavy
       THEN Count(state, "heavy") < Limits.heavy
       ELSE Cardinality(DOMAIN state) - Count(state, "heavy") < Limits.light
    /\ e.scan => Count(state, "scan") < Limits.scans

\* ResourceScheduler._remove_stale: reservations whose process is gone.
RemoveStale(state) == Restrict(state, {t \in DOMAIN state : alive[state[t].pid]})

-----------------------------------------------------------------------------
\* The access to the state file.

\* A controller calls reserve for an experiment, or only looks (can_schedule, pressure).
Ask(p, e) ==
    /\ pc[p] = "idle"
    /\ pc' = [pc EXCEPT ![p] = "reserve"]
    /\ want' = [want EXCEPT ![p] = e]
    /\ UNCHANGED <<file, lock, alive, seen, held, workers, given, crashed>>

Look(p) ==
    /\ pc[p] = "idle"
    /\ pc' = [pc EXCEPT ![p] = "look"]
    /\ UNCHANGED <<file, lock, alive, want, seen, held, workers, given, crashed>>

Inside == [reserve |-> "reserving", look |-> "looking", release |-> "releasing"]

\* Slip: the state file is read without the lock.
EnterAtOnce(p) ==
    /\ pc[p] \in DOMAIN Inside
    /\ lock' = p
    /\ seen' = [seen EXCEPT ![p] = RemoveStale(file)]
    /\ pc' = [pc EXCEPT ![p] = Inside[@]]
    /\ UNCHANGED <<file, alive, want, held, workers, given, crashed>>

\* _file_state up to its yield.
Enter(p) ==
    /\ pc[p] \in DOMAIN Inside
    /\ lock = Nobody
    /\ lock' = p
    /\ seen' = [seen EXCEPT ![p] = RemoveStale(file)]
    /\ pc' = [pc EXCEPT ![p] = Inside[@]]
    /\ UNCHANGED <<file, alive, want, held, workers, given, crashed>>

\* Its end: the file is replaced as a whole, and the lock let go.
Leave(p, state, next) ==
    /\ file' = state
    /\ lock' = Nobody
    /\ seen' = [seen EXCEPT ![p] = <<>>]
    /\ pc' = [pc EXCEPT ![p] = next]

Looked(p) ==
    /\ pc[p] = "looking"
    /\ Leave(p, seen[p], "idle")
    /\ UNCHANGED <<alive, want, held, workers, given, crashed>>

\* Slip: the estimate is stored without the pid it belongs to.
GrantBare(p) ==
    /\ pc[p] = "reserving"
    /\ Fits(want[p], seen[p])
    /\ Len(given) < MaxReservations
    /\ LET token == Len(given) + 1
       IN  /\ Leave(p, [t \in DOMAIN seen[p] \cup {token} |->
                           IF t = token THEN want[p] ELSE seen[p][t]],
                    "granted")
           /\ held' = [held EXCEPT ![p] = token]
    /\ given' = Append(given, want[p])
    /\ UNCHANGED <<alive, want, workers, crashed>>

\* Slip: reservations are numbered by how many there are.
GrantByCount(p) ==
    /\ pc[p] = "reserving"
    /\ Fits(want[p], seen[p])
    /\ Len(given) < MaxReservations
    /\ LET token == Cardinality(DOMAIN seen[p]) + 1
       IN  /\ Leave(p, [t \in DOMAIN seen[p] \cup {token} |->
                           IF t = token THEN [pid |-> p, estimate |-> want[p]] ELSE seen[p][t]],
                    "granted")
           /\ held' = [held EXCEPT ![p] = token]
    /\ given' = Append(given, want[p])
    /\ UNCHANGED <<alive, want, workers, crashed>>

\* reserve: the estimate fits and is written down under a new token ...
Grant(p) ==
    /\ pc[p] = "reserving"
    /\ Fits(want[p], seen[p])
    /\ Len(given) < MaxReservations
    /\ LET token == Len(given) + 1
       IN  /\ Leave(p, [t \in DOMAIN seen[p] \cup {token} |->
                           IF t = token THEN [pid |-> p, estimate |-> want[p]] ELSE seen[p][t]],
                    "granted")
           /\ held' = [held EXCEPT ![p] = token]
    /\ given' = Append(given, want[p])
    /\ UNCHANGED <<alive, want, workers, crashed>>

\* ... or ResourceUnavailable leaves _file_state before the file is replaced.
Deny(p) ==
    /\ pc[p] = "reserving"
    /\ ~Fits(want[p], seen[p])
    /\ Leave(p, file, "idle")
    /\ want' = [want EXCEPT ![p] = Nobody]
    /\ UNCHANGED <<alive, held, workers, given, crashed>>

\* release: the reservation is taken out.  Were it not there, a KeyError would take
\* the place of the experiment's result, and the file would stay as it is.
Release(p) ==
    /\ pc[p] = "releasing"
    /\ Leave(p, IF held[p] \in DOMAIN seen[p]
                THEN Restrict(seen[p], DOMAIN seen[p] \ {held[p]})
                ELSE file,
             "idle")
    /\ want' = [want EXCEPT ![p] = Nobody]
    /\ held' = [held EXCEPT ![p] = NoToken]
    /\ UNCHANGED <<alive, workers, given, crashed>>

-----------------------------------------------------------------------------
\* The experiment, between reserve and release.

\* _execute starts the worker ...
Start(p) ==
    /\ pc[p] = "granted"
    /\ pc' = [pc EXCEPT ![p] = "running"]
    /\ workers' = workers \cup {held[p]}
    /\ UNCHANGED <<file, lock, alive, want, seen, held, given, crashed>>

\* ... or raises before it does.
Raise(p) ==
    /\ pc[p] = "granted"
    /\ pc' = [pc EXCEPT ![p] = "release"]
    /\ UNCHANGED <<file, lock, alive, want, seen, held, workers, given, crashed>>

WorkerEnds(t) ==
    /\ workers' = workers \ {t}
    /\ UNCHANGED <<file, lock, alive, pc, want, seen, held, given, crashed>>

\* The worker has ended, or has used up its time and is killed, session and all.
Finish(p) ==
    /\ pc[p] = "running"
    /\ workers' = workers \ {held[p]}
    /\ pc' = [pc EXCEPT ![p] = "release"]
    /\ UNCHANGED <<file, lock, alive, want, seen, held, given, crashed>>

\* Slip: reservation() without its finally.
InterruptOnly(p) ==
    /\ pc[p] = "running"
    /\ pc' = [pc EXCEPT ![p] = "idle"]
    /\ want' = [want EXCEPT ![p] = Nobody]
    /\ held' = [held EXCEPT ![p] = NoToken]
    /\ UNCHANGED <<file, lock, alive, seen, workers, given, crashed>>

\* The controller is interrupted while it waits: the reservation is given back, and
\* nothing stops the worker.
Interrupt(p) ==
    /\ pc[p] = "running"
    /\ pc' = [pc EXCEPT ![p] = "release"]
    /\ UNCHANGED <<file, lock, alive, want, seen, held, workers, given, crashed>>

-----------------------------------------------------------------------------
\* A controller dies; the kernel drops its lock.
Die(p) ==
    /\ alive[p]
    /\ held[p] # NoToken => Cardinality(crashed) < MaxDeaths
    /\ alive' = [alive EXCEPT ![p] = FALSE]
    /\ lock' = IF lock = p THEN Nobody ELSE lock
    /\ pc' = [pc EXCEPT ![p] = "dead"]
    /\ want' = [want EXCEPT ![p] = Nobody]
    /\ seen' = [seen EXCEPT ![p] = <<>>]
    /\ crashed' = crashed \cup ({held[p]} \ {NoToken})
    /\ held' = [held EXCEPT ![p] = NoToken]
    /\ UNCHANGED <<file, workers, given>>

\* A new controller gets the number of a dead one.
Reuse(p) ==
    /\ ~alive[p]
    /\ alive' = [alive EXCEPT ![p] = TRUE]
    /\ pc' = [pc EXCEPT ![p] = "idle"]
    /\ UNCHANGED <<file, lock, want, seen, held, workers, given, crashed>>

Init ==
    /\ file = <<>>
    /\ lock = Nobody
    /\ alive = [p \in Pids |-> TRUE]
    /\ pc = [p \in Pids |-> "idle"]
    /\ want = [p \in Pids |-> Nobody]
    /\ seen = [p \in Pids |-> <<>>]
    /\ held = [p \in Pids |-> NoToken]
    /\ workers = {}
    /\ given = <<>>
    /\ crashed = {}

Access(p) ==
    \/ Enter(p) \/ Looked(p)
    \/ Grant(p) \/ Deny(p)
    \/ Release(p)

Experiment(p) == Start(p) \/ Raise(p) \/ Finish(p) \/ Interrupt(p)

Next ==
    \/ \E p \in Pids :
           \/ \E e \in Estimates : Ask(p, e)
           \/ Look(p) \/ Access(p) \/ Experiment(p)
           \/ Die(p) \/ Reuse(p)
    \/ \E t \in workers : WorkerEnds(t)

Spec == Init /\ [][Next]_vars

-----------------------------------------------------------------------------
\* Properties.

States == UNION {[some -> Reservations] : some \in SUBSET Tokens}

TypeOK ==
    /\ file \in States
    /\ lock \in Pids \cup {Nobody}
    /\ alive \in [Pids -> BOOLEAN]
    /\ pc \in [Pids -> {"idle", "reserve", "look", "reserving", "looking",
                        "granted", "running", "release", "releasing", "dead"}]
    /\ want \in [Pids -> Estimates \cup {Nobody}]
    /\ seen \in [Pids -> States]
    /\ held \in [Pids -> Tokens \cup {NoToken}]
    /\ workers \subseteq Tokens
    /\ given \in Seq(Estimates)
    /\ crashed \subseteq Tokens

\* Whatever controllers reserve, release, look, die and come back in whatever order,
\* the reservations that count stay within every limit at once.
WithinLimits ==
    /\ Total(file, "memory") <= Limits.memory
    /\ Total(file, "cores") <= Limits.cores
    /\ Total(file, "gpu") <= Limits.gpu
    /\ Count(file, "heavy") <= Limits.heavy
    /\ Cardinality(DOMAIN file) - Count(file, "heavy") <= Limits.light
    /\ Count(file, "scan") <= Limits.scans

\* A controller's reservation is in the file for as long as it needs it: no other
\* controller cleans it away, and release never fails in place of a result.
KeptWhileNeeded ==
    \A p \in Pids : held[p] # NoToken =>
        /\ held[p] \in DOMAIN file
        /\ file[held[p]] = [pid |-> p, estimate |-> want[p]]
        /\ pc[p] = "releasing" => held[p] \in DOMAIN seen[p]

\* Capacity does not leak away: a reservation in the file is somebody's, or its
\* process died.
NothingLeaks ==
    \A t \in DOMAIN file : t \in crashed \/ \E p \in Pids : held[p] = t

\* The file is exact: what it has is held or left by the dead, and what is held it has.
ReservationsAreExact == KeptWhileNeeded /\ NothingLeaks

\* A worker nobody waits for, because its controller died or was interrupted.
Orphans == {t \in workers : ~\E p \in Pids : held[p] = t /\ pc[p] = "running"}

\* "Heavy/full-scan experiments are [...] serialized across controller processes"
\* (docs/capability_matrix.md), as far as they are: workers nobody waits for any
\* more run on beside what their reservations no longer cover.
SerializedUpToOrphans ==
    /\ Cardinality({t \in workers \ Orphans : given[t].heavy}) <= Limits.heavy
    /\ Cardinality({t \in workers \ Orphans : given[t].scan}) <= Limits.scans

-----------------------------------------------------------------------------
\* What the scheduler implements: the estimates in the file are the bookings, and a
\* controller has its booking from the answer of reserve to that of release.
Booked == [t \in DOMAIN file |-> file[t].estimate]

Promised == INSTANCE Bookings WITH booked <- Booked, holds <- held

\* Reading the file, deciding and replacing it is one step to everyone else: no access
\* undoes another one, looks and refusals change nothing but what nobody holds any more.
ImplementsBookings == Promised!Spec

=============================================================================
