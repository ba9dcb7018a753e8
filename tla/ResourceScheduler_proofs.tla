---------------------- MODULE ResourceScheduler_proofs ----------------------
(***************************************************************************)
(* Proofs about ResourceScheduler, for every set of controllers, every     *)
(* capacity and every bound.                                               *)
(*                                                                         *)
(* A controller decides on what it read under the lock and replaces the    *)
(* whole file.  That is safe because of what holds while it is inside: it  *)
(* has the lock, what it read is still in the file, and no reservation     *)
(* somebody holds is missing from it (SeenOK).                             *)
(* So every access is one step of Bookings (Implements).                   *)
(***************************************************************************)
EXTENDS ResourceScheduler, Sums, SequenceTheorems

\* Places inside an access, and places at which a reservation is held.
Critical == {"reserving", "looking", "releasing"}
Holding == {"granted", "running", "release", "releasing"}

\* What the place of a controller says of its number, its reservation, its estimate
\* and the lock.
CtlOK ==
    \A p \in Pids :
        /\ alive[p] <=> pc[p] # "dead"
        /\ held[p] # NoToken <=> pc[p] \in Holding
        /\ pc[p] \in Holding \cup {"reserve", "reserving"} => want[p] \in Estimates
        /\ pc[p] \in Critical => lock = p

\* Tokens in use have been granted.
FreshOK ==
    /\ \A t \in DOMAIN file : t <= Len(given)
    /\ \A p \in Pids : held[p] <= Len(given)
    /\ Len(given) <= MaxReservations

\* What a controller holds is in the file as it was granted.
KeptOK ==
    \A p \in Pids : held[p] # NoToken =>
        /\ held[p] \in DOMAIN file
        /\ file[held[p]] = [pid |-> p, estimate |-> want[p]]
        /\ given[held[p]] = want[p]

\* What a controller inside an access has read is in the file, and all that is held
\* is in what it has read.
SeenOK ==
    \A p \in Pids : pc[p] \in Critical =>
        /\ DOMAIN seen[p] \subseteq DOMAIN file
        /\ \A t \in DOMAIN seen[p] : seen[p][t] = file[t]
        /\ \A q \in Pids : held[q] # NoToken => held[q] \in DOMAIN seen[p]

\* The limits on how many are reserved at once: heavy ones, light ones, full scans.
WithinCounts(state) ==
    /\ Count(state, "heavy") <= Limits.heavy
    /\ Cardinality(DOMAIN state) - Count(state, "heavy") <= Limits.light
    /\ Count(state, "scan") <= Limits.scans

\* The limits on how much of the machine they take together.
WithinTotals(state) ==
    /\ Total(state, "memory") <= Limits.memory
    /\ Total(state, "cores") <= Limits.cores
    /\ Total(state, "gpu") <= Limits.gpu

\* The inductive invariant.
IInv == TypeOK /\ CtlOK /\ FreshOK /\ KeptOK /\ SeenOK /\ NothingLeaks /\ WithinLimits

-----------------------------------------------------------------------------

\* The states of the file, by their domains.
LEMMA StatesAre ==
    ASSUME NEW f
    PROVE  f \in States <=> DOMAIN f \subseteq Tokens /\ f \in [DOMAIN f -> Reservations]
BY DEF States

\* Dropping the stale reservations leaves a state of the file.
LEMMA RemoveStaleType ==
    ASSUME TypeOK
    PROVE  /\ RemoveStale(file) \in States
           /\ DOMAIN RemoveStale(file) = {t \in DOMAIN file : alive[file[t].pid]}
           /\ \A t \in DOMAIN RemoveStale(file) : RemoveStale(file)[t] = file[t]
<1>1. DOMAIN file \subseteq Tokens /\ file \in [DOMAIN file -> Reservations]
    BY StatesAre DEF TypeOK
<1>2. DOMAIN RemoveStale(file) = {t \in DOMAIN file : alive[file[t].pid]}
    BY DEF RemoveStale, Restrict
<1>3. \A t \in DOMAIN RemoveStale(file) : RemoveStale(file)[t] = file[t]
    BY DEF RemoveStale, Restrict
<1>4. RemoveStale(file) \in [DOMAIN RemoveStale(file) -> Reservations]
    BY <1>1, <1>2 DEF RemoveStale, Restrict
<1>5. RemoveStale(file) \in States
    BY <1>1, <1>2, <1>4, StatesAre
<1>6. QED
    BY <1>2, <1>3, <1>5

\* A state without one of its reservations is a state.
LEMMA WithoutType ==
    ASSUME NEW f \in States, NEW t
    PROVE  /\ Restrict(f, DOMAIN f \ {t}) \in States
           /\ DOMAIN Restrict(f, DOMAIN f \ {t}) = DOMAIN f \ {t}
           /\ \A u \in DOMAIN f \ {t} : Restrict(f, DOMAIN f \ {t})[u] = f[u]
<1>1. DOMAIN f \subseteq Tokens /\ f \in [DOMAIN f -> Reservations]
    BY StatesAre
<1>2. /\ DOMAIN Restrict(f, DOMAIN f \ {t}) = DOMAIN f \ {t}
      /\ \A u \in DOMAIN f \ {t} : Restrict(f, DOMAIN f \ {t})[u] = f[u]
    BY DEF Restrict
<1>3. Restrict(f, DOMAIN f \ {t}) \in [DOMAIN f \ {t} -> Reservations]
    BY <1>1 DEF Restrict
<1>4. QED
    BY <1>1, <1>2, <1>3, StatesAre

\* The file with one reservation more.
With(f, token, res) == [t \in DOMAIN f \cup {token} |-> IF t = token THEN res ELSE f[t]]

\* It is a state.
LEMMA WithType ==
    ASSUME NEW f \in States, NEW token \in Tokens, NEW res \in Reservations
    PROVE  /\ With(f, token, res) \in States
           /\ DOMAIN With(f, token, res) = DOMAIN f \cup {token}
<1>1. DOMAIN f \subseteq Tokens /\ f \in [DOMAIN f -> Reservations]
    BY StatesAre
<1>2. DOMAIN With(f, token, res) = DOMAIN f \cup {token}
    BY DEF With
<1>3. With(f, token, res) \in [DOMAIN f \cup {token} -> Reservations]
    BY <1>1 DEF With
<1>4. QED
    BY <1>1, <1>2, <1>3, StatesAre

\* The file without a reservation.
LEMMA EmptyState == <<>> \in States
<1>1. <<>> \in [{} -> Reservations] /\ DOMAIN <<>> = {}
    OBVIOUS
<1>2. QED
    BY <1>1, StatesAre

\* The state a run starts in.
LEMMA InitIInv == Init => IInv
<1> SUFFICES ASSUME Init PROVE IInv
    OBVIOUS
<1>1. TypeOK
    BY EmptyState DEF Init, TypeOK, Tokens, NoToken
<1>2. CtlOK
    BY DEF Init, CtlOK, Holding, Critical
<1>3. DOMAIN file = {}
    BY DEF Init
<1>4. FreshOK
    BY <1>3, BoundAssumption DEF Init, FreshOK, NoToken
<1>5. KeptOK /\ SeenOK /\ NothingLeaks
    BY <1>3 DEF Init, KeptOK, SeenOK, NothingLeaks, Critical
<1>6. Count(file, "heavy") = 0 /\ Count(file, "scan") = 0
    BY <1>3, FS_EmptySet DEF Count
<1>7. WithinLimits
    <2>1. Total(file, "memory") = 0 /\ Total(file, "cores") = 0 /\ Total(file, "gpu") = 0
        BY <1>3, SumEmpty DEF Total
    <2>2. QED
        BY <1>3, <1>6, <2>1, FS_EmptySet, LimitAssumption DEF WithinLimits
<1>8. QED
    BY <1>1, <1>2, <1>4, <1>5, <1>7 DEF IInv

-----------------------------------------------------------------------------
\* A controller that decides has the lock, and nobody else is inside.
LEMMA Alone ==
    ASSUME IInv, NEW p \in Pids, pc[p] \in Critical
    PROVE  \A q \in Pids : pc[q] \in Critical => q = p
BY DEF IInv, CtlOK

\* A grant takes a token nobody has.
LEMMA GrantWrites ==
    ASSUME IInv, NEW p \in Pids, Grant(p)
    PROVE  /\ Len(given) + 1 \in Tokens
           /\ want[p] \in Estimates
           /\ [pid |-> p, estimate |-> want[p]] \in Reservations
           /\ file' = With(seen[p], Len(given) + 1, [pid |-> p, estimate |-> want[p]])
           /\ seen[p] \in States
<1>1. Len(given) \in Nat
    BY LenProperties DEF IInv, TypeOK
<1>2. want[p] \in Estimates /\ seen[p] \in States
    BY DEF IInv, TypeOK, CtlOK, Grant
<1>3. Len(given) + 1 \in Tokens
    BY <1>1, BoundAssumption DEF Grant, Tokens
<1>4. QED
    BY <1>2, <1>3 DEF Grant, Leave, With, Reservations

\* A release takes out the reservation that is held, which is there.
LEMMA ReleaseWrites ==
    ASSUME IInv, NEW p \in Pids, Release(p)
    PROVE  /\ held[p] \in DOMAIN seen[p]
           /\ seen[p] \in States
           /\ file' = Restrict(seen[p], DOMAIN seen[p] \ {held[p]})
<1>1. held[p] \in DOMAIN seen[p]
    BY DEF IInv, CtlOK, SeenOK, Release, Critical, Holding
<1>2. QED
    BY <1>1 DEF IInv, TypeOK, Release, Leave

\* Every step keeps the types.
LEMMA TypeStep ==
    ASSUME IInv, [Next]_vars
    PROVE  TypeOK'
<1> USE DEF IInv
<1>1. ASSUME NEW p \in Pids, NEW e \in Estimates, Ask(p, e) PROVE TypeOK'
    BY <1>1 DEF TypeOK, Ask
<1>2. ASSUME NEW p \in Pids, Look(p) PROVE TypeOK'
    BY <1>2 DEF TypeOK, Look
<1>3. ASSUME NEW p \in Pids, Enter(p) PROVE TypeOK'
    <2>1. RemoveStale(file) \in States
        BY RemoveStaleType
    <2>2. pc[p] \in {"reserve", "look", "release"}
        BY <1>3 DEF Enter, Inside
    <2>3. Inside[pc[p]] \in {"reserving", "looking", "releasing"}
        BY <2>2 DEF Inside
    <2>4. QED
        BY <1>3, <2>1, <2>3 DEF TypeOK, Enter
<1>4. ASSUME NEW p \in Pids, Looked(p) PROVE TypeOK'
    BY <1>4, EmptyState DEF TypeOK, Looked, Leave
<1>5. ASSUME NEW p \in Pids, Grant(p) PROVE TypeOK'
    <2> DEFINE token == Len(given) + 1
               res == [pid |-> p, estimate |-> want[p]]
    <2>0. token \in Tokens /\ res \in Reservations /\ seen[p] \in States /\ file' = With(seen[p], token, res)
        BY <1>5, GrantWrites
    <2> HIDE DEF token, res
    <2>1. file' \in States
        BY <2>0, WithType
    <2> USE DEF token, res
    <2>2. given' \in Seq(Estimates)
        BY <1>5, GrantWrites, AppendProperties DEF TypeOK, Grant
    <2>3. held' \in [Pids -> Tokens \cup {NoToken}]
        BY <1>5, GrantWrites DEF TypeOK, Grant, Leave
    <2>4. QED
        BY <1>5, <2>1, <2>2, <2>3, EmptyState DEF TypeOK, Grant, Leave
<1>6. ASSUME NEW p \in Pids, Deny(p) PROVE TypeOK'
    BY <1>6, EmptyState DEF TypeOK, Deny, Leave
<1>7. ASSUME NEW p \in Pids, Release(p) PROVE TypeOK'
    <2>0. seen[p] \in States /\ file' = Restrict(seen[p], DOMAIN seen[p] \ {held[p]})
        BY <1>7, ReleaseWrites
    <2>1. file' \in States
        BY <2>0, WithoutType
    <2>2. QED
        BY <1>7, <2>1, EmptyState DEF TypeOK, Release, Leave
<1>8. ASSUME NEW p \in Pids, Start(p) PROVE TypeOK'
    <2>1. held[p] \in Tokens
        BY <1>8 DEF TypeOK, CtlOK, Holding, Start
    <2>2. QED
        BY <1>8, <2>1 DEF TypeOK, Start
<1>9. ASSUME NEW p \in Pids, Raise(p) PROVE TypeOK'
    BY <1>9 DEF TypeOK, Raise
<1>10. ASSUME NEW p \in Pids, Finish(p) PROVE TypeOK'
    BY <1>10 DEF TypeOK, Finish
<1>11. ASSUME NEW p \in Pids, Interrupt(p) PROVE TypeOK'
    BY <1>11 DEF TypeOK, Interrupt
<1>12. ASSUME NEW p \in Pids, Die(p) PROVE TypeOK'
    BY <1>12, EmptyState DEF TypeOK, Die
<1>13. ASSUME NEW p \in Pids, Reuse(p) PROVE TypeOK'
    BY <1>13 DEF TypeOK, Reuse
<1>14. ASSUME NEW t \in workers, WorkerEnds(t) PROVE TypeOK'
    BY <1>14 DEF TypeOK, WorkerEnds
<1>15. CASE UNCHANGED vars
    BY <1>15 DEF TypeOK, vars
<1>16. QED
    BY <1>1, <1>2, <1>3, <1>4, <1>5, <1>6, <1>7, <1>8, <1>9, <1>10, <1>11, <1>12, <1>13, <1>14, <1>15 DEF Next, Access, Experiment

-----------------------------------------------------------------------------
\* Every controller comes to a place with what it needs there.
LEMMA CtlStep ==
    ASSUME IInv, [Next]_vars
    PROVE  CtlOK'
<1> USE DEF IInv
<1>1. ASSUME NEW p \in Pids, NEW e \in Estimates, Ask(p, e) PROVE CtlOK'
    BY <1>1 DEF CtlOK, TypeOK, Holding, Critical, Ask
<1>2. ASSUME NEW p \in Pids, Look(p) PROVE CtlOK'
    BY <1>2 DEF CtlOK, TypeOK, Holding, Critical, Look
<1>3. ASSUME NEW p \in Pids, Enter(p) PROVE CtlOK'
    BY <1>3, NobodyAssumption DEF CtlOK, TypeOK, Holding, Critical, Enter, Inside
<1>4. ASSUME NEW p \in Pids, Looked(p) PROVE CtlOK'
    BY <1>4, NobodyAssumption DEF CtlOK, TypeOK, Holding, Critical, Looked, Leave
<1>5. ASSUME NEW p \in Pids, Grant(p) PROVE CtlOK'
    <2>1. Len(given) \in Nat
        BY LenProperties DEF TypeOK
    <2>2. QED
        BY <1>5, <2>1, NobodyAssumption DEF CtlOK, TypeOK, Holding, Critical, Grant, Leave, NoToken
<1>6. ASSUME NEW p \in Pids, Deny(p) PROVE CtlOK'
    BY <1>6, NobodyAssumption DEF CtlOK, TypeOK, Holding, Critical, Deny, Leave
<1>7. ASSUME NEW p \in Pids, Release(p) PROVE CtlOK'
    BY <1>7, NobodyAssumption DEF CtlOK, TypeOK, Holding, Critical, Release, Leave
<1>8. ASSUME NEW p \in Pids, Start(p) PROVE CtlOK'
    BY <1>8 DEF CtlOK, TypeOK, Holding, Critical, Start
<1>9. ASSUME NEW p \in Pids, Raise(p) PROVE CtlOK'
    BY <1>9 DEF CtlOK, TypeOK, Holding, Critical, Raise
<1>10. ASSUME NEW p \in Pids, Finish(p) PROVE CtlOK'
    BY <1>10 DEF CtlOK, TypeOK, Holding, Critical, Finish
<1>11. ASSUME NEW p \in Pids, Interrupt(p) PROVE CtlOK'
    BY <1>11 DEF CtlOK, TypeOK, Holding, Critical, Interrupt
<1>12. ASSUME NEW p \in Pids, Die(p) PROVE CtlOK'
    BY <1>12, NobodyAssumption DEF CtlOK, TypeOK, Holding, Critical, Die
<1>13. ASSUME NEW p \in Pids, Reuse(p) PROVE CtlOK'
    BY <1>13 DEF CtlOK, TypeOK, Holding, Critical, Reuse
<1>14. ASSUME NEW t \in workers, WorkerEnds(t) PROVE CtlOK'
    BY <1>14 DEF CtlOK, TypeOK, Holding, Critical, WorkerEnds
<1>15. CASE UNCHANGED vars
    BY <1>15 DEF CtlOK, TypeOK, Holding, Critical, vars
<1>16. QED
    BY <1>1, <1>2, <1>3, <1>4, <1>5, <1>6, <1>7, <1>8,
       <1>9, <1>10, <1>11, <1>12, <1>13, <1>14, <1>15 DEF Next, Access, Experiment

\* The domains a grant and a release leave, and what is under the tokens.
LEMMA GrantShape ==
    ASSUME IInv, NEW p \in Pids, Grant(p)
    PROVE  /\ Len(given) \in Nat
           /\ DOMAIN file' = DOMAIN seen[p] \cup {Len(given) + 1}
           /\ file'[Len(given) + 1] = [pid |-> p, estimate |-> want[p]]
           /\ \A t \in DOMAIN seen[p] : file'[t] = seen[p][t] /\ t # Len(given) + 1
           /\ DOMAIN seen[p] \subseteq DOMAIN file
           /\ \A t \in DOMAIN seen[p] : seen[p][t] = file[t]
           /\ \A q \in Pids : held[q] # NoToken => held[q] \in DOMAIN seen[p]
<1>1. Len(given) \in Nat
    BY LenProperties DEF IInv, TypeOK
<1>2. /\ DOMAIN seen[p] \subseteq DOMAIN file
      /\ \A t \in DOMAIN seen[p] : seen[p][t] = file[t]
      /\ \A q \in Pids : held[q] # NoToken => held[q] \in DOMAIN seen[p]
    BY DEF IInv, SeenOK, Grant, Critical
<1>3. \A t \in DOMAIN seen[p] : t \in Nat /\ t <= Len(given)
    BY <1>2, StatesAre DEF IInv, TypeOK, FreshOK, Tokens
<1>4. file' = With(seen[p], Len(given) + 1, [pid |-> p, estimate |-> want[p]])
    BY GrantWrites
<1>5. QED
    BY <1>1, <1>2, <1>3, <1>4 DEF With

\* The same of a release.
LEMMA ReleaseShape ==
    ASSUME IInv, NEW p \in Pids, Release(p)
    PROVE  /\ DOMAIN file' = DOMAIN seen[p] \ {held[p]}
           /\ \A t \in DOMAIN file' : file'[t] = seen[p][t]
           /\ DOMAIN seen[p] \subseteq DOMAIN file
           /\ \A t \in DOMAIN seen[p] : seen[p][t] = file[t]
           /\ \A q \in Pids : held[q] # NoToken => held[q] \in DOMAIN seen[p]
<1>1. /\ DOMAIN seen[p] \subseteq DOMAIN file
      /\ \A t \in DOMAIN seen[p] : seen[p][t] = file[t]
      /\ \A q \in Pids : held[q] # NoToken => held[q] \in DOMAIN seen[p]
    BY DEF IInv, SeenOK, Release, Critical
<1>2. file' = Restrict(seen[p], DOMAIN seen[p] \ {held[p]})
    BY ReleaseWrites
<1>3. QED
    BY <1>1, <1>2 DEF Restrict

\* The file a look leaves is what was read.
LEMMA LookedShape ==
    ASSUME IInv, NEW p \in Pids, Looked(p)
    PROVE  /\ file' = seen[p]
           /\ DOMAIN seen[p] \subseteq DOMAIN file
           /\ \A t \in DOMAIN seen[p] : seen[p][t] = file[t]
           /\ \A q \in Pids : held[q] # NoToken => held[q] \in DOMAIN seen[p]
BY DEF IInv, SeenOK, Looked, Leave, Critical

\* No two controllers hold the same reservation.
LEMMA HeldByOne ==
    ASSUME IInv, NEW p \in Pids, NEW q \in Pids, held[p] = held[q], held[p] # NoToken
    PROVE  p = q
<1>1. file[held[p]] = [pid |-> p, estimate |-> want[p]] /\ file[held[q]] = [pid |-> q, estimate |-> want[q]]
    BY DEF IInv, KeptOK
<1>2. file[held[p]].pid = p /\ file[held[q]].pid = q
    BY <1>1
<1>3. QED
    BY <1>2

\* A grant uses the next token, and no step another one.
LEMMA FreshStep ==
    ASSUME IInv, [Next]_vars
    PROVE  FreshOK'
<1> USE DEF IInv
<1>1. ASSUME NEW p \in Pids, NEW e \in Estimates, Ask(p, e) PROVE FreshOK'
    BY <1>1 DEF FreshOK, Ask
<1>2. ASSUME NEW p \in Pids, Look(p) PROVE FreshOK'
    BY <1>2 DEF FreshOK, Look
<1>3. ASSUME NEW p \in Pids, Enter(p) PROVE FreshOK'
    BY <1>3 DEF FreshOK, Enter
<1>4. ASSUME NEW p \in Pids, Looked(p) PROVE FreshOK'
    BY <1>4, LookedShape DEF FreshOK, Looked, Leave
<1>5. ASSUME NEW p \in Pids, Grant(p) PROVE FreshOK'
    <2>1. Len(given') = Len(given) + 1
        BY <1>5, GrantWrites, AppendProperties DEF TypeOK, Grant
    <2>a. /\ Len(given) \in Nat
          /\ DOMAIN file' = DOMAIN seen[p] \cup {Len(given) + 1}
          /\ DOMAIN seen[p] \subseteq DOMAIN file
        BY <1>5, GrantShape
    <2>b. \A t \in DOMAIN file : t \in Nat /\ t <= Len(given)
        BY StatesAre DEF TypeOK, FreshOK, Tokens
    <2>2. \A t \in DOMAIN file' : t <= Len(given) + 1
        <3>1. SUFFICES ASSUME NEW t \in DOMAIN file' PROVE t <= Len(given) + 1
            OBVIOUS
        <3>2. CASE t \in DOMAIN seen[p]
            <4>1. t \in Nat /\ t <= Len(given)
                BY <2>a, <2>b, <3>2
            <4>2. QED
                BY <2>a, <4>1
        <3>3. CASE t = Len(given) + 1
            BY <2>a, <3>3
        <3>4. QED
            BY <2>a, <3>2, <3>3
    <2>3. \A q \in Pids : held'[q] <= Len(given) + 1
        BY <1>5, <2>a DEF TypeOK, FreshOK, Grant, Tokens, NoToken
    <2>4. QED
        BY <1>5, <2>a, <2>1, <2>2, <2>3, BoundAssumption DEF FreshOK, Grant
<1>6. ASSUME NEW p \in Pids, Deny(p) PROVE FreshOK'
    BY <1>6 DEF FreshOK, Deny, Leave
<1>7. ASSUME NEW p \in Pids, Release(p) PROVE FreshOK'
    <2>1. Len(given) \in Nat
        BY LenProperties DEF TypeOK
    <2>2. DOMAIN file' = DOMAIN seen[p] \ {held[p]} /\ DOMAIN seen[p] \subseteq DOMAIN file
        BY <1>7, ReleaseShape
    <2>3. given' = given
        BY <1>7 DEF Release
    <2>4. \A t \in DOMAIN file' : t <= Len(given')
        BY <2>2, <2>3 DEF FreshOK
    <2>5. \A q \in Pids : held'[q] <= Len(given')
        BY <1>7, <2>1, <2>3 DEF FreshOK, TypeOK, Release, NoToken
    <2>6. QED
        BY <2>3, <2>4, <2>5 DEF FreshOK
<1>8. ASSUME NEW p \in Pids, Start(p) PROVE FreshOK'
    BY <1>8 DEF FreshOK, Start
<1>9. ASSUME NEW p \in Pids, Raise(p) PROVE FreshOK'
    BY <1>9 DEF FreshOK, Raise
<1>10. ASSUME NEW p \in Pids, Finish(p) PROVE FreshOK'
    BY <1>10 DEF FreshOK, Finish
<1>11. ASSUME NEW p \in Pids, Interrupt(p) PROVE FreshOK'
    BY <1>11 DEF FreshOK, Interrupt
<1>12. ASSUME NEW p \in Pids, Die(p) PROVE FreshOK'
    <2>1. Len(given) \in Nat
        BY LenProperties DEF TypeOK
    <2>2. QED
        BY <1>12, <2>1 DEF FreshOK, TypeOK, Die, NoToken
<1>13. ASSUME NEW p \in Pids, Reuse(p) PROVE FreshOK'
    BY <1>13 DEF FreshOK, Reuse
<1>14. ASSUME NEW t \in workers, WorkerEnds(t) PROVE FreshOK'
    BY <1>14 DEF FreshOK, WorkerEnds
<1>15. CASE UNCHANGED vars
    BY <1>15 DEF FreshOK, vars
<1>16. QED
    BY <1>1, <1>2, <1>3, <1>4, <1>5, <1>6, <1>7, <1>8,
       <1>9, <1>10, <1>11, <1>12, <1>13, <1>14, <1>15 DEF Next, Access, Experiment

\* Nobody takes away or changes what another controller holds.
LEMMA KeptStep ==
    ASSUME IInv, [Next]_vars
    PROVE  KeptOK'
<1> USE DEF IInv
<1>1. ASSUME NEW p \in Pids, NEW e \in Estimates, Ask(p, e) PROVE KeptOK'
    BY <1>1 DEF KeptOK, CtlOK, TypeOK, Holding, Ask
<1>2. ASSUME NEW p \in Pids, Look(p) PROVE KeptOK'
    BY <1>2 DEF KeptOK, CtlOK, TypeOK, Holding, Look
<1>3. ASSUME NEW p \in Pids, Enter(p) PROVE KeptOK'
    BY <1>3 DEF KeptOK, CtlOK, TypeOK, Holding, Enter
<1>4. ASSUME NEW p \in Pids, Looked(p) PROVE KeptOK'
    BY <1>4, LookedShape DEF KeptOK, Looked
<1>5. ASSUME NEW p \in Pids, Grant(p) PROVE KeptOK'
    <2>1. given' = Append(given, want[p]) /\ given \in Seq(Estimates) /\ want[p] \in Estimates
        BY <1>5, GrantWrites DEF TypeOK, Grant
    <2>2. /\ given'[Len(given) + 1] = want[p]
          /\ \A n \in 1..Len(given) : given'[n] = given[n]
        BY <2>1, AppendProperties
    <2>3. \A q \in Pids \ {p} : held'[q] = held[q] /\ (held[q] # NoToken => held[q] \in 1..Len(given))
        BY <1>5 DEF Grant, TypeOK, FreshOK, Tokens, NoToken
    <2>4. held'[p] = Len(given) + 1 /\ want' = want
        BY <1>5 DEF Grant, TypeOK
    <2>5. /\ Len(given) \in Nat
          /\ DOMAIN file' = DOMAIN seen[p] \cup {Len(given) + 1}
          /\ file'[Len(given) + 1] = [pid |-> p, estimate |-> want[p]]
          /\ \A t \in DOMAIN seen[p] : file'[t] = seen[p][t] /\ seen[p][t] = file[t]
          /\ \A q \in Pids : held[q] # NoToken => held[q] \in DOMAIN seen[p]
        BY <1>5, GrantShape
    <2>6. SUFFICES ASSUME NEW q \in Pids, held'[q] # NoToken
                   PROVE  /\ held'[q] \in DOMAIN file'
                          /\ file'[held'[q]] = [pid |-> q, estimate |-> want'[q]]
                          /\ given'[held'[q]] = want'[q]
        BY DEF KeptOK
    <2>7. CASE q = p
        BY <2>2, <2>4, <2>5, <2>7
    <2>8. CASE q # p
        <3>1. held'[q] = held[q] /\ held[q] \in 1..Len(given) /\ held[q] \in DOMAIN seen[p]
            BY <2>3, <2>5, <2>6, <2>8
        <3>2. file[held[q]] = [pid |-> q, estimate |-> want[q]] /\ given[held[q]] = want[q]
            BY <2>6, <3>1 DEF KeptOK
        <3>3. file'[held[q]] = file[held[q]] /\ held[q] \in DOMAIN file' /\ given'[held[q]] = given[held[q]]
            BY <2>2, <2>5, <3>1
        <3>4. QED
            BY <2>4, <3>1, <3>2, <3>3
    <2>9. QED
        BY <2>7, <2>8
<1>6. ASSUME NEW p \in Pids, Deny(p) PROVE KeptOK'
    BY <1>6 DEF KeptOK, CtlOK, TypeOK, Holding, Deny, Leave
<1>7. ASSUME NEW p \in Pids, Release(p) PROVE KeptOK'
    <2>1. \A q \in Pids \ {p} : held'[q] = held[q] /\ want'[q] = want[q]
        BY <1>7 DEF Release, TypeOK
    <2>2. held'[p] = NoToken /\ given' = given
        BY <1>7 DEF Release, TypeOK
    <2>3. \A q \in Pids \ {p} : held[q] # NoToken => held[q] # held[p]
        BY HeldByOne
    <2>4. /\ DOMAIN file' = DOMAIN seen[p] \ {held[p]}
          /\ \A t \in DOMAIN file' : file'[t] = seen[p][t]
          /\ \A t \in DOMAIN seen[p] : seen[p][t] = file[t]
          /\ \A q \in Pids : held[q] # NoToken => held[q] \in DOMAIN seen[p]
        BY <1>7, ReleaseShape
    <2>5. SUFFICES ASSUME NEW q \in Pids, held'[q] # NoToken
                   PROVE  /\ held'[q] \in DOMAIN file'
                          /\ file'[held'[q]] = [pid |-> q, estimate |-> want'[q]]
                          /\ given'[held'[q]] = want'[q]
        BY DEF KeptOK
    <2>6. held'[q] = held[q] /\ want'[q] = want[q] /\ held[q] # held[p] /\ held[q] \in DOMAIN seen[p]
        BY <2>1, <2>2, <2>3, <2>4, <2>5
    <2>7. file[held[q]] = [pid |-> q, estimate |-> want[q]] /\ given[held[q]] = want[q]
        BY <2>5, <2>6 DEF KeptOK
    <2>8. file'[held[q]] = file[held[q]] /\ held[q] \in DOMAIN file'
        BY <2>4, <2>6
    <2>9. QED
        BY <2>2, <2>6, <2>7, <2>8
<1>8. ASSUME NEW p \in Pids, Start(p) PROVE KeptOK'
    BY <1>8 DEF KeptOK, CtlOK, TypeOK, Holding, Start
<1>9. ASSUME NEW p \in Pids, Raise(p) PROVE KeptOK'
    BY <1>9 DEF KeptOK, CtlOK, TypeOK, Holding, Raise
<1>10. ASSUME NEW p \in Pids, Finish(p) PROVE KeptOK'
    BY <1>10 DEF KeptOK, CtlOK, TypeOK, Holding, Finish
<1>11. ASSUME NEW p \in Pids, Interrupt(p) PROVE KeptOK'
    BY <1>11 DEF KeptOK, CtlOK, TypeOK, Holding, Interrupt
<1>12. ASSUME NEW p \in Pids, Die(p) PROVE KeptOK'
    BY <1>12 DEF KeptOK, CtlOK, TypeOK, Holding, Die
<1>13. ASSUME NEW p \in Pids, Reuse(p) PROVE KeptOK'
    BY <1>13 DEF KeptOK, CtlOK, TypeOK, Holding, Reuse
<1>14. ASSUME NEW t \in workers, WorkerEnds(t) PROVE KeptOK'
    BY <1>14 DEF KeptOK, CtlOK, TypeOK, Holding, WorkerEnds
<1>15. CASE UNCHANGED vars
    BY <1>15 DEF KeptOK, CtlOK, TypeOK, Holding, vars
<1>16. QED
    BY <1>1, <1>2, <1>3, <1>4, <1>5, <1>6, <1>7, <1>8,
       <1>9, <1>10, <1>11, <1>12, <1>13, <1>14, <1>15 DEF Next, Access, Experiment

\* What a controller inside an access has read stays true.
LEMMA SeenStep ==
    ASSUME IInv, [Next]_vars
    PROVE  SeenOK'
<1> USE DEF IInv
<1>1. ASSUME NEW p \in Pids, NEW e \in Estimates, Ask(p, e) PROVE SeenOK'
    BY <1>1 DEF SeenOK, CtlOK, TypeOK, Critical, Ask
<1>2. ASSUME NEW p \in Pids, Look(p) PROVE SeenOK'
    BY <1>2 DEF SeenOK, CtlOK, TypeOK, Critical, Look
<1>3. ASSUME NEW p \in Pids, Enter(p) PROVE SeenOK'
    <2>1. \A q \in Pids : pc[q] \notin Critical
        BY <1>3, NobodyAssumption DEF CtlOK, Enter
    <2>2. \A q \in Pids : held[q] # NoToken => held[q] \in DOMAIN RemoveStale(file)
        <3>1. SUFFICES ASSUME NEW q \in Pids, held[q] # NoToken PROVE held[q] \in DOMAIN RemoveStale(file)
            OBVIOUS
        <3>2. held[q] \in DOMAIN file /\ file[held[q]] = [pid |-> q, estimate |-> want[q]]
            BY <3>1 DEF KeptOK
        <3>3. file[held[q]].pid = q
            BY <3>2
        <3>4. alive[q]
            BY <3>1 DEF CtlOK, Holding
        <3>5. DOMAIN RemoveStale(file) = {t \in DOMAIN file : alive[file[t].pid]}
            BY RemoveStaleType
        <3>6. QED
            BY <3>2, <3>3, <3>4, <3>5
    <2>3. seen'[p] = RemoveStale(file) /\ file' = file /\ held' = held
        BY <1>3 DEF Enter, TypeOK
    <2>4. \A q \in Pids \ {p} : pc'[q] = pc[q]
        BY <1>3 DEF Enter, TypeOK
    <2>5. QED
        BY <2>1, <2>2, <2>3, <2>4, RemoveStaleType DEF SeenOK
<1>4. ASSUME NEW p \in Pids, Looked(p) PROVE SeenOK'
    BY <1>4, Alone DEF SeenOK, CtlOK, TypeOK, Critical, Looked, Leave
<1>5. ASSUME NEW p \in Pids, Grant(p) PROVE SeenOK'
    BY <1>5, Alone DEF SeenOK, CtlOK, TypeOK, Critical, Grant, Leave
<1>6. ASSUME NEW p \in Pids, Deny(p) PROVE SeenOK'
    BY <1>6, Alone DEF SeenOK, CtlOK, TypeOK, Critical, Deny, Leave
<1>7. ASSUME NEW p \in Pids, Release(p) PROVE SeenOK'
    BY <1>7, Alone DEF SeenOK, CtlOK, TypeOK, Critical, Release, Leave
<1>8. ASSUME NEW p \in Pids, Start(p) PROVE SeenOK'
    BY <1>8 DEF SeenOK, CtlOK, TypeOK, Critical, Start
<1>9. ASSUME NEW p \in Pids, Raise(p) PROVE SeenOK'
    BY <1>9 DEF SeenOK, CtlOK, TypeOK, Critical, Raise
<1>10. ASSUME NEW p \in Pids, Finish(p) PROVE SeenOK'
    BY <1>10 DEF SeenOK, CtlOK, TypeOK, Critical, Finish
<1>11. ASSUME NEW p \in Pids, Interrupt(p) PROVE SeenOK'
    BY <1>11 DEF SeenOK, CtlOK, TypeOK, Critical, Interrupt
<1>12. ASSUME NEW p \in Pids, Die(p) PROVE SeenOK'
    BY <1>12 DEF SeenOK, CtlOK, TypeOK, Critical, Die, NoToken
<1>13. ASSUME NEW p \in Pids, Reuse(p) PROVE SeenOK'
    BY <1>13 DEF SeenOK, CtlOK, TypeOK, Critical, Reuse
<1>14. ASSUME NEW t \in workers, WorkerEnds(t) PROVE SeenOK'
    BY <1>14 DEF SeenOK, CtlOK, TypeOK, Critical, WorkerEnds
<1>15. CASE UNCHANGED vars
    BY <1>15 DEF SeenOK, CtlOK, TypeOK, Critical, vars
<1>16. QED
    BY <1>1, <1>2, <1>3, <1>4, <1>5, <1>6, <1>7, <1>8,
       <1>9, <1>10, <1>11, <1>12, <1>13, <1>14, <1>15 DEF Next, Access, Experiment

\* A reservation leaves its holder only by release or death.
LEMMA LeakStep ==
    ASSUME IInv, [Next]_vars
    PROVE  NothingLeaks'
<1> USE DEF IInv
<1>1. ASSUME NEW p \in Pids, NEW e \in Estimates, Ask(p, e) PROVE NothingLeaks'
    BY <1>1 DEF NothingLeaks, TypeOK, Ask
<1>2. ASSUME NEW p \in Pids, Look(p) PROVE NothingLeaks'
    BY <1>2 DEF NothingLeaks, TypeOK, Look
<1>3. ASSUME NEW p \in Pids, Enter(p) PROVE NothingLeaks'
    BY <1>3 DEF NothingLeaks, TypeOK, Enter
<1>4. ASSUME NEW p \in Pids, Looked(p) PROVE NothingLeaks'
    BY <1>4, LookedShape DEF NothingLeaks, Looked
<1>5. ASSUME NEW p \in Pids, Grant(p) PROVE NothingLeaks'
    <2>1. \A q \in Pids \ {p} : held'[q] = held[q]
        BY <1>5 DEF Grant, TypeOK
    <2>2. held[p] = NoToken /\ held'[p] = Len(given) + 1 /\ crashed' = crashed
        BY <1>5 DEF Grant, TypeOK, CtlOK, Holding
    <2>3. NoToken \notin DOMAIN file
        BY StatesAre DEF TypeOK, Tokens, NoToken
    <2>4. DOMAIN file' = DOMAIN seen[p] \cup {Len(given) + 1} /\ DOMAIN seen[p] \subseteq DOMAIN file
        BY <1>5, GrantShape
    <2>5. SUFFICES ASSUME NEW t \in DOMAIN file' PROVE t \in crashed' \/ \E q \in Pids : held'[q] = t
        BY DEF NothingLeaks
    <2>6. CASE t = Len(given) + 1
        BY <2>2, <2>6
    <2>7. CASE t \in DOMAIN file
        <3>1. t # held[p]
            BY <2>2, <2>3, <2>7
        <3>2. t \in crashed \/ \E q \in Pids : held[q] = t
            BY <2>7 DEF NothingLeaks
        <3>3. QED
            BY <2>1, <2>2, <3>1, <3>2
    <2>8. QED
        BY <2>4, <2>6, <2>7
<1>6. ASSUME NEW p \in Pids, Deny(p) PROVE NothingLeaks'
    BY <1>6 DEF NothingLeaks, TypeOK, Deny, Leave
<1>7. ASSUME NEW p \in Pids, Release(p) PROVE NothingLeaks'
    <2>1. \A q \in Pids \ {p} : held'[q] = held[q]
        BY <1>7 DEF Release, TypeOK
    <2>2. crashed' = crashed
        BY <1>7 DEF Release
    <2>3. DOMAIN file' = DOMAIN seen[p] \ {held[p]} /\ DOMAIN seen[p] \subseteq DOMAIN file
        BY <1>7, ReleaseShape
    <2>4. SUFFICES ASSUME NEW t \in DOMAIN file' PROVE t \in crashed' \/ \E q \in Pids : held'[q] = t
        BY DEF NothingLeaks
    <2>5. t # held[p] /\ (t \in crashed \/ \E q \in Pids : held[q] = t)
        BY <2>3, <2>4 DEF NothingLeaks
    <2>6. QED
        BY <2>1, <2>2, <2>5
<1>8. ASSUME NEW p \in Pids, Start(p) PROVE NothingLeaks'
    BY <1>8 DEF NothingLeaks, TypeOK, Start
<1>9. ASSUME NEW p \in Pids, Raise(p) PROVE NothingLeaks'
    BY <1>9 DEF NothingLeaks, TypeOK, Raise
<1>10. ASSUME NEW p \in Pids, Finish(p) PROVE NothingLeaks'
    BY <1>10 DEF NothingLeaks, TypeOK, Finish
<1>11. ASSUME NEW p \in Pids, Interrupt(p) PROVE NothingLeaks'
    BY <1>11 DEF NothingLeaks, TypeOK, Interrupt
<1>12. ASSUME NEW p \in Pids, Die(p) PROVE NothingLeaks'
    <2>1. \A q \in Pids \ {p} : held'[q] = held[q]
        BY <1>12 DEF Die, TypeOK
    <2>2. file' = file /\ crashed' = crashed \cup ({held[p]} \ {NoToken})
        BY <1>12 DEF Die
    <2>3. NoToken \notin DOMAIN file
        BY StatesAre DEF TypeOK, Tokens, NoToken
    <2>4. QED
        BY <2>1, <2>2, <2>3 DEF NothingLeaks
<1>13. ASSUME NEW p \in Pids, Reuse(p) PROVE NothingLeaks'
    BY <1>13 DEF NothingLeaks, TypeOK, Reuse
<1>14. ASSUME NEW t \in workers, WorkerEnds(t) PROVE NothingLeaks'
    BY <1>14 DEF NothingLeaks, TypeOK, WorkerEnds
<1>15. CASE UNCHANGED vars
    BY <1>15 DEF NothingLeaks, TypeOK, vars
<1>16. QED
    BY <1>1, <1>2, <1>3, <1>4, <1>5, <1>6, <1>7, <1>8,
       <1>9, <1>10, <1>11, <1>12, <1>13, <1>14, <1>15 DEF Next, Access, Experiment

-----------------------------------------------------------------------------
\* The reservations that are heavy, or scan; and those that are not heavy.
Chosen(f, field) == {t \in DOMAIN f : f[t].estimate[field]}
Light(f) == DOMAIN f \ Chosen(f, "heavy")

\* The counts are numbers of reservations.
LEMMA CountsAre ==
    ASSUME NEW f \in States
    PROVE  /\ IsFiniteSet(Chosen(f, "heavy")) /\ Count(f, "heavy") = Cardinality(Chosen(f, "heavy"))
           /\ IsFiniteSet(Chosen(f, "scan")) /\ Count(f, "scan") = Cardinality(Chosen(f, "scan"))
           /\ IsFiniteSet(Light(f))
           /\ Cardinality(DOMAIN f) - Count(f, "heavy") = Cardinality(Light(f))
<1>1. IsFiniteSet(Tokens)
    <2>1. MaxReservations \in Int
        BY BoundAssumption
    <2>2. QED
        BY <2>1, FS_Interval DEF Tokens
<1>2. IsFiniteSet(DOMAIN f)
    BY <1>1, StatesAre, FS_Subset
<1>3. /\ Chosen(f, "heavy") \in SUBSET DOMAIN f
      /\ Chosen(f, "scan") \in SUBSET DOMAIN f
      /\ Light(f) \in SUBSET DOMAIN f
    BY DEF Chosen, Light
<1>4. IsFiniteSet(Chosen(f, "heavy")) /\ IsFiniteSet(Chosen(f, "scan")) /\ IsFiniteSet(Light(f))
    BY <1>2, <1>3, FS_Subset
<1>5. /\ Count(f, "heavy") = Cardinality(Chosen(f, "heavy"))
      /\ Count(f, "scan") = Cardinality(Chosen(f, "scan"))
    BY DEF Count, Chosen
<1>6. Cardinality(DOMAIN f) = Cardinality(Light(f)) + Cardinality(Chosen(f, "heavy"))
    <2>1. DOMAIN f = Light(f) \cup Chosen(f, "heavy") /\ Light(f) \cap Chosen(f, "heavy") = {}
        BY <1>3 DEF Light
    <2>2. Cardinality(Light(f) \cap Chosen(f, "heavy")) = 0
        BY <2>1, FS_EmptySet
    <2>3. Cardinality(Light(f) \cup Chosen(f, "heavy")) =
              Cardinality(Light(f)) + Cardinality(Chosen(f, "heavy"))
              - Cardinality(Light(f) \cap Chosen(f, "heavy"))
        BY <1>4, FS_Union
    <2>4. Cardinality(Light(f)) \in Nat /\ Cardinality(Chosen(f, "heavy")) \in Nat
        BY <1>4, FS_CardinalityType
    <2>5. QED
        BY <2>1, <2>2, <2>3, <2>4
<1>7. Cardinality(Light(f)) \in Nat /\ Cardinality(Chosen(f, "heavy")) \in Nat
    BY <1>4, FS_CardinalityType
<1>8. QED
    BY <1>4, <1>5, <1>6, <1>7

\* Fewer reservations stay within the limits.
LEMMA FewerCount ==
    ASSUME NEW f \in States, NEW g \in States, WithinCounts(f),
           DOMAIN g \subseteq DOMAIN f, \A t \in DOMAIN g : g[t] = f[t]
    PROVE  WithinCounts(g)
<1>1. /\ Chosen(g, "heavy") \in SUBSET Chosen(f, "heavy")
      /\ Chosen(g, "scan") \in SUBSET Chosen(f, "scan")
      /\ Light(g) \in SUBSET Light(f)
    BY DEF Chosen, Light
<1>2. /\ Cardinality(Chosen(g, "heavy")) <= Cardinality(Chosen(f, "heavy"))
      /\ Cardinality(Chosen(g, "scan")) <= Cardinality(Chosen(f, "scan"))
      /\ Cardinality(Light(g)) <= Cardinality(Light(f))
    BY <1>1, CountsAre, FS_Subset
<1>3. /\ Cardinality(Chosen(g, "heavy")) \in Nat /\ Cardinality(Chosen(f, "heavy")) \in Nat
      /\ Cardinality(Chosen(g, "scan")) \in Nat /\ Cardinality(Chosen(f, "scan")) \in Nat
      /\ Cardinality(Light(g)) \in Nat /\ Cardinality(Light(f)) \in Nat
    BY CountsAre, FS_CardinalityType
<1>4. /\ Count(g, "heavy") <= Count(f, "heavy") /\ Count(g, "scan") <= Count(f, "scan")
      /\ Cardinality(DOMAIN g) - Count(g, "heavy") <= Cardinality(DOMAIN f) - Count(f, "heavy")
    BY <1>2, CountsAre
<1>5. /\ Count(g, "heavy") \in Nat /\ Count(f, "heavy") \in Nat
      /\ Count(g, "scan") \in Nat /\ Count(f, "scan") \in Nat
      /\ Cardinality(DOMAIN g) - Count(g, "heavy") \in Nat
      /\ Cardinality(DOMAIN f) - Count(f, "heavy") \in Nat
    BY <1>3, CountsAre
<1>6. Limits.heavy \in Nat /\ Limits.light \in Nat /\ Limits.scans \in Nat
    BY LimitAssumption
<1> DEFINE fl == Cardinality(DOMAIN f) - Count(f, "heavy")
           gl == Cardinality(DOMAIN g) - Count(g, "heavy")
<1>7. gl <= fl /\ gl \in Nat /\ fl \in Nat /\ fl <= Limits.light
    BY <1>4, <1>5 DEF WithinCounts
<1> HIDE DEF fl, gl
<1>8. gl <= Limits.light
    BY <1>6, <1>7
<1>9. Count(g, "heavy") <= Limits.heavy /\ Count(g, "scan") <= Limits.scans
    BY <1>4, <1>5, <1>6 DEF WithinCounts
<1>10. QED
    BY <1>8, <1>9 DEF gl, WithinCounts

\* One more that fits does too.
LEMMA OneMoreCounts ==
    ASSUME NEW f \in States, NEW g \in States, NEW n, NEW e \in Estimates,
           WithinCounts(f), Fits(e, f),
           n \notin DOMAIN f, DOMAIN g = DOMAIN f \cup {n},
           \A t \in DOMAIN f : g[t] = f[t], g[n].estimate = e
    PROVE  WithinCounts(g)
<1>1. e.heavy \in BOOLEAN /\ e.scan \in BOOLEAN
    BY EstimateAssumption
<1>2. /\ Chosen(g, "heavy") = IF e.heavy THEN Chosen(f, "heavy") \cup {n} ELSE Chosen(f, "heavy")
      /\ Chosen(g, "scan") = IF e.scan THEN Chosen(f, "scan") \cup {n} ELSE Chosen(f, "scan")
    BY <1>1 DEF Chosen
<1>3. Light(g) = IF e.heavy THEN Light(f) ELSE Light(f) \cup {n}
    BY <1>1, <1>2 DEF Light, Chosen
<1>4. n \notin Chosen(f, "heavy") /\ n \notin Chosen(f, "scan") /\ n \notin Light(f)
    BY DEF Chosen, Light
<1>5. /\ Cardinality(Chosen(f, "heavy") \cup {n}) = Cardinality(Chosen(f, "heavy")) + 1
      /\ Cardinality(Chosen(f, "scan") \cup {n}) = Cardinality(Chosen(f, "scan")) + 1
      /\ Cardinality(Light(f) \cup {n}) = Cardinality(Light(f)) + 1
    BY <1>4, CountsAre, FS_AddElement
<1>6. Cardinality(Chosen(f, "heavy")) \in Nat /\ Cardinality(Chosen(f, "scan")) \in Nat /\ Cardinality(Light(f)) \in Nat
    BY CountsAre, FS_CardinalityType
<1>7. Limits.heavy \in Nat /\ Limits.light \in Nat /\ Limits.scans \in Nat
    BY LimitAssumption
<1> DEFINE h == Cardinality(Chosen(f, "heavy"))
           l == Cardinality(Light(f))
           sc == Cardinality(Chosen(f, "scan"))
           h2 == Cardinality(Chosen(g, "heavy"))
           l2 == Cardinality(Light(g))
           sc2 == Cardinality(Chosen(g, "scan"))
<1>8. /\ h <= Limits.heavy /\ l <= Limits.light /\ sc <= Limits.scans
      /\ e.heavy => h < Limits.heavy
      /\ ~e.heavy => l < Limits.light
      /\ e.scan => sc < Limits.scans
    BY <1>1, CountsAre DEF WithinCounts, Fits
<1>9. /\ h2 = IF e.heavy THEN h + 1 ELSE h
      /\ l2 = IF e.heavy THEN l ELSE l + 1
      /\ sc2 = IF e.scan THEN sc + 1 ELSE sc
    BY <1>1, <1>2, <1>3, <1>5
<1>10. h \in Nat /\ l \in Nat /\ sc \in Nat
    BY <1>6
<1> HIDE DEF h, l, sc, h2, l2, sc2
<1>11. h2 <= Limits.heavy /\ l2 <= Limits.light /\ sc2 <= Limits.scans
    BY <1>1, <1>7, <1>8, <1>9, <1>10
<1>12. QED
    BY <1>11, CountsAre DEF WithinCounts, h2, l2, sc2

\* What the reservations of a state take of one kind.
Shares(f, field) == [t \in DOMAIN f |-> f[t].estimate[field]]
Quantities == {"memory", "cores", "gpu"}

\* A total is the sum of finitely many shares, all naturals.
LEMMA TotalsAre ==
    ASSUME NEW f \in States, NEW field \in Quantities
    PROVE  /\ IsFiniteSet(DOMAIN f)
           /\ \A t \in DOMAIN f : Shares(f, field)[t] \in Nat
           /\ Total(f, field) = SumFunctionOnSet(Shares(f, field), DOMAIN f)
           /\ Total(f, field) \in Nat
<1>1. IsFiniteSet(DOMAIN f)
    <2>1. MaxReservations \in Int
        BY BoundAssumption
    <2>2. IsFiniteSet(Tokens)
        BY <2>1, FS_Interval DEF Tokens
    <2>3. QED
        BY <2>2, StatesAre, FS_Subset
<1>2. ASSUME NEW t \in DOMAIN f PROVE Shares(f, field)[t] \in Nat
    <2>1. f[t].estimate \in Estimates
        BY <1>2, StatesAre DEF Reservations
    <2>2. f[t].estimate[field] \in Nat
        BY <2>1, EstimateAssumption DEF Quantities
    <2>3. QED
        BY <1>2, <2>2 DEF Shares
<1>3. Total(f, field) = SumFunctionOnSet(Shares(f, field), DOMAIN f)
    BY DEF Total, Shares
<1>4. SumFunctionOnSet(Shares(f, field), DOMAIN f) \in Nat
    BY <1>1, <1>2, SumNat
<1>5. QED
    BY <1>1, <1>2, <1>3, <1>4

\* Fewer reservations take no more.
LEMMA FewerTotal ==
    ASSUME NEW f \in States, NEW g \in States, NEW field \in Quantities,
           DOMAIN g \subseteq DOMAIN f, \A t \in DOMAIN g : g[t] = f[t]
    PROVE  Total(g, field) <= Total(f, field)
<1>1. \A t \in DOMAIN g : Shares(f, field)[t] = Shares(g, field)[t]
    BY DEF Shares
<1>2. /\ IsFiniteSet(DOMAIN g) /\ \A t \in DOMAIN g : Shares(g, field)[t] \in Nat
      /\ Total(g, field) = SumFunctionOnSet(Shares(g, field), DOMAIN g)
    BY TotalsAre
<1>3. /\ IsFiniteSet(DOMAIN f) /\ \A t \in DOMAIN f : Shares(f, field)[t] \in Nat
      /\ Total(f, field) = SumFunctionOnSet(Shares(f, field), DOMAIN f)
    BY TotalsAre
<1>4. SumFunctionOnSet(Shares(f, field), DOMAIN g) = SumFunctionOnSet(Shares(g, field), DOMAIN g)
    BY <1>1, <1>2, SumAgree
<1>5. DOMAIN g \in SUBSET DOMAIN f
    OBVIOUS
<1>6. SumFunctionOnSet(Shares(f, field), DOMAIN g) <= SumFunctionOnSet(Shares(f, field), DOMAIN f)
    BY <1>3, <1>5, SumOfPart
<1>7. QED
    BY <1>2, <1>3, <1>4, <1>6

\* One more takes its share.
LEMMA OneMoreTotal ==
    ASSUME NEW f \in States, NEW g \in States, NEW field \in Quantities, NEW n,
           n \notin DOMAIN f, DOMAIN g = DOMAIN f \cup {n},
           \A t \in DOMAIN f : g[t] = f[t]
    PROVE  Total(g, field) = g[n].estimate[field] + Total(f, field)
<1>1. /\ \A t \in DOMAIN f : Shares(g, field)[t] = Shares(f, field)[t]
      /\ Shares(g, field)[n] = g[n].estimate[field]
    BY DEF Shares
<1>2. /\ IsFiniteSet(DOMAIN f) /\ \A t \in DOMAIN f : Shares(f, field)[t] \in Nat
      /\ Total(f, field) = SumFunctionOnSet(Shares(f, field), DOMAIN f)
    BY TotalsAre
<1>3. /\ \A t \in DOMAIN g : Shares(g, field)[t] \in Nat
      /\ Total(g, field) = SumFunctionOnSet(Shares(g, field), DOMAIN g)
    BY TotalsAre
<1>4. (\A t \in DOMAIN f : Shares(g, field)[t] \in Nat) /\ Shares(g, field)[n] \in Nat
    BY <1>3
<1>5. SumFunctionOnSet(Shares(g, field), DOMAIN f \cup {n}) =
          Shares(g, field)[n] + SumFunctionOnSet(Shares(g, field), DOMAIN f)
    BY <1>2, <1>4, SumOneMore
<1>6. SumFunctionOnSet(Shares(g, field), DOMAIN f) = SumFunctionOnSet(Shares(f, field), DOMAIN f)
    BY <1>1, <1>2, SumAgree
<1>7. QED
    BY <1>1, <1>2, <1>3, <1>5, <1>6

\* Fewer reservations stay within the capacities ...
LEMMA FewerTotals ==
    ASSUME NEW f \in States, NEW g \in States, WithinTotals(f),
           DOMAIN g \subseteq DOMAIN f, \A t \in DOMAIN g : g[t] = f[t]
    PROVE  WithinTotals(g)
<1>1. \A field \in Quantities : Total(g, field) <= Total(f, field)
    BY FewerTotal
<1>2. \A field \in Quantities : Total(g, field) \in Nat /\ Total(f, field) \in Nat
    BY TotalsAre
<1>3. QED
    BY <1>1, <1>2, LimitAssumption DEF WithinTotals, Quantities

\* ... and so does one more that fits.
LEMMA OneMoreTotals ==
    ASSUME NEW f \in States, NEW g \in States, NEW n, NEW e \in Estimates, Fits(e, f),
           n \notin DOMAIN f, DOMAIN g = DOMAIN f \cup {n},
           \A t \in DOMAIN f : g[t] = f[t], g[n].estimate = e
    PROVE  WithinTotals(g)
<1>1. \A field \in Quantities : Total(g, field) = g[n].estimate[field] + Total(f, field)
    BY OneMoreTotal
<1>2. /\ Total(g, "memory") = e.memory + Total(f, "memory")
      /\ Total(g, "cores") = e.cores + Total(f, "cores")
      /\ Total(g, "gpu") = e.gpu + Total(f, "gpu")
    BY <1>1 DEF Quantities
<1>3. QED
    BY <1>2 DEF WithinTotals, Fits

\* The limits are the counts and the totals.
LEMMA LimitsAre == WithinLimits <=> WithinCounts(file) /\ WithinTotals(file)
BY DEF WithinLimits, WithinCounts, WithinTotals

\* No step exceeds a limit.
LEMMA LimitsStep ==
    ASSUME IInv, [Next]_vars, TypeOK'
    PROVE  WithinLimits'
<1>0. file \in States /\ file' \in States /\ WithinCounts(file) /\ WithinTotals(file)
    BY LimitsAre DEF IInv, TypeOK
<1>1. CASE UNCHANGED file
    BY <1>1 DEF IInv, WithinLimits, Count, Total
<1>2. ASSUME NEW p \in Pids, Looked(p) PROVE WithinLimits'
    <2>1. DOMAIN file' \subseteq DOMAIN file /\ \A t \in DOMAIN file' : file'[t] = file[t]
        BY <1>2, LookedShape
    <2>2. WithinCounts(file') /\ WithinTotals(file')
        BY <1>0, <2>1, FewerCount, FewerTotals
    <2>3. QED
        BY <2>2 DEF WithinLimits, WithinCounts, WithinTotals, Count, Total
<1>3. ASSUME NEW p \in Pids, Grant(p) PROVE WithinLimits'
    <2>1. seen[p] \in States /\ want[p] \in Estimates /\ Fits(want[p], seen[p])
        BY <1>3, GrantWrites DEF Grant
    <2>2. /\ Len(given) \in Nat
          /\ DOMAIN file' = DOMAIN seen[p] \cup {Len(given) + 1}
          /\ file'[Len(given) + 1] = [pid |-> p, estimate |-> want[p]]
          /\ \A t \in DOMAIN seen[p] : file'[t] = seen[p][t] /\ t # Len(given) + 1
          /\ DOMAIN seen[p] \subseteq DOMAIN file
          /\ \A t \in DOMAIN seen[p] : seen[p][t] = file[t]
        BY <1>3, GrantShape
    <2>3. WithinCounts(seen[p])
        BY <1>0, <2>1, <2>2, FewerCount
    <2>4. Len(given) + 1 \notin DOMAIN seen[p] /\ file'[Len(given) + 1].estimate = want[p]
        BY <2>2
    <2>5. WithinCounts(file') /\ WithinTotals(file')
        BY <1>0, <2>1, <2>2, <2>3, <2>4, OneMoreCounts, OneMoreTotals
    <2>6. QED
        BY <2>5 DEF WithinLimits, WithinCounts, WithinTotals, Count, Total
<1>4. ASSUME NEW p \in Pids, Release(p) PROVE WithinLimits'
    <2>1. /\ DOMAIN file' = DOMAIN seen[p] \ {held[p]}
          /\ \A t \in DOMAIN file' : file'[t] = seen[p][t]
          /\ DOMAIN seen[p] \subseteq DOMAIN file
          /\ \A t \in DOMAIN seen[p] : seen[p][t] = file[t]
        BY <1>4, ReleaseShape
    <2>2. WithinCounts(file') /\ WithinTotals(file')
        BY <1>0, <2>1, FewerCount, FewerTotals
    <2>3. QED
        BY <2>2 DEF WithinLimits, WithinCounts, WithinTotals, Count, Total
<1>5. QED
    BY <1>1, <1>2, <1>3, <1>4 DEF Next, Access, Experiment, vars, Ask, Look, Enter, Deny,
        Leave, Start, Raise, Finish, Interrupt, Die, Reuse, WorkerEnds

-----------------------------------------------------------------------------
\* Whatever the controllers do and whoever dies, what a controller goes by holds.
THEOREM Invariance == Spec => []IInv
<1>1. Init => IInv
    BY InitIInv
<1>2. IInv /\ [Next]_vars => IInv'
    <2> SUFFICES ASSUME IInv, [Next]_vars PROVE IInv'
        OBVIOUS
    <2>1. TypeOK'
        BY TypeStep
    <2>2. CtlOK' /\ FreshOK' /\ KeptOK'
        BY CtlStep, FreshStep, KeptStep
    <2>3. SeenOK' /\ NothingLeaks'
        BY SeenStep, LeakStep
    <2>4. WithinLimits'
        BY <2>1, LimitsStep
    <2>5. QED
        BY <2>1, <2>2, <2>3, <2>4 DEF IInv
<1>3. QED
    BY <1>1, <1>2, PTL DEF Spec

\* The state file and what the controllers remember have their types.
THEOREM TypeCorrect == Spec => []TypeOK
<1>1. IInv => TypeOK
    BY DEF IInv
<1>2. QED
    BY <1>1, Invariance, PTL

\* The file is exact: no reservation is cleaned away under its controller, no release
\* fails, and every reservation in the file is held or its controller has died.
THEOREM FileIsExact == Spec => []ReservationsAreExact
<1>1. IInv => ReservationsAreExact
    BY DEF IInv, KeptOK, SeenOK, KeptWhileNeeded, ReservationsAreExact, Critical
<1>2. QED
    BY <1>1, Invariance, PTL

\* Memory, cores, GPU memory, heavy experiments, light ones and full scans: the
\* reservations in the file are within every limit at once.
THEOREM CapacityIsNotExceeded == Spec => []WithinLimits
<1>1. IInv => WithinLimits
    BY DEF IInv
<1>2. QED
    BY <1>1, Invariance, PTL

\* The workers that are waited for have their reservations in the file, so that no more
\* heavy experiments, or full scans, are waited for at once than the limits allow.
THEOREM Serialized == Spec => []SerializedUpToOrphans
<1>1. ASSUME IInv PROVE SerializedUpToOrphans
    <2> DEFINE awaited == workers \ Orphans
    <2>1. file \in States /\ WithinCounts(file)
        BY <1>1, LimitsAre DEF IInv, TypeOK
    <2>2. ASSUME NEW t \in awaited PROVE t \in DOMAIN file /\ file[t].estimate = given[t]
        <3>1. PICK p \in Pids : held[p] = t /\ pc[p] = "running"
            BY <2>2 DEF Orphans
        <3>2. held[p] # NoToken
            BY <1>1, <3>1 DEF IInv, CtlOK, Holding
        <3>3. t \in DOMAIN file /\ file[t] = [pid |-> p, estimate |-> want[p]] /\ given[t] = want[p]
            BY <1>1, <3>1, <3>2 DEF IInv, KeptOK
        <3>4. QED
            BY <3>3
    <2> HIDE DEF awaited
    <2> DEFINE heavy == {t \in awaited : given[t].heavy}
               scans == {t \in awaited : given[t].scan}
    <2>3. heavy \in SUBSET Chosen(file, "heavy") /\ scans \in SUBSET Chosen(file, "scan")
        BY <2>2 DEF Chosen
    <2> HIDE DEF heavy, scans
    <2>4. /\ IsFiniteSet(heavy) /\ Cardinality(heavy) <= Cardinality(Chosen(file, "heavy"))
          /\ IsFiniteSet(scans) /\ Cardinality(scans) <= Cardinality(Chosen(file, "scan"))
        BY <2>1, <2>3, CountsAre, FS_Subset
    <2>5. /\ Cardinality(Chosen(file, "heavy")) <= Limits.heavy
          /\ Cardinality(Chosen(file, "scan")) <= Limits.scans
        BY <2>1, CountsAre DEF WithinCounts
    <2>6. /\ Cardinality(heavy) \in Nat /\ Cardinality(Chosen(file, "heavy")) \in Nat
          /\ Cardinality(scans) \in Nat /\ Cardinality(Chosen(file, "scan")) \in Nat
        BY <2>1, <2>4, CountsAre, FS_CardinalityType
    <2>7. Limits.heavy \in Nat /\ Limits.scans \in Nat
        BY LimitAssumption
    <2>8. Cardinality(heavy) <= Limits.heavy /\ Cardinality(scans) <= Limits.scans
        BY <2>4, <2>5, <2>6, <2>7
    <2>9. QED
        BY <2>8 DEF SerializedUpToOrphans, heavy, scans, awaited
<1>2. QED
    BY <1>1, Invariance, PTL

-----------------------------------------------------------------------------
\* The refinement.

\* Bookings adds, counts and restricts as this module does.
LEMMA SameOperators ==
    /\ \A w, S : Promised!SumFunctionOnSet(w, S) = SumFunctionOnSet(w, S)
    /\ \A S : Promised!Cardinality(S) = Cardinality(S)
    /\ \A f, S : Promised!Restrict(f, S) = Restrict(f, S)
<1>1. ASSUME NEW w, NEW S PROVE Promised!SumFunctionOnSet(w, S) = SumFunctionOnSet(w, S)
    BY DEF Promised!SumFunctionOnSet, Promised!FoldFunctionOnSet, Promised!MapThenFoldSet,
           SumFunctionOnSet, FoldFunctionOnSet, MapThenFoldSet
<1>2. ASSUME NEW S PROVE Promised!Cardinality(S) = Cardinality(S)
    BY DEF Promised!Cardinality, Cardinality
<1>3. ASSUME NEW f, NEW S PROVE Promised!Restrict(f, S) = Restrict(f, S)
    BY DEF Promised!Restrict, Restrict
<1>4. QED
    BY <1>1, <1>2, <1>3

\* The bookings of the file are within the limits when its reservations are.
LEMMA BookingsWithin == WithinLimits => Promised!Within
<1> SUFFICES ASSUME WithinLimits PROVE Promised!Within
    OBVIOUS
<1>1. DOMAIN Booked = DOMAIN file /\ \A t \in DOMAIN file : Booked[t] = file[t].estimate
    BY DEF Booked
<1>2. ASSUME NEW field PROVE Promised!Sum(field) = Total(file, field)
    <2>1. [t \in DOMAIN Booked |-> Booked[t][field]] = [t \in DOMAIN file |-> file[t].estimate[field]]
        BY <1>1
    <2>2. QED
        BY <1>1, <2>1, SameOperators DEF Promised!Sum, Total
<1>3. ASSUME NEW field PROVE Promised!Number(field) = Count(file, field)
    <2>1. {t \in DOMAIN Booked : Booked[t][field]} = {t \in DOMAIN file : file[t].estimate[field]}
        BY <1>1
    <2>2. QED
        BY <2>1, SameOperators DEF Promised!Number, Count
<1>4. /\ Promised!Sum("memory") = Total(file, "memory")
      /\ Promised!Sum("cores") = Total(file, "cores")
      /\ Promised!Sum("gpu") = Total(file, "gpu")
    BY <1>2
<1>5. Promised!Number("heavy") = Count(file, "heavy") /\ Promised!Number("scan") = Count(file, "scan")
    BY <1>3
<1>6. QED
    BY <1>1, <1>4, <1>5, SameOperators DEF WithinLimits, Promised!Within

\* What a controller has read under the lock is a remainder of the bookings.
LEMMA ReadIsRemainder ==
    ASSUME IInv, NEW p \in Pids, pc[p] \in Critical
    PROVE  DOMAIN seen[p] \in Promised!Remainders
BY DEF IInv, SeenOK, Promised!Remainders, Booked

\* Nothing is booked where the file and what is held stay as they are.
LEMMA Unnoticed ==
    ASSUME file' = file, held' = held
    PROVE  UNCHANGED Promised!vars
BY DEF Promised!vars, Booked

\* A grant books in one step what it decided on when it had read the file.
LEMMA GrantBooks ==
    ASSUME IInv, NEW p \in Pids, Grant(p), WithinLimits'
    PROVE  want[p] \in Estimates /\ Promised!Book(p, want[p])
<1> DEFINE token == Len(given) + 1
           kept == DOMAIN seen[p]
<1>1. token \in Tokens /\ want[p] \in Estimates
    BY GrantWrites
<1>2. /\ Len(given) \in Nat /\ DOMAIN file' = kept \cup {token}
      /\ file'[token] = [pid |-> p, estimate |-> want[p]]
      /\ kept \subseteq DOMAIN file
      /\ \A t \in kept : file'[t] = file[t] /\ t # token
    BY GrantShape
<1>3. token \notin DOMAIN file
    BY <1>2, StatesAre DEF IInv, TypeOK, FreshOK, Tokens
<1>4. held[p] = NoToken /\ held' = [held EXCEPT ![p] = token]
    BY DEF Grant, Leave, IInv, CtlOK, Holding
<1>5. kept \in Promised!Remainders
    BY ReadIsRemainder DEF Grant, Critical
<1>6. Promised!Within'
    BY BookingsWithin, PTL
<1> HIDE DEF token, kept
<1>7. DOMAIN Booked = DOMAIN file
    BY DEF Booked
<1>8. Booked' = [u \in kept \cup {token} |-> IF u = token THEN want[p] ELSE Booked[u]]
    BY <1>2 DEF Booked
<1>9. QED
    BY <1>1, <1>3, <1>4, <1>5, <1>6, <1>7, <1>8 DEF Promised!Book

\* A release gives back the booking, and nobody else's.
LEMMA ReleaseGivesBack ==
    ASSUME IInv, NEW p \in Pids, Release(p)
    PROVE  Promised!GiveBack(p)
<1> DEFINE kept == DOMAIN seen[p]
<1>1. /\ DOMAIN file' = kept \ {held[p]}
      /\ kept \subseteq DOMAIN file
      /\ \A t \in DOMAIN file' : file'[t] = file[t]
    BY ReleaseShape
<1>2. held[p] # NoToken /\ held' = [held EXCEPT ![p] = NoToken]
    BY DEF Release, Leave, IInv, CtlOK, Holding
<1>3. kept \in Promised!Remainders
    BY ReadIsRemainder DEF Release, Critical
<1> HIDE DEF kept
<1>4. Booked' = Restrict(Booked, kept \ {held[p]})
    BY <1>1 DEF Booked, Restrict
<1>5. QED
    BY <1>2, <1>3, <1>4, SameOperators DEF Promised!GiveBack

\* A look clears what is stale, and what is stale nobody holds.
LEMMA LookClears ==
    ASSUME IInv, NEW p \in Pids, Looked(p)
    PROVE  Promised!Clear
<1>1. /\ file' = seen[p] /\ DOMAIN seen[p] \subseteq DOMAIN file
      /\ \A t \in DOMAIN seen[p] : seen[p][t] = file[t]
    BY LookedShape
<1>2. DOMAIN seen[p] \in Promised!Remainders
    BY ReadIsRemainder DEF Looked, Critical
<1>3. Booked' = Restrict(Booked, DOMAIN seen[p])
    BY <1>1 DEF Booked, Restrict
<1>4. QED
    BY <1>2, <1>3, SameOperators DEF Promised!Clear, Looked

\* Every step is a step of the bookings or nothing to them.
LEMMA StepImplements ==
    ASSUME IInv, [Next]_vars, WithinLimits'
    PROVE  [Promised!Next]_(Promised!vars)
<1>1. CASE file' = file /\ held' = held
    BY <1>1, Unnoticed
<1>2. ASSUME NEW p \in Pids, Grant(p) PROVE Promised!Next
    BY <1>2, GrantBooks DEF Promised!Next
<1>3. ASSUME NEW p \in Pids, Release(p) PROVE Promised!Next
    BY <1>3, ReleaseGivesBack DEF Promised!Next
<1>4. ASSUME NEW p \in Pids, Looked(p) PROVE Promised!Next
    BY <1>4, LookClears DEF Promised!Next
<1>5. ASSUME NEW p \in Pids, Die(p) PROVE [Promised!Next]_(Promised!vars)
    <2>1. CASE held[p] = NoToken
        <3>1. file' = file /\ held' = held
            BY <1>5, <2>1 DEF Die, IInv, TypeOK
        <3>2. QED
            BY <3>1, Unnoticed
    <2>2. CASE held[p] # NoToken
        BY <1>5, <2>2 DEF Die, Promised!Next, Promised!Abandon, Booked
    <2>3. QED
        BY <2>1, <2>2
<1>6. QED
    BY <1>1, <1>2, <1>3, <1>4, <1>5 DEF Next, Access, Experiment, vars, Ask, Look, Enter, Deny,
        Leave, Start, Raise, Finish, Interrupt, Reuse, WorkerEnds

\* However the accesses interleave and whoever dies inside one, the file with its lock is
\* a table of bookings that are made and given back in one step each.
THEOREM Implements == Spec => ImplementsBookings
<1>1. Init => Promised!Init
    BY DEF Init, Promised!Init, Booked
<1>2. IInv => WithinLimits
    BY DEF IInv
<1>3. IInv /\ WithinLimits' /\ [Next]_vars => [Promised!Next]_(Promised!vars)
    BY StepImplements
<1>4. QED
    BY <1>1, <1>2, <1>3, Invariance, PTL DEF Spec, ImplementsBookings, Promised!Spec

=============================================================================
