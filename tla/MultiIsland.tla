---------------------------- MODULE MultiIsland ----------------------------
(***************************************************************************)
(* The multi-island control plane (controller/multi_island_loop.py) over   *)
(* its structures, its evidence vault, its candidate archive and the       *)
(* scheduling state it saves in global_control.json.                       *)
(*                                                                         *)
(* An operation is a row of writes to separate files.  The process may die *)
(* between two of them, and what it keeps in memory, the proposals, the    *)
(* reservations and the archive, is gone with it; the loop that is opened  *)
(* on the directory next starts its control state from nothing.            *)
(***************************************************************************)
EXTENDS StructureMaturation, Integers, Sequences, SequencesExt

CONSTANTS
    Agents,         \* belief islands
    Owner,          \* Owner[h]: the agent whose hypothesis h is
    Proposer,       \* Proposer[e]: the agent whose experiment e is
    About,          \* About[e]: the hypothesis e is about, or NoDebt
    Producing,      \* the experiments that may produce a candidate
    Followed,       \* bound: the hypotheses anything is done about after they are registered
    MaxRestarts     \* bound: how often the process dies

ASSUME OwnerAssumption == Owner \in [Hypotheses -> Agents] /\ Proposer \in [Experiments -> Agents]
ASSUME AboutAssumption ==
    /\ About \in [Experiments -> Hypotheses \cup {NoDebt}]
    /\ \A e \in Experiments : About[e] \in Hypotheses => Owner[About[e]] = Proposer[e]
ASSUME BoundAssumption == Followed \subseteq Hypotheses /\ MaxRestarts \in Nat

VARIABLES
    \* on disk, beside the structures
    evidence,   \* evidence[e]: the observation of e, or NoEvidence
    control,    \* global_control.json: queue, running, forks, debts
    \* in memory
    proposals, reservations, archive,
    todo,       \* the writes the operation under way has still to make
    \* for the properties and the bound
    early,      \* experiments whose evidence was stored while their structure had no debt
    restarts

memory == <<proposals, reservations, archive>>
disk == <<structures, evidence, control>>
vars == <<disk, memory, todo, early, restarts>>

NoEvidence == [stored |-> FALSE, sound |-> FALSE, debtOpen |-> FALSE, shared |-> FALSE]
EmptyControl == [queue |-> {}, running |-> {}, forks |-> {}, debts |-> {}]

\* A write that remains to be made; hyp and exp say about what.
Todo(do, hyp, exp, to) == [do |-> do, hyp |-> hyp, exp |-> exp, to |-> to]
Synced == Todo("sync", NoDebt, NoDebt, "-")
Released(e) == Todo("release", NoDebt, e, "-")

\* An operation of the loop begins: nothing of another one is left.
Ready == todo = <<>>
Then(rest) == todo' = rest

-----------------------------------------------------------------------------
\* Structures.

RegisterStructuralHypothesis(h, s) ==
    /\ Ready
    /\ Register(h, s)
    /\ UNCHANGED <<evidence, control, memory, todo, early, restarts>>

AdvanceStructuralHypothesis(h, s) ==
    /\ Ready
    /\ Advance(h, s)
    /\ UNCHANGED <<evidence, control, memory, todo, early, restarts>>

PreregisterStructureTest(h) ==
    /\ Ready
    /\ Preregister(h)
    /\ UNCHANGED <<evidence, control, memory, todo, early, restarts>>

CreateStructureMaturationFork(h) ==
    /\ Ready
    /\ CreateFork(h)
    /\ Then(<<Synced>>)
    /\ UNCHANGED <<evidence, control, memory, early, restarts>>

DissolveStructureMaturationFork(h) ==
    /\ Ready
    /\ DissolveFork(h)
    /\ Then(<<Synced>>)
    /\ UNCHANGED <<evidence, control, memory, early, restarts>>

\* Slip: the control state is not told.
ResolveSilently(h, requirement) ==
    /\ Ready
    /\ Resolve(h, requirement)
    /\ UNCHANGED <<evidence, control, memory, todo, early, restarts>>

ResolveValidationRequirement(h, requirement) ==
    /\ Ready
    /\ Resolve(h, requirement)
    /\ Then(<<Synced>>)
    /\ UNCHANGED <<evidence, control, memory, early, restarts>>

AssessStructuralHypothesis(h, s) ==
    /\ Ready
    /\ Assess(h, s)
    /\ Then(<<Todo("assessed", h, NoDebt, s), Synced>>)
    /\ UNCHANGED <<evidence, control, memory, early, restarts>>

-----------------------------------------------------------------------------
\* Experiments.

\* propose: what the phase gate admits and is new to this process.
Propose(e) ==
    /\ Ready
    /\ About[e] \in Hypotheses => Registered(About[e])
    /\ e \notin proposals
    /\ proposals' = proposals \cup {e}
    /\ control' = [control EXCEPT !.queue = @ \cup {e}]
    /\ UNCHANGED <<structures, evidence, reservations, archive, todo, early, restarts>>

\* start, when the scheduler has room.
Start(e) ==
    /\ Ready
    /\ e \in proposals
    /\ e \notin reservations
    /\ e \in control.queue
    /\ reservations' = reservations \cup {e}
    /\ control' = [control EXCEPT !.queue = @ \ {e}, !.running = @ \cup {e}]
    /\ UNCHANGED <<structures, evidence, proposals, archive, todo, early, restarts>>

\* _release: the reservation goes back, the control state forgets the experiment.
Release(e) ==
    /\ reservations' = reservations \ {e}
    /\ control' = [control EXCEPT !.running = @ \ {e}]

\* The executor raises, or complete refuses the result it is given.
Abandon(e) ==
    /\ Ready
    /\ e \in reservations
    /\ Release(e)
    /\ UNCHANGED <<structures, evidence, proposals, archive, todo, early, restarts>>

\* Slip: what has no debt yet is not in debt, candidate or not.
DebtSeenInFilesOnly(e, candidate) == About[e] \in Hypotheses /\ InDebt(About[e])

\* The debt the evidence of e is marked with: the one its structure has now, and the
\* one this very candidate is about to open.
DebtSeen(e, candidate) ==
    /\ About[e] \in Hypotheses
    /\ IF HasDebt(About[e]) THEN InDebt(About[e]) ELSE candidate

\* sound: the artifacts are valid, and someone has replicated the observation.
Observation(e, sound, candidate) ==
    [stored |-> TRUE, sound |-> sound, debtOpen |-> DebtSeen(e, candidate), shared |-> FALSE]

Conflict(e, seen) == evidence[e].stored /\ evidence[e] # seen

\* EvidenceVault.store; what complete does next is rest.
\* Evidence that is there stays as it is, and complete raises if it differs.
Observed(e, seen, rest) ==
    IF Conflict(e, seen)
    THEN /\ Then(<<Released(e)>>)
         /\ UNCHANGED <<evidence, early>>
    ELSE /\ evidence' = [evidence EXCEPT ![e] = seen]
         /\ early' = IF ~evidence[e].stored /\ About[e] \in Hypotheses /\ ~HasDebt(About[e])
                     THEN early \cup {e} ELSE early
         /\ Then(rest \o <<Released(e)>>)

\* complete without a candidate.
Complete(e, sound) ==
    /\ Ready
    /\ e \in reservations
    /\ Observed(e, Observation(e, sound, FALSE), <<>>)
    /\ UNCHANGED <<structures, control, proposals, reservations, archive, restarts>>

\* complete with a candidate that does not pass: its observation is stored all the same.
Reject(e, sound) ==
    /\ Ready
    /\ e \in reservations
    /\ Observed(e, Observation(e, sound, TRUE), <<>>)
    /\ UNCHANGED <<structures, control, proposals, reservations, archive, restarts>>

\* Slip: a debt is opened for the hypothesis the experiment is about, and no other.
DebtOfSubject(e, uses) ==
    IF About[e] \in uses THEN <<Todo("debt", About[e], e, "-")>> ELSE <<>>

DebtsOf(e, uses) ==
    LET hyps == SetToSeq(uses)
    IN  [i \in DOMAIN hyps |-> Todo("debt", hyps[i], e, "-")]

\* complete with a candidate that declares the hypotheses it uses: it enters the
\* archive before it owes anything for them.
Promote(e, uses, sound) ==
    LET seen == Observation(e, sound, TRUE)
    IN  /\ Ready
        /\ e \in reservations
        /\ e \in Producing
        /\ About[e] \in Hypotheses => About[e] \in uses
        /\ \A h \in uses : Registered(h) /\ Owner[h] = Proposer[e]
        /\ Observed(e, seen, DebtsOf(e, uses) \o <<Synced>>)
        /\ archive' = IF Conflict(e, seen) THEN archive ELSE archive \cup {<<e, uses>>}
        /\ UNCHANGED <<structures, control, proposals, reservations, restarts>>

\* EvidenceVault.promote, which goes by the mark the evidence was stored with.
Share(e) ==
    /\ Ready
    /\ evidence[e].sound
    /\ ~evidence[e].debtOpen
    /\ evidence' = [evidence EXCEPT ![e].shared = TRUE]
    /\ UNCHANGED <<structures, control, memory, todo, early, restarts>>

-----------------------------------------------------------------------------
\* The next write of the operation under way.

Next1(do) == todo # <<>> /\ Head(todo).do = do /\ todo' = Tail(todo)

WriteAssessed ==
    /\ Next1("assessed")
    /\ WriteAssessment(Head(todo).hyp, Head(todo).to)
    /\ UNCHANGED <<evidence, control, memory, early, restarts>>

WriteDebt ==
    /\ Next1("debt")
    /\ OpenDebt(Head(todo).hyp, Head(todo).exp)
    /\ UNCHANGED <<evidence, control, memory, early, restarts>>

\* _sync_structure_control_state.
Sync ==
    /\ Next1("sync")
    /\ control' = [control EXCEPT !.forks = ActiveForks, !.debts = OpenDebts]
    /\ UNCHANGED <<structures, evidence, memory, early, restarts>>

\* The finally of complete.
GiveBack ==
    /\ Next1("release")
    /\ Release(Head(todo).exp)
    /\ UNCHANGED <<structures, evidence, proposals, archive, early, restarts>>

\* Slip: the reservations outlive the process that made them.
ForgottenButReserved ==
    /\ proposals' = {}
    /\ UNCHANGED reservations
    /\ archive' = {}

\* What a new loop starts with.
Forgotten ==
    /\ proposals' = {}
    /\ reservations' = {}
    /\ archive' = {}

\* The process dies, and another loop is opened on the directory.
Restart ==
    /\ restarts < MaxRestarts
    /\ restarts' = restarts + 1
    /\ Forgotten
    /\ Then(<<>>)
    /\ control' = EmptyControl
    /\ UNCHANGED <<structures, evidence, early>>

Init ==
    /\ NoStructures
    /\ evidence = [e \in Experiments |-> NoEvidence]
    /\ control = EmptyControl
    /\ proposals = {} /\ reservations = {} /\ archive = {}
    /\ todo = <<>>
    /\ early = {}
    /\ restarts = 0

Write ==
    \/ WriteAssessed \/ WriteDebt \/ Sync \/ GiveBack

Discover(h) == \E s \in {"observation", "provisional"} : RegisterStructuralHypothesis(h, s)

Mature(h) ==
    \/ \E r \in Requirements : ResolveValidationRequirement(h, r)
    \/ \E s \in Lifecycles : AdvanceStructuralHypothesis(h, s)
    \/ PreregisterStructureTest(h)
    \/ CreateStructureMaturationFork(h) \/ DissolveStructureMaturationFork(h)
    \/ AssessStructuralHypothesis(h, "inconclusive")
    \/ \E valid, useful \in BOOLEAN : AssessStructuralHypothesis(h, Verdict(h, valid, useful))

Experiment(e) ==
    \/ Propose(e) \/ Start(e) \/ Abandon(e) \/ Share(e)
    \/ \E sound \in BOOLEAN : Complete(e, sound) \/ Reject(e, sound)
    \/ \E uses \in SUBSET Hypotheses, sound \in BOOLEAN : Promote(e, uses, sound)

Next ==
    \/ \E h \in Hypotheses : Discover(h)
    \/ \E h \in Followed : Mature(h)
    \/ \E e \in Experiments : Experiment(e)
    \/ Write
    \/ Restart

Spec == Init /\ [][Next]_vars

-----------------------------------------------------------------------------
\* Properties.

Observations == [stored : BOOLEAN, sound : BOOLEAN, debtOpen : BOOLEAN, shared : BOOLEAN]

TypeOK ==
    /\ lifecycle \in [Hypotheses -> Lifecycles \cup {"absent"}]
    /\ debt \in [Hypotheses -> Debts \cup {NoDebt}]
    /\ fork \in [Hypotheses -> {"none", "active", "dissolved"}]
    /\ assessment \in [Hypotheses -> Terminal \cup {"none"}]
    /\ evidence \in [Experiments -> Observations]
    /\ control \in [queue : SUBSET Experiments, running : SUBSET Experiments,
                    forks : SUBSET Hypotheses, debts : SUBSET Hypotheses]
    /\ proposals \subseteq Experiments /\ reservations \subseteq proposals
    /\ archive \subseteq Experiments \X SUBSET Hypotheses
    /\ early \subseteq Experiments
    /\ restarts \in Nat

\* "Candidate use automatically opens validation debt" (docs/capability_matrix.md):
\* between operations, every hypothesis an archived candidate declares has a debt
\* that names the candidate.
CandidatesOwe ==
    Ready => \A c \in archive : \A h \in c[2] : HasDebt(h) /\ c[1] \in debt[h].affects

\* "Open debt blocks [...] confirmed-fact promotion" (docs/capability_matrix.md), as
\* far as it does: the mark is not brought up to date, so an observation from before
\* there was a debt may be shared while the debt is open, but never that of a
\* candidate in debt.
SharedFactsOweNothing ==
    \A e \in Experiments :
        (evidence[e].shared /\ About[e] \in OpenDebts)
            => e \in early /\ e \notin debt[About[e]].affects

\* "Open debt blocks Validated Structure": a structure assessed as valid has had its
\* debt resolved, and no candidate that comes later opens it again.
AssessedValidOwesNothing ==
    \A h \in Hypotheses :
        assessment[h] \in {"validated_structure", "non_actionable"} => HasDebt(h) /\ ~InDebt(h)

\* Between operations the control state is right, whatever an operation raised on:
\* the experiments that run are the ones with a reservation, and the forks and debts
\* are those on disk, or none at all where nothing has told a new loop of them.
ControlIsTrue ==
    Ready => /\ control.running = reservations
             /\ \/ control.forks = ActiveForks /\ control.debts = OpenDebts
                \/ restarts > 0 /\ control.forks = {} /\ control.debts = {}

=============================================================================
