-------------------------- MODULE MultiIsland_proofs --------------------------
(***************************************************************************)
(* Proofs about MultiIsland, for every set of agents, hypotheses and       *)
(* experiments and every bound.                                            *)
(*                                                                         *)
(* An operation is done when the last of its writes is made, and a process *)
(* may die before that.  The invariant therefore says of every property    *)
(* what the writes that remain to be made still owe it: a candidate's debt *)
(* is on disk or about to be written (OwedOK), the control state is right  *)
(* or about to be synchronized (ControlOK), an assessment that is about to *)
(* be written is as good as one on disk (AssessedOK).  What makes the      *)
(* marks of the evidence good for ever is that a debt that is settled      *)
(* stays so.                                                               *)
(***************************************************************************)
EXTENDS MultiIsland, FiniteSetTheorems, SequenceTheorems, TLAPS

\* The writes an operation may leave, and those a row of them holds.
Writes ==
    [do : {"sync"}, hyp : {NoDebt}, exp : {NoDebt}, to : {"-"}]
    \cup [do : {"release"}, hyp : {NoDebt}, exp : Experiments, to : {"-"}]
    \cup [do : {"assessed"}, hyp : Hypotheses, exp : {NoDebt}, to : Terminal]
    \cup [do : {"debt"}, hyp : Hypotheses, exp : Experiments, to : {"-"}]
In(row) == {row[i] : i \in DOMAIN row}

\* A debt is written before the control state is told of it.
SyncFollows(row) ==
    \A i \in DOMAIN row : row[i].do = "debt" =>
        \E j \in DOMAIN row : i < j /\ row[j].do = "sync"

\* The debt of a structure is resolved.
Settled(h) == HasDebt(h) /\ ~InDebt(h)
Valid == {"validated_structure", "non_actionable"}

TodoOK == todo \in Seq(Writes) /\ SyncFollows(todo)

\* Every hypothesis an archived candidate declares has a debt that names it, or will.
OwedOK ==
    \A c \in archive : \A h \in c[2] :
        \/ HasDebt(h) /\ c[1] \in debt[h].affects
        \/ Todo("debt", h, c[1], "-") \in In(todo)

\* What is known of a structure whose evidence is stored without the mark of a debt:
\* the debt was settled, or it came later and for another candidate.
MarksOK ==
    \A e \in Experiments :
        /\ evidence[e].sound \/ evidence[e].shared => evidence[e].stored
        /\ evidence[e].shared => ~evidence[e].debtOpen
        /\ evidence[e].stored /\ ~evidence[e].debtOpen /\ About[e] \in Hypotheses =>
              /\ e \in early \/ Settled(About[e])
              /\ HasDebt(About[e]) /\ e \in debt[About[e]].affects => Settled(About[e])
              /\ Todo("debt", About[e], e, "-") \in In(todo) => Settled(About[e])

\* A structure that is assessed as valid, or is about to be, has settled its debt.
AssessedOK ==
    /\ \A h \in Hypotheses : assessment[h] \in Valid => Settled(h)
    /\ \A w \in In(todo) : w.do = "assessed" /\ w.to \in Valid => Settled(w.hyp)

\* The control state is right, was never told, or is about to be.
ControlOK ==
    /\ control.running = reservations
    /\ \/ control.forks = ActiveForks /\ control.debts = OpenDebts
       \/ restarts > 0 /\ control.forks = {} /\ control.debts = {}
       \/ \E w \in In(todo) : w.do = "sync"

\* The inductive invariant.
IInv == TypeOK /\ TodoOK /\ OwedOK /\ MarksOK /\ AssessedOK /\ ControlOK

-----------------------------------------------------------------------------
\* SetToSeq lists all the elements of a finite set.
LEMMA SetToSeqLists ==
    ASSUME NEW S, IsFiniteSet(S)
    PROVE  /\ Cardinality(S) \in Nat
           /\ SetToSeq(S) \in [1..Cardinality(S) -> S]
           /\ \A x \in S : \E i \in 1..Cardinality(S) : SetToSeq(S)[i] = x
<1> DEFINE n == Cardinality(S)
<1>1. n \in Nat /\ ExistsBijection(1..n, S)
    BY FS_CardinalityType
<1>2. \E f \in [1..n -> S] : IsInjective(f)
    BY <1>1 DEF ExistsBijection, Bijection, Injection
<1>3. SetToSeq(S) \in [1..n -> S] /\ IsInjective(SetToSeq(S))
    BY <1>2 DEF SetToSeq
<1>4. SetToSeq(S) \in Injection(1..n, S)
    BY <1>3 DEF Injection
<1>5. Cardinality(1..n) = n
    <2>1. 1 \in Int /\ n \in Int
        BY <1>1
    <2>2. Cardinality(1..n) = IF 1 > n THEN 0 ELSE n - 1 + 1
        BY <2>1, FS_Interval
    <2>3. QED
        BY <1>1, <2>2
<1>6. SetToSeq(S) \in Surjection(1..n, S)
    BY <1>4, <1>5, FS_Injection
<1>7. QED
    BY <1>1, <1>3, <1>6 DEF Surjection

\* The writes, one by one.
LEMMA WritesAre ==
    /\ Synced \in Writes /\ Synced.do = "sync"
    /\ \A e \in Experiments : Released(e) \in Writes /\ Released(e).do = "release" /\ Released(e).exp = e
    /\ \A h \in Hypotheses, s \in Terminal :
           LET w == Todo("assessed", h, NoDebt, s)
           IN  w \in Writes /\ w.do = "assessed" /\ w.hyp = h /\ w.to = s
    /\ \A h \in Hypotheses, e \in Experiments :
           LET w == Todo("debt", h, e, "-")
           IN  w \in Writes /\ w.do = "debt" /\ w.hyp = h /\ w.exp = e
BY DEF Writes, Synced, Released, Todo

\* A write is what it says it is.
LEMMA WriteIs ==
    ASSUME NEW w \in Writes
    PROVE  /\ w.do = "debt" => w.hyp \in Hypotheses /\ w.exp \in Experiments /\ w = Todo("debt", w.hyp, w.exp, "-")
           /\ w.do = "assessed" => w.hyp \in Hypotheses /\ w.to \in Terminal
           /\ w.do = "release" => w.exp \in Experiments
BY DEF Writes, Todo

\* The first write is made: it is one of the row, and the others remain.
LEMMA NextWrite ==
    ASSUME TodoOK, todo # <<>>
    PROVE  /\ Head(todo) \in Writes
           /\ In(todo) = {Head(todo)} \cup In(Tail(todo))
           /\ Tail(todo) \in Seq(Writes)
           /\ SyncFollows(Tail(todo))
           /\ Head(todo).do = "debt" => \E w \in In(Tail(todo)) : w.do = "sync"
<1> DEFINE rest == Tail(todo)
<1>1. todo \in Seq(Writes) /\ SyncFollows(todo)
    BY DEF TodoOK
<1>2. /\ Head(todo) \in Writes /\ rest \in Seq(Writes) /\ Len(rest) = Len(todo) - 1
      /\ \A i \in 1..Len(rest) : rest[i] = todo[i + 1]
    BY <1>1, HeadTailProperties
<1>3. Len(todo) \in Nat /\ Len(todo) # 0 /\ DOMAIN todo = 1..Len(todo) /\ DOMAIN rest = 1..Len(rest)
    BY <1>1, <1>2, LenProperties, EmptySeq
<1>4. Head(todo) = todo[1]
    BY <1>1
<1> HIDE DEF rest
<1>5. \A i \in DOMAIN todo : i # 1 => i - 1 \in DOMAIN rest /\ rest[i - 1] = todo[i]
    BY <1>2, <1>3
<1>6. \A i \in DOMAIN rest : i + 1 \in DOMAIN todo /\ todo[i + 1] = rest[i]
    BY <1>2, <1>3
<1>7. 1 \in DOMAIN todo
    BY <1>3
<1>8. In(todo) = {Head(todo)} \cup In(rest)
    <2>1. In(todo) \subseteq {Head(todo)} \cup In(rest)
        BY <1>4, <1>5 DEF In
    <2>2. In(rest) \subseteq In(todo)
        BY <1>6 DEF In
    <2>3. QED
        BY <1>4, <1>7, <2>1, <2>2 DEF In
<1>9. SyncFollows(rest)
    <2> SUFFICES ASSUME NEW i \in DOMAIN rest, rest[i].do = "debt"
                 PROVE  \E j \in DOMAIN rest : i < j /\ rest[j].do = "sync"
        BY DEF SyncFollows
    <2>1. PICK j \in DOMAIN todo : i + 1 < j /\ todo[j].do = "sync"
        BY <1>1, <1>6 DEF SyncFollows
    <2>2. j - 1 \in DOMAIN rest /\ rest[j - 1] = todo[j] /\ i < j - 1
        BY <1>3, <1>5, <2>1
    <2>3. QED
        BY <2>1, <2>2
<1>10. ASSUME Head(todo).do = "debt" PROVE \E w \in In(rest) : w.do = "sync"
    <2>1. PICK j \in DOMAIN todo : 1 < j /\ todo[j].do = "sync"
        BY <1>1, <1>4, <1>7, <1>10 DEF SyncFollows
    <2>2. j - 1 \in DOMAIN rest /\ rest[j - 1] = todo[j]
        BY <1>5, <2>1
    <2>3. QED
        BY <2>1, <2>2 DEF In
<1>11. QED
    BY <1>2, <1>8, <1>9, <1>10 DEF rest

\* Nothing is left of the operation before.
LEMMA NothingLeft ==
    /\ In(<<>>) = {}
    /\ <<>> \in Seq(Writes) /\ SyncFollows(<<>>)
BY DEF In, SyncFollows

\* The row of one write.
LEMMA OneWrite ==
    ASSUME NEW w \in Writes, w.do # "debt"
    PROVE  In(<<w>>) = {w} /\ <<w>> \in Seq(Writes) /\ SyncFollows(<<w>>)
BY DEF In, SyncFollows

\* The row of an assessment.
LEMMA TwoWrites ==
    ASSUME NEW w \in Writes, w.do # "debt", NEW v \in Writes, v.do # "debt"
    PROVE  In(<<w, v>>) = {w, v} /\ <<w, v>> \in Seq(Writes) /\ SyncFollows(<<w, v>>)
BY DEF In, SyncFollows

\* The row of a promotion: the debts of all the hypotheses that are used.
LEMMA PromoteRow ==
    ASSUME NEW e \in Experiments, NEW uses \in SUBSET Hypotheses
    PROVE  LET row == (DebtsOf(e, uses) \o <<Synced>>) \o <<Released(e)>>
           IN  /\ row \in Seq(Writes) /\ SyncFollows(row)
               /\ \A h \in uses : Todo("debt", h, e, "-") \in In(row)
               /\ \A w \in In(row) : \/ w = Synced \/ w = Released(e)
                                     \/ \E h \in uses : w = Todo("debt", h, e, "-")
               /\ Synced \in In(row)
<1> DEFINE n == Cardinality(uses)
           hyps == SetToSeq(uses)
           debts == DebtsOf(e, uses)
           row == (debts \o <<Synced>>) \o <<Released(e)>>
<1>1. IsFiniteSet(uses)
    BY HypothesesAssumption, FS_Subset
<1>2. n \in Nat /\ hyps \in [1..n -> uses] /\ \A h \in uses : \E i \in 1..n : hyps[i] = h
    BY <1>1, SetToSeqLists
<1>3. debts = [i \in 1..n |-> Todo("debt", hyps[i], e, "-")]
    BY <1>2 DEF DebtsOf
<1> HIDE DEF n, hyps
<1>4. debts \in Seq(Writes) /\ Len(debts) = n /\ \A i \in 1..n : debts[i] = Todo("debt", hyps[i], e, "-")
    <2>1. \A i \in 1..n : Todo("debt", hyps[i], e, "-") \in Writes
        BY <1>2, WritesAre
    <2>2. debts \in [1..n -> Writes]
        BY <1>3, <2>1
    <2>3. debts \in Seq(Writes) /\ Len(debts) = n
        BY <1>2, <2>2
    <2>4. QED
        BY <1>3, <2>3
<1> HIDE DEF debts
<1>5. <<Synced>> \in Seq(Writes) /\ <<Released(e)>> \in Seq(Writes)
    BY WritesAre
<1>6. /\ debts \o <<Synced>> \in Seq(Writes)
      /\ Len(debts \o <<Synced>>) = n + 1
      /\ \A i \in 1..n : (debts \o <<Synced>>)[i] = debts[i]
      /\ (debts \o <<Synced>>)[n + 1] = Synced
    BY <1>2, <1>4, <1>5, ConcatProperties
<1> DEFINE both == debts \o <<Synced>>
<1> HIDE DEF both
<1>7. /\ row \in Seq(Writes)
      /\ Len(row) = n + 2
      /\ \A i \in 1..n + 1 : row[i] = both[i]
      /\ row[n + 2] = Released(e)
    BY <1>2, <1>5, <1>6, ConcatProperties DEF both
<1> HIDE DEF row
<1>8. /\ DOMAIN row = 1..n + 2
      /\ \A i \in 1..n : row[i] = Todo("debt", hyps[i], e, "-")
      /\ row[n + 1] = Synced
      /\ row[n + 2] = Released(e)
    BY <1>2, <1>4, <1>6, <1>7, LenProperties DEF both
<1>9. SyncFollows(row)
    <2>1. row[n + 1].do = "sync" /\ row[n + 2].do = "release"
        BY <1>8, WritesAre
    <2>2. \A i \in DOMAIN row : row[i].do = "debt" => i < n + 1 /\ n + 1 \in DOMAIN row
        BY <1>2, <1>8, <2>1
    <2>3. QED
        BY <2>1, <2>2 DEF SyncFollows
<1>10. \A h \in uses : Todo("debt", h, e, "-") \in In(row)
    <2> SUFFICES ASSUME NEW h \in uses PROVE Todo("debt", h, e, "-") \in In(row)
        OBVIOUS
    <2>1. PICK i \in 1..n : hyps[i] = h
        BY <1>2
    <2>2. i \in DOMAIN row /\ row[i] = Todo("debt", h, e, "-")
        BY <1>2, <1>8, <2>1
    <2>3. QED
        BY <2>2 DEF In
<1>11. \A w \in In(row) : w = Synced \/ w = Released(e) \/ \E h \in uses : w = Todo("debt", h, e, "-")
    <2> SUFFICES ASSUME NEW i \in DOMAIN row
                 PROVE  row[i] = Synced \/ row[i] = Released(e) \/ \E h \in uses : row[i] = Todo("debt", h, e, "-")
        BY DEF In
    <2>1. i \in 1..n \/ i = n + 1 \/ i = n + 2
        BY <1>2, <1>8
    <2>2. i \in 1..n => hyps[i] \in uses
        BY <1>2
    <2>3. QED
        BY <1>8, <2>1, <2>2
<1>12. Synced \in In(row)
    <2>1. n + 1 \in DOMAIN row
        BY <1>2, <1>8
    <2>2. QED
        BY <1>8, <2>1 DEF In
<1>13. QED
    BY <1>7, <1>9, <1>10, <1>11, <1>12 DEF row, debts

\* The steps there are.
LEMMA StepCases ==
    ASSUME IInv, [Next]_vars
    PROVE  \/ \E h \in Hypotheses, s \in {"observation", "provisional"} : RegisterStructuralHypothesis(h, s)
           \/ \E h \in Hypotheses, s \in Lifecycles : AdvanceStructuralHypothesis(h, s)
           \/ \E h \in Hypotheses : PreregisterStructureTest(h)
           \/ \E h \in Hypotheses : CreateStructureMaturationFork(h)
           \/ \E h \in Hypotheses : DissolveStructureMaturationFork(h)
           \/ \E h \in Hypotheses, r \in Requirements : ResolveValidationRequirement(h, r)
           \/ \E h \in Hypotheses, s \in Terminal : (s \in Valid => Settled(h)) /\ AssessStructuralHypothesis(h, s)
           \/ \E e \in Experiments : Propose(e)
           \/ \E e \in Experiments : Start(e)
           \/ \E e \in Experiments : Abandon(e)
           \/ \E e \in Experiments : Share(e)
           \/ \E e \in Experiments, sound \in BOOLEAN : Complete(e, sound)
           \/ \E e \in Experiments, sound \in BOOLEAN : Reject(e, sound)
           \/ \E e \in Experiments, uses \in SUBSET Hypotheses, sound \in BOOLEAN : Promote(e, uses, sound)
           \/ WriteAssessed
           \/ WriteDebt
           \/ Sync
           \/ GiveBack
           \/ Restart
           \/ UNCHANGED vars
<1>1. Followed \subseteq Hypotheses
    BY BoundAssumption
<1>2. ASSUME NEW h \in Hypotheses, NEW valid \in BOOLEAN, NEW useful \in BOOLEAN
      PROVE  /\ Verdict(h, valid, useful) \in Terminal
             /\ Verdict(h, valid, useful) \in Valid => Settled(h)
    BY DEF Verdict, Terminal, Valid, Settled
<1>3. ASSUME NEW h \in Followed, Mature(h)
      PROVE  \/ \E s \in Lifecycles : AdvanceStructuralHypothesis(h, s)
             \/ PreregisterStructureTest(h)
             \/ CreateStructureMaturationFork(h)
             \/ DissolveStructureMaturationFork(h)
             \/ \E r \in Requirements : ResolveValidationRequirement(h, r)
             \/ \E s \in Terminal : (s \in Valid => Settled(h)) /\ AssessStructuralHypothesis(h, s)
    <2>1. CASE AssessStructuralHypothesis(h, "inconclusive")
        BY <2>1 DEF Terminal, Valid
    <2>2. CASE \E valid, useful \in BOOLEAN : AssessStructuralHypothesis(h, Verdict(h, valid, useful))
        BY <1>1, <1>2, <2>2
    <2>3. QED
        BY <1>3, <2>1, <2>2 DEF Mature
<1>4. QED
    BY <1>1, <1>3 DEF Next, Discover, Experiment, Write

\* What storing an observation does to the evidence and its marks.
LEMMA ObservedMarks ==
    ASSUME IInv, NEW e \in Experiments, NEW sound \in BOOLEAN, NEW candidate \in BOOLEAN, NEW rest,
           Observed(e, Observation(e, sound, candidate), rest)
    PROVE  /\ evidence' \in [Experiments -> Observations]
           /\ early' \subseteq Experiments /\ early \subseteq early'
           /\ \A d \in Experiments \ {e} : evidence'[d] = evidence[d]
           /\ evidence'[e].sound \/ evidence'[e].shared => evidence'[e].stored
           /\ evidence'[e].shared => ~evidence'[e].debtOpen
           /\ evidence'[e].stored /\ ~evidence'[e].debtOpen /\ About[e] \in Hypotheses =>
                 /\ e \in early' \/ Settled(About[e])
                 /\ HasDebt(About[e]) /\ e \in debt[About[e]].affects => Settled(About[e])
                 /\ candidate /\ ~Conflict(e, Observation(e, sound, candidate)) => Settled(About[e])
           /\ todo' = IF Conflict(e, Observation(e, sound, candidate))
                      THEN <<Released(e)>> ELSE rest \o <<Released(e)>>
<1> DEFINE seen == Observation(e, sound, candidate)
<1>1. DebtSeen(e, candidate) \in BOOLEAN
    BY DEF DebtSeen, InDebt
<1>2. /\ seen \in Observations
      /\ seen.stored /\ ~seen.shared
      /\ seen.debtOpen = DebtSeen(e, candidate)
    BY <1>1 DEF Observation, Observations
<1>3. ~DebtSeen(e, candidate) /\ About[e] \in Hypotheses =>
          IF HasDebt(About[e]) THEN Settled(About[e]) ELSE ~candidate
    BY DEF DebtSeen, Settled
<1>4. evidence \in [Experiments -> Observations] /\ early \subseteq Experiments
    BY DEF IInv, TypeOK
<1>5. /\ evidence[e].sound \/ evidence[e].shared => evidence[e].stored
      /\ evidence[e].shared => ~evidence[e].debtOpen
      /\ evidence[e].stored /\ ~evidence[e].debtOpen /\ About[e] \in Hypotheses =>
            /\ e \in early \/ Settled(About[e])
            /\ HasDebt(About[e]) /\ e \in debt[About[e]].affects => Settled(About[e])
    BY DEF IInv, MarksOK
<1>6. Observed(e, seen, rest)
    OBVIOUS
<1> HIDE DEF seen
<1>7. CASE Conflict(e, seen)
    <2>1. evidence' = evidence /\ early' = early /\ todo' = <<Released(e)>>
        BY <1>6, <1>7 DEF Observed, Then
    <2>2. QED
        BY <1>4, <1>5, <1>7, <2>1 DEF seen
<1>8. CASE ~Conflict(e, seen) /\ evidence[e].stored
    <2>1. evidence[e] = seen
        BY <1>8 DEF Conflict
    <2>2. evidence' = evidence /\ early' = early /\ todo' = rest \o <<Released(e)>>
        BY <1>4, <1>6, <1>8, <2>1 DEF Observed, Then
    <2>3. ~evidence[e].debtOpen /\ About[e] \in Hypotheses /\ candidate => Settled(About[e])
        BY <1>2, <1>3, <2>1
    <2>4. QED
        BY <1>4, <1>5, <1>8, <2>2, <2>3 DEF seen
<1>9. CASE ~Conflict(e, seen) /\ ~evidence[e].stored
    <2>1. /\ evidence' = [evidence EXCEPT ![e] = seen]
          /\ early' = IF About[e] \in Hypotheses /\ ~HasDebt(About[e]) THEN early \cup {e} ELSE early
          /\ todo' = rest \o <<Released(e)>>
        BY <1>6, <1>9 DEF Observed, Then
    <2>2. evidence'[e] = seen /\ \A d \in Experiments \ {e} : evidence'[d] = evidence[d]
        BY <1>4, <2>1
    <2>3. evidence' \in [Experiments -> Observations]
        BY <1>2, <1>4, <2>1
    <2>4. ~seen.debtOpen /\ About[e] \in Hypotheses =>
              /\ e \in early' \/ Settled(About[e])
              /\ HasDebt(About[e]) => Settled(About[e])
              /\ candidate => Settled(About[e])
        BY <1>2, <1>3, <2>1
    <2>5. early' \subseteq Experiments /\ early \subseteq early'
        BY <1>4, <2>1
    <2>6. QED
        BY <1>2, <1>9, <2>1, <2>2, <2>3, <2>4, <2>5 DEF seen
<1>10. QED
    BY <1>7, <1>8, <1>9

\* Every step keeps the types.
LEMMA TypeStep ==
    ASSUME IInv, [Next]_vars
    PROVE  TypeOK'
<1> USE DEF IInv
<1>1. ASSUME NEW h \in Hypotheses, NEW s \in {"observation", "provisional"}, RegisterStructuralHypothesis(h, s)
      PROVE  TypeOK'
    BY <1>1 DEF TypeOK, RegisterStructuralHypothesis, Register, Lifecycles, disk, memory, structures
<1>2. ASSUME NEW h \in Hypotheses, NEW s \in Lifecycles, AdvanceStructuralHypothesis(h, s)
      PROVE  TypeOK'
    BY <1>2 DEF TypeOK, AdvanceStructuralHypothesis, Advance, disk, memory, structures
<1>3. ASSUME NEW h \in Hypotheses, PreregisterStructureTest(h) PROVE TypeOK'
    BY <1>3 DEF TypeOK, PreregisterStructureTest, Preregister, Lifecycles, disk, memory, structures
<1>4. ASSUME NEW h \in Hypotheses, CreateStructureMaturationFork(h) PROVE TypeOK'
    BY <1>4 DEF TypeOK, CreateStructureMaturationFork, CreateFork, Then, disk, memory, structures
<1>5. ASSUME NEW h \in Hypotheses, DissolveStructureMaturationFork(h) PROVE TypeOK'
    BY <1>5 DEF TypeOK, DissolveStructureMaturationFork, DissolveFork, Then, disk, memory, structures
<1>6. ASSUME NEW h \in Hypotheses, NEW r \in Requirements, ResolveValidationRequirement(h, r)
      PROVE  TypeOK'
    <2>1. debt[h] \in Debts
        BY <1>6 DEF TypeOK, ResolveValidationRequirement, Resolve, Then, HasDebt
    <2>2. [debt[h] EXCEPT !.open = @ \ {r}] \in Debts
        BY <2>1 DEF Debts
    <2>3. QED
        BY <1>6, <2>2 DEF TypeOK, ResolveValidationRequirement, Resolve, Then, disk, memory, structures
<1>7. ASSUME NEW h \in Hypotheses, NEW s \in Terminal, s \in Valid => Settled(h), AssessStructuralHypothesis(h, s)
      PROVE  TypeOK'
    BY <1>7 DEF TypeOK, AssessStructuralHypothesis, Assess, Then, Lifecycles, disk, memory, structures
<1>8. ASSUME NEW e \in Experiments, Propose(e) PROVE TypeOK'
    BY <1>8 DEF TypeOK, Propose, disk, memory, structures
<1>9. ASSUME NEW e \in Experiments, Start(e) PROVE TypeOK'
    BY <1>9 DEF TypeOK, Start, disk, memory, structures
<1>10. ASSUME NEW e \in Experiments, Abandon(e) PROVE TypeOK'
    BY <1>10 DEF TypeOK, Abandon, Release, disk, memory, structures
<1>11. ASSUME NEW e \in Experiments, Share(e) PROVE TypeOK'
    <2>1. [evidence[e] EXCEPT !.shared = TRUE] \in Observations
        BY DEF TypeOK, Observations
    <2>2. QED
        BY <1>11, <2>1 DEF TypeOK, Share, disk, memory, structures
<1>12. ASSUME NEW e \in Experiments, NEW sound \in BOOLEAN, Complete(e, sound) PROVE TypeOK'
    <2>1. Observed(e, Observation(e, sound, FALSE), <<>>)
        BY <1>12 DEF Complete
    <2>2. evidence' \in [Experiments -> Observations] /\ early' \subseteq Experiments
        BY <2>1, ObservedMarks
    <2>3. QED
        BY <1>12, <2>2 DEF TypeOK, Complete, disk, memory, structures
<1>13. ASSUME NEW e \in Experiments, NEW sound \in BOOLEAN, Reject(e, sound) PROVE TypeOK'
    <2>1. Observed(e, Observation(e, sound, TRUE), <<>>)
        BY <1>13 DEF Reject
    <2>2. evidence' \in [Experiments -> Observations] /\ early' \subseteq Experiments
        BY <2>1, ObservedMarks
    <2>3. QED
        BY <1>13, <2>2 DEF TypeOK, Reject, disk, memory, structures
<1>14. ASSUME NEW e \in Experiments, NEW uses \in SUBSET Hypotheses, NEW sound \in BOOLEAN, Promote(e, uses, sound)
       PROVE  TypeOK'
    <2>1. Observed(e, Observation(e, sound, TRUE), DebtsOf(e, uses) \o <<Synced>>)
        BY <1>14 DEF Promote
    <2>2. evidence' \in [Experiments -> Observations] /\ early' \subseteq Experiments
        BY <2>1, ObservedMarks
    <2>3. archive' \subseteq Experiments \X SUBSET Hypotheses
        <3>1. archive' \subseteq archive \cup {<<e, uses>>}
            BY <1>14 DEF Promote
        <3>2. <<e, uses>> \in Experiments \X SUBSET Hypotheses
            OBVIOUS
        <3>3. QED
            BY <3>1, <3>2 DEF TypeOK
    <2>4. UNCHANGED <<structures, control, proposals, reservations, restarts>>
        BY <1>14 DEF Promote
    <2>5. QED
        BY <2>2, <2>3, <2>4 DEF TypeOK, structures
<1>15. ASSUME WriteAssessed PROVE TypeOK'
    <2>1. Head(todo) \in Writes /\ Head(todo).do = "assessed"
        BY <1>15, NextWrite DEF WriteAssessed, WriteAssessment, Next1
    <2>2. Head(todo).to \in Terminal
        BY <2>1, WriteIs
    <2>3. QED
        BY <1>15, <2>2 DEF TypeOK, WriteAssessed, WriteAssessment, Next1, disk, memory, structures
<1>16. ASSUME WriteDebt PROVE TypeOK'
    <2>1. Head(todo) \in Writes /\ Head(todo).do = "debt"
        BY <1>16, NextWrite DEF WriteDebt, OpenDebt, Next1
    <2>2. Head(todo).hyp \in Hypotheses /\ Head(todo).exp \in Experiments
        BY <2>1, WriteIs
    <2>3. debt' \in [Hypotheses -> Debts \cup {NoDebt}]
        <3> DEFINE h == Head(todo).hyp
                   e == Head(todo).exp
        <3>1. debt' = [debt EXCEPT ![h] = IF HasDebt(h) THEN [debt[h] EXCEPT !.affects = debt[h].affects \cup {e}]
                                                       ELSE [open |-> Requirements, affects |-> {e}]]
            BY <1>16 DEF TypeOK, WriteDebt, OpenDebt, Next1
        <3>2. [open |-> Requirements, affects |-> {e}] \in Debts
            BY <2>2 DEF Debts
        <3>3. HasDebt(h) => [debt[h] EXCEPT !.affects = debt[h].affects \cup {e}] \in Debts
            BY <2>2 DEF Debts, HasDebt, TypeOK
        <3> HIDE DEF h, e
        <3>4. QED
            BY <3>1, <3>2, <3>3 DEF TypeOK
    <2>4. QED
        BY <1>16, <2>3 DEF TypeOK, WriteDebt, OpenDebt, Next1, disk, memory, structures
<1>17. ASSUME Sync PROVE TypeOK'
    BY <1>17 DEF TypeOK, Sync, Next1, ActiveForks, OpenDebts, disk, memory, structures
<1>18. ASSUME GiveBack PROVE TypeOK'
    BY <1>18 DEF TypeOK, GiveBack, Release, Next1, disk, memory, structures
<1>19. ASSUME Restart PROVE TypeOK'
    BY <1>19 DEF TypeOK, Restart, Forgotten, Then, EmptyControl, disk, memory, structures
<1>20. CASE UNCHANGED vars
    BY <1>20 DEF TypeOK, vars, disk, memory, structures
<1>21. QED
    BY StepCases, <1>1, <1>2, <1>3, <1>4, <1>5, <1>6, <1>7, <1>8, <1>9, <1>10,
       <1>11, <1>12, <1>13, <1>14, <1>15, <1>16, <1>17, <1>18, <1>19, <1>20

\* All that a completion without a candidate leaves.
LEMMA JustReleased ==
    ASSUME NEW e \in Experiments
    PROVE  <<>> \o <<Released(e)>> = <<Released(e)>>
<1>1. <<Released(e)>> \in Seq(Writes)
    BY WritesAre
<1>2. QED
    BY <1>1, ConcatEmptySeq

\* Every operation leaves writes, the synchronization after the debts.
LEMMA TodoStep ==
    ASSUME IInv, [Next]_vars
    PROVE  TodoOK'
<1> USE DEF IInv
<1>1. ASSUME NEW h \in Hypotheses, NEW s \in {"observation", "provisional"}, RegisterStructuralHypothesis(h, s)
      PROVE  TodoOK'
    BY <1>1 DEF TodoOK, RegisterStructuralHypothesis, Register, disk, memory, structures
<1>2. ASSUME NEW h \in Hypotheses, NEW s \in Lifecycles, AdvanceStructuralHypothesis(h, s)
      PROVE  TodoOK'
    BY <1>2 DEF TodoOK, AdvanceStructuralHypothesis, Advance, disk, memory, structures
<1>3. ASSUME NEW h \in Hypotheses, PreregisterStructureTest(h) PROVE TodoOK'
    BY <1>3 DEF TodoOK, PreregisterStructureTest, Preregister, disk, memory, structures
<1>4. ASSUME NEW h \in Hypotheses, CreateStructureMaturationFork(h) PROVE TodoOK'
    <2>1. todo' = <<Synced>>
        BY <1>4 DEF CreateStructureMaturationFork, CreateFork, Then
    <2>2. Synced \in Writes /\ Synced.do # "debt"
        BY WritesAre
    <2>3. QED
        BY <2>1, <2>2, OneWrite DEF TodoOK
<1>5. ASSUME NEW h \in Hypotheses, DissolveStructureMaturationFork(h) PROVE TodoOK'
    <2>1. todo' = <<Synced>>
        BY <1>5 DEF DissolveStructureMaturationFork, DissolveFork, Then
    <2>2. Synced \in Writes /\ Synced.do # "debt"
        BY WritesAre
    <2>3. QED
        BY <2>1, <2>2, OneWrite DEF TodoOK
<1>6. ASSUME NEW h \in Hypotheses, NEW r \in Requirements, ResolveValidationRequirement(h, r)
      PROVE  TodoOK'
    <2>1. todo' = <<Synced>>
        BY <1>6 DEF ResolveValidationRequirement, Resolve, Then
    <2>2. Synced \in Writes /\ Synced.do # "debt"
        BY WritesAre
    <2>3. QED
        BY <2>1, <2>2, OneWrite DEF TodoOK
<1>7. ASSUME NEW h \in Hypotheses, NEW s \in Terminal, s \in Valid => Settled(h), AssessStructuralHypothesis(h, s)
      PROVE  TodoOK'
    <2>1. todo' = <<Todo("assessed", h, NoDebt, s), Synced>>
        BY <1>7 DEF AssessStructuralHypothesis, Assess, Then
    <2>2. /\ Synced \in Writes /\ Synced.do # "debt"
          /\ Todo("assessed", h, NoDebt, s) \in Writes /\ Todo("assessed", h, NoDebt, s).do # "debt"
        BY WritesAre
    <2>3. QED
        BY <2>1, <2>2, TwoWrites DEF TodoOK
<1>8. ASSUME NEW e \in Experiments, Propose(e) PROVE TodoOK'
    BY <1>8 DEF TodoOK, Propose, disk, memory, structures
<1>9. ASSUME NEW e \in Experiments, Start(e) PROVE TodoOK'
    BY <1>9 DEF TodoOK, Start, disk, memory, structures
<1>10. ASSUME NEW e \in Experiments, Abandon(e) PROVE TodoOK'
    BY <1>10 DEF TodoOK, Abandon, Release, disk, memory, structures
<1>11. ASSUME NEW e \in Experiments, Share(e) PROVE TodoOK'
    BY <1>11 DEF TodoOK, Share, disk, memory, structures
<1>12. ASSUME NEW e \in Experiments, NEW sound \in BOOLEAN, Complete(e, sound) PROVE TodoOK'
    <2>1. Observed(e, Observation(e, sound, FALSE), <<>>)
        BY <1>12 DEF Complete
    <2>2. todo' = <<Released(e)>>
        BY <2>1, JustReleased DEF Observed, Then
    <2>3. Released(e) \in Writes /\ Released(e).do # "debt"
        BY WritesAre
    <2>4. QED
        BY <2>2, <2>3, OneWrite DEF TodoOK
<1>13. ASSUME NEW e \in Experiments, NEW sound \in BOOLEAN, Reject(e, sound) PROVE TodoOK'
    <2>1. Observed(e, Observation(e, sound, TRUE), <<>>)
        BY <1>13 DEF Reject
    <2>2. todo' = <<Released(e)>>
        BY <2>1, JustReleased DEF Observed, Then
    <2>3. Released(e) \in Writes /\ Released(e).do # "debt"
        BY WritesAre
    <2>4. QED
        BY <2>2, <2>3, OneWrite DEF TodoOK
<1>14. ASSUME NEW e \in Experiments, NEW uses \in SUBSET Hypotheses, NEW sound \in BOOLEAN, Promote(e, uses, sound)
       PROVE  TodoOK'
    <2>1. \/ todo' = <<Released(e)>>
          \/ todo' = (DebtsOf(e, uses) \o <<Synced>>) \o <<Released(e)>>
        BY <1>14 DEF Promote, Observed, Then
    <2>2. Released(e) \in Writes /\ Released(e).do # "debt"
        BY WritesAre
    <2>3. <<Released(e)>> \in Seq(Writes) /\ SyncFollows(<<Released(e)>>)
        BY <2>2, OneWrite
    <2>4. QED
        BY <2>1, <2>3, PromoteRow DEF TodoOK
<1>15. ASSUME WriteAssessed PROVE TodoOK'
    <2>1. todo # <<>> /\ todo' = Tail(todo)
        BY <1>15 DEF WriteAssessed, WriteAssessment, Next1
    <2>2. Tail(todo) \in Seq(Writes) /\ SyncFollows(Tail(todo))
        BY <2>1, NextWrite
    <2>3. QED
        BY <2>1, <2>2 DEF TodoOK
<1>16. ASSUME WriteDebt PROVE TodoOK'
    <2>1. todo # <<>> /\ todo' = Tail(todo)
        BY <1>16 DEF WriteDebt, OpenDebt, Next1
    <2>2. Tail(todo) \in Seq(Writes) /\ SyncFollows(Tail(todo))
        BY <2>1, NextWrite
    <2>3. QED
        BY <2>1, <2>2 DEF TodoOK
<1>17. ASSUME Sync PROVE TodoOK'
    <2>1. todo # <<>> /\ todo' = Tail(todo)
        BY <1>17 DEF Sync, Next1
    <2>2. Tail(todo) \in Seq(Writes) /\ SyncFollows(Tail(todo))
        BY <2>1, NextWrite
    <2>3. QED
        BY <2>1, <2>2 DEF TodoOK
<1>18. ASSUME GiveBack PROVE TodoOK'
    <2>1. todo # <<>> /\ todo' = Tail(todo)
        BY <1>18 DEF GiveBack, Release, Next1
    <2>2. Tail(todo) \in Seq(Writes) /\ SyncFollows(Tail(todo))
        BY <2>1, NextWrite
    <2>3. QED
        BY <2>1, <2>2 DEF TodoOK
<1>19. ASSUME Restart PROVE TodoOK'
    BY <1>19, NothingLeft DEF TodoOK, Restart, Forgotten, Then
<1>20. CASE UNCHANGED vars
    BY <1>20 DEF TodoOK, vars, disk, memory, structures
<1>21. QED
    BY StepCases, <1>1, <1>2, <1>3, <1>4, <1>5, <1>6, <1>7, <1>8, <1>9, <1>10,
       <1>11, <1>12, <1>13, <1>14, <1>15, <1>16, <1>17, <1>18, <1>19, <1>20

\* Debts are moved by two actions.
LEMMA DebtMovers ==
    ASSUME IInv, [Next]_vars
    PROVE  debt' = debt \/ WriteDebt \/ \E g \in Hypotheses, r \in Requirements : ResolveValidationRequirement(g, r)
BY StepCases DEF vars, disk, structures,
       RegisterStructuralHypothesis, Register,
       AdvanceStructuralHypothesis, Advance,
       PreregisterStructureTest, Preregister,
       CreateStructureMaturationFork, CreateFork, Then,
       DissolveStructureMaturationFork, DissolveFork, Then,
       AssessStructuralHypothesis, Assess, Then,
       Propose,
       Start,
       Abandon, Release,
       Share,
       Complete,
       Reject,
       Promote,
       WriteAssessed, WriteAssessment, Next1,
       Sync, Next1,
       GiveBack, Release, Next1,
       Restart, Forgotten, Then

\* A debt that is there stays: it is never taken back, what is resolved stays
\* resolved, and whom it names it names for ever.
LEMMA DebtsStay ==
    ASSUME IInv, [Next]_vars, NEW h \in Hypotheses, HasDebt(h)
    PROVE  /\ HasDebt(h)' /\ debt'[h].affects \in SUBSET Experiments
           /\ debt[h].affects \subseteq debt'[h].affects
           /\ Settled(h) => Settled(h)'
<1> USE DEF IInv
<1>1. debt[h] \in Debts /\ debt \in [Hypotheses -> Debts \cup {NoDebt}]
    BY DEF TypeOK, HasDebt
<1>2. ASSUME NEW g \in Hypotheses, NEW r \in Requirements, ResolveValidationRequirement(g, r)
      PROVE  debt'[h] \in Debts /\ debt'[h].affects = debt[h].affects /\ debt'[h].open \subseteq debt[h].open
    BY <1>1, <1>2 DEF ResolveValidationRequirement, Resolve, Debts
<1>3. ASSUME WriteDebt
      PROVE  debt'[h] \in Debts /\ debt[h].affects \subseteq debt'[h].affects /\ debt'[h].open = debt[h].open
    <2> DEFINE w == Head(todo)
    <2>1. w \in Writes /\ w.do = "debt"
        BY <1>3, NextWrite DEF WriteDebt, Next1
    <2>2. w.exp \in Experiments
        BY <2>1, WriteIs
    <2>3. debt' = [debt EXCEPT ![w.hyp] = IF HasDebt(w.hyp)
                                          THEN [debt[w.hyp] EXCEPT !.affects = debt[w.hyp].affects \cup {w.exp}]
                                          ELSE [open |-> Requirements, affects |-> {w.exp}]]
        BY <1>3 DEF WriteDebt, OpenDebt
    <2> HIDE DEF w
    <2>4. CASE w.hyp = h
        <3>1. debt'[h] = [debt[h] EXCEPT !.affects = debt[h].affects \cup {w.exp}]
            BY <1>1, <2>3, <2>4
        <3>2. QED
            BY <1>1, <2>2, <3>1 DEF Debts
    <2>5. CASE w.hyp # h
        <3>1. debt'[h] = debt[h]
            BY <1>1, <2>3, <2>5
        <3>2. QED
            BY <1>1, <3>1
    <2>6. QED
        BY <2>4, <2>5
<1>4. debt' = debt \/ WriteDebt \/ \E g \in Hypotheses, r \in Requirements : ResolveValidationRequirement(g, r)
    BY DebtMovers
<1>5. /\ debt'[h] \in Debts /\ debt[h].affects \subseteq debt'[h].affects
      /\ debt'[h].open \subseteq debt[h].open
    BY <1>1, <1>2, <1>3, <1>4
<1>6. HasDebt(h)'
    BY <1>5, NoDebtAssumption DEF HasDebt, Debts
<1>7. QED
    BY <1>5, <1>6 DEF Settled, HasDebt, InDebt, Debts

\* What the candidates owe stays owed when nothing that remains to be done is dropped.
LEMMA StillOwed ==
    ASSUME IInv, [Next]_vars, archive' = archive, In(todo) = {} \/ todo' = todo
    PROVE  OwedOK'
<1> SUFFICES ASSUME NEW c \in archive, NEW h \in c[2]
             PROVE  (HasDebt(h) /\ c[1] \in debt[h].affects)' \/ Todo("debt", h, c[1], "-") \in In(todo')
    BY DEF OwedOK
<1>1. (HasDebt(h) /\ c[1] \in debt[h].affects) \/ Todo("debt", h, c[1], "-") \in In(todo)
    BY DEF IInv, OwedOK
<1>2. h \in Hypotheses
    BY DEF IInv, TypeOK
<1>3. QED
    BY <1>1, <1>2, DebtsStay

\* No candidate of the archive is forgotten by a debt.
LEMMA OwedStep ==
    ASSUME IInv, [Next]_vars
    PROVE  OwedOK'
<1> USE DEF IInv
<1>1. ASSUME NEW h \in Hypotheses, NEW s \in {"observation", "provisional"}, RegisterStructuralHypothesis(h, s)
      PROVE  OwedOK'
    <2>1. archive' = archive /\ (In(todo) = {} \/ todo' = todo)
        BY <1>1, NothingLeft DEF RegisterStructuralHypothesis, Register, Ready, memory
    <2>2. QED
        BY <2>1, StillOwed
<1>2. ASSUME NEW h \in Hypotheses, NEW s \in Lifecycles, AdvanceStructuralHypothesis(h, s)
      PROVE  OwedOK'
    <2>1. archive' = archive /\ (In(todo) = {} \/ todo' = todo)
        BY <1>2, NothingLeft DEF AdvanceStructuralHypothesis, Advance, Ready, memory
    <2>2. QED
        BY <2>1, StillOwed
<1>3. ASSUME NEW h \in Hypotheses, PreregisterStructureTest(h) PROVE OwedOK'
    <2>1. archive' = archive /\ (In(todo) = {} \/ todo' = todo)
        BY <1>3, NothingLeft DEF PreregisterStructureTest, Preregister, Ready, memory
    <2>2. QED
        BY <2>1, StillOwed
<1>4. ASSUME NEW h \in Hypotheses, CreateStructureMaturationFork(h) PROVE OwedOK'
    <2>1. archive' = archive /\ (In(todo) = {} \/ todo' = todo)
        BY <1>4, NothingLeft DEF CreateStructureMaturationFork, CreateFork, Then, Ready, memory
    <2>2. QED
        BY <2>1, StillOwed
<1>5. ASSUME NEW h \in Hypotheses, DissolveStructureMaturationFork(h) PROVE OwedOK'
    <2>1. archive' = archive /\ (In(todo) = {} \/ todo' = todo)
        BY <1>5, NothingLeft DEF DissolveStructureMaturationFork, DissolveFork, Then, Ready, memory
    <2>2. QED
        BY <2>1, StillOwed
<1>6. ASSUME NEW h \in Hypotheses, NEW r \in Requirements, ResolveValidationRequirement(h, r)
      PROVE  OwedOK'
    <2>1. archive' = archive /\ (In(todo) = {} \/ todo' = todo)
        BY <1>6, NothingLeft DEF ResolveValidationRequirement, Resolve, Then, Ready, memory
    <2>2. QED
        BY <2>1, StillOwed
<1>7. ASSUME NEW h \in Hypotheses, NEW s \in Terminal, s \in Valid => Settled(h), AssessStructuralHypothesis(h, s)
      PROVE  OwedOK'
    <2>1. archive' = archive /\ (In(todo) = {} \/ todo' = todo)
        BY <1>7, NothingLeft DEF AssessStructuralHypothesis, Assess, Then, Ready, memory
    <2>2. QED
        BY <2>1, StillOwed
<1>8. ASSUME NEW e \in Experiments, Propose(e) PROVE OwedOK'
    <2>1. archive' = archive /\ (In(todo) = {} \/ todo' = todo)
        BY <1>8, NothingLeft DEF Propose, Ready, memory
    <2>2. QED
        BY <2>1, StillOwed
<1>9. ASSUME NEW e \in Experiments, Start(e) PROVE OwedOK'
    <2>1. archive' = archive /\ (In(todo) = {} \/ todo' = todo)
        BY <1>9, NothingLeft DEF Start, Ready, memory
    <2>2. QED
        BY <2>1, StillOwed
<1>10. ASSUME NEW e \in Experiments, Abandon(e) PROVE OwedOK'
    <2>1. archive' = archive /\ (In(todo) = {} \/ todo' = todo)
        BY <1>10, NothingLeft DEF Abandon, Release, Ready, memory
    <2>2. QED
        BY <2>1, StillOwed
<1>11. ASSUME NEW e \in Experiments, Share(e) PROVE OwedOK'
    <2>1. archive' = archive /\ (In(todo) = {} \/ todo' = todo)
        BY <1>11, NothingLeft DEF Share, Ready, memory
    <2>2. QED
        BY <2>1, StillOwed
<1>12. ASSUME NEW e \in Experiments, NEW sound \in BOOLEAN, Complete(e, sound) PROVE OwedOK'
    <2>1. archive' = archive /\ (In(todo) = {} \/ todo' = todo)
        BY <1>12, NothingLeft DEF Complete, Ready, memory
    <2>2. QED
        BY <2>1, StillOwed
<1>13. ASSUME NEW e \in Experiments, NEW sound \in BOOLEAN, Reject(e, sound) PROVE OwedOK'
    <2>1. archive' = archive /\ (In(todo) = {} \/ todo' = todo)
        BY <1>13, NothingLeft DEF Reject, Ready, memory
    <2>2. QED
        BY <2>1, StillOwed
<1>14. ASSUME NEW e \in Experiments, NEW uses \in SUBSET Hypotheses, NEW sound \in BOOLEAN, Promote(e, uses, sound)
       PROVE  OwedOK'
    <2>1. \/ archive' = archive
          \/ /\ archive' = archive \cup {<<e, uses>>}
             /\ todo' = (DebtsOf(e, uses) \o <<Synced>>) \o <<Released(e)>>
        BY <1>14 DEF Promote, Observed, Then
    <2>2. In(todo) = {}
        BY <1>14, NothingLeft DEF Promote, Ready
    <2>3. CASE archive' = archive
        BY <2>2, <2>3, StillOwed
    <2>4. CASE archive' = archive \cup {<<e, uses>>} /\ todo' = (DebtsOf(e, uses) \o <<Synced>>) \o <<Released(e)>>
        <3>1. \A h \in uses : Todo("debt", h, e, "-") \in In(todo')
            BY <2>4, PromoteRow
        <3>2. SUFFICES ASSUME NEW c \in archive', NEW h \in c[2]
                       PROVE  (HasDebt(h) /\ c[1] \in debt[h].affects)' \/ Todo("debt", h, c[1], "-") \in In(todo')
            BY DEF OwedOK
        <3>3. CASE c = <<e, uses>>
            BY <3>1, <3>3
        <3>4. CASE c \in archive
            <4>1. HasDebt(h) /\ c[1] \in debt[h].affects
                BY <2>2, <3>4 DEF OwedOK
            <4>2. h \in Hypotheses
                BY <3>4 DEF TypeOK
            <4>3. QED
                BY <4>1, <4>2, DebtsStay
        <3>5. QED
            BY <2>4, <3>3, <3>4
    <2>5. QED
        BY <2>1, <2>3, <2>4
<1>15. ASSUME WriteAssessed PROVE OwedOK'
    <2>1. todo # <<>> /\ todo' = Tail(todo) /\ Head(todo).do = "assessed"
        BY <1>15 DEF WriteAssessed, WriteAssessment, Next1
    <2>2. /\ Head(todo) \in Writes /\ In(todo) = {Head(todo)} \cup In(Tail(todo))
          /\ Tail(todo) \in Seq(Writes) /\ SyncFollows(Tail(todo))
          /\ Head(todo).do = "debt" => \E w \in In(Tail(todo)) : w.do = "sync"
        BY <2>1, NextWrite
    <2>3. archive' = archive
        BY <1>15 DEF WriteAssessed, WriteAssessment, Next1, memory
    <2>4. SUFFICES ASSUME NEW c \in archive, NEW h \in c[2]
                   PROVE  (HasDebt(h) /\ c[1] \in debt[h].affects)' \/ Todo("debt", h, c[1], "-") \in In(todo')
        BY <2>3 DEF OwedOK
    <2>5. (HasDebt(h) /\ c[1] \in debt[h].affects) \/ Todo("debt", h, c[1], "-") \in In(todo)
        BY DEF OwedOK
    <2>6. h \in Hypotheses /\ c[1] \in Experiments
        BY DEF TypeOK
    <2>7. HasDebt(h) /\ c[1] \in debt[h].affects => (HasDebt(h) /\ c[1] \in debt[h].affects)'
        BY <2>6, DebtsStay
    <2>8. Todo("debt", h, c[1], "-").do = "debt"
        BY DEF Todo
    <2>9. QED
        BY <2>1, <2>2, <2>5, <2>7, <2>8
<1>16. ASSUME WriteDebt PROVE OwedOK'
    <2>1. todo # <<>> /\ todo' = Tail(todo) /\ Head(todo).do = "debt"
        BY <1>16 DEF WriteDebt, OpenDebt, Next1
    <2>2. /\ Head(todo) \in Writes /\ In(todo) = {Head(todo)} \cup In(Tail(todo))
          /\ Tail(todo) \in Seq(Writes) /\ SyncFollows(Tail(todo))
          /\ Head(todo).do = "debt" => \E w \in In(Tail(todo)) : w.do = "sync"
        BY <2>1, NextWrite
    <2>3. archive' = archive
        BY <1>16 DEF WriteDebt, OpenDebt, Next1, memory
    <2>4. SUFFICES ASSUME NEW c \in archive, NEW h \in c[2]
                   PROVE  (HasDebt(h) /\ c[1] \in debt[h].affects)' \/ Todo("debt", h, c[1], "-") \in In(todo')
        BY <2>3 DEF OwedOK
    <2>5. (HasDebt(h) /\ c[1] \in debt[h].affects) \/ Todo("debt", h, c[1], "-") \in In(todo)
        BY DEF OwedOK
    <2>6. h \in Hypotheses /\ c[1] \in Experiments
        BY DEF TypeOK
    <2>7. HasDebt(h) /\ c[1] \in debt[h].affects => (HasDebt(h) /\ c[1] \in debt[h].affects)'
        BY <2>6, DebtsStay
    <2>8. Todo("debt", h, c[1], "-").do = "debt"
        BY DEF Todo
    <2>9. CASE Todo("debt", h, c[1], "-") = Head(todo)
        <3>1. Head(todo).hyp = h /\ Head(todo).exp = c[1]
            BY <2>9 DEF Todo
        <3>2. debt' = [debt EXCEPT ![h] = IF HasDebt(h)
                                          THEN [debt[h] EXCEPT !.affects = debt[h].affects \cup {c[1]}]
                                          ELSE [open |-> Requirements, affects |-> {c[1]}]]
            BY <1>16, <3>1 DEF WriteDebt, OpenDebt
        <3>3. debt \in [Hypotheses -> Debts \cup {NoDebt}] /\ (HasDebt(h) => debt[h] \in Debts)
            BY <2>6 DEF TypeOK, HasDebt
        <3>4. debt'[h] = IF HasDebt(h) THEN [debt[h] EXCEPT !.affects = debt[h].affects \cup {c[1]}]
                                       ELSE [open |-> Requirements, affects |-> {c[1]}]
            BY <2>6, <3>2, <3>3
        <3>5. debt'[h] \in Debts /\ c[1] \in debt'[h].affects
            BY <2>6, <3>3, <3>4 DEF Debts
        <3>6. QED
            BY <3>5, NoDebtAssumption DEF HasDebt, Debts
    <2>10. QED
        BY <2>1, <2>2, <2>5, <2>7, <2>9
<1>17. ASSUME Sync PROVE OwedOK'
    <2>1. todo # <<>> /\ todo' = Tail(todo) /\ Head(todo).do = "sync"
        BY <1>17 DEF Sync, Next1
    <2>2. /\ Head(todo) \in Writes /\ In(todo) = {Head(todo)} \cup In(Tail(todo))
          /\ Tail(todo) \in Seq(Writes) /\ SyncFollows(Tail(todo))
          /\ Head(todo).do = "debt" => \E w \in In(Tail(todo)) : w.do = "sync"
        BY <2>1, NextWrite
    <2>3. archive' = archive
        BY <1>17 DEF Sync, Next1, memory
    <2>4. SUFFICES ASSUME NEW c \in archive, NEW h \in c[2]
                   PROVE  (HasDebt(h) /\ c[1] \in debt[h].affects)' \/ Todo("debt", h, c[1], "-") \in In(todo')
        BY <2>3 DEF OwedOK
    <2>5. (HasDebt(h) /\ c[1] \in debt[h].affects) \/ Todo("debt", h, c[1], "-") \in In(todo)
        BY DEF OwedOK
    <2>6. h \in Hypotheses /\ c[1] \in Experiments
        BY DEF TypeOK
    <2>7. HasDebt(h) /\ c[1] \in debt[h].affects => (HasDebt(h) /\ c[1] \in debt[h].affects)'
        BY <2>6, DebtsStay
    <2>8. Todo("debt", h, c[1], "-").do = "debt"
        BY DEF Todo
    <2>9. QED
        BY <2>1, <2>2, <2>5, <2>7, <2>8
<1>18. ASSUME GiveBack PROVE OwedOK'
    <2>1. todo # <<>> /\ todo' = Tail(todo) /\ Head(todo).do = "release"
        BY <1>18 DEF GiveBack, Release, Next1
    <2>2. /\ Head(todo) \in Writes /\ In(todo) = {Head(todo)} \cup In(Tail(todo))
          /\ Tail(todo) \in Seq(Writes) /\ SyncFollows(Tail(todo))
          /\ Head(todo).do = "debt" => \E w \in In(Tail(todo)) : w.do = "sync"
        BY <2>1, NextWrite
    <2>3. archive' = archive
        BY <1>18 DEF GiveBack, Release, Next1, memory
    <2>4. SUFFICES ASSUME NEW c \in archive, NEW h \in c[2]
                   PROVE  (HasDebt(h) /\ c[1] \in debt[h].affects)' \/ Todo("debt", h, c[1], "-") \in In(todo')
        BY <2>3 DEF OwedOK
    <2>5. (HasDebt(h) /\ c[1] \in debt[h].affects) \/ Todo("debt", h, c[1], "-") \in In(todo)
        BY DEF OwedOK
    <2>6. h \in Hypotheses /\ c[1] \in Experiments
        BY DEF TypeOK
    <2>7. HasDebt(h) /\ c[1] \in debt[h].affects => (HasDebt(h) /\ c[1] \in debt[h].affects)'
        BY <2>6, DebtsStay
    <2>8. Todo("debt", h, c[1], "-").do = "debt"
        BY DEF Todo
    <2>9. QED
        BY <2>1, <2>2, <2>5, <2>7, <2>8
<1>19. ASSUME Restart PROVE OwedOK'
    BY <1>19 DEF OwedOK, Restart, Forgotten, Then
<1>20. CASE UNCHANGED vars
    <2>1. archive' = archive /\ todo' = todo
        BY <1>20 DEF vars, memory
    <2>2. QED
        BY <2>1, StillOwed
<1>21. QED
    BY StepCases, <1>1, <1>2, <1>3, <1>4, <1>5, <1>6, <1>7, <1>8, <1>9, <1>10,
       <1>11, <1>12, <1>13, <1>14, <1>15, <1>16, <1>17, <1>18, <1>19, <1>20

\* A step leaves no debt to be written that was not there before, but for a promotion.
NoNewDebt == \A w \in In(todo') : w.do = "debt" => w \in In(todo)
Promotes == \E e \in Experiments, uses \in SUBSET Hypotheses, sound \in BOOLEAN : Promote(e, uses, sound)

\* Only a promotion leaves debts to be written.
LEMMA NewDebts ==
    ASSUME IInv, [Next]_vars
    PROVE  NoNewDebt \/ Promotes
<1> USE DEF IInv
<1>1. ASSUME NEW h \in Hypotheses, NEW s \in {"observation", "provisional"}, RegisterStructuralHypothesis(h, s)
      PROVE  NoNewDebt \/ Promotes
    BY <1>1 DEF NoNewDebt, RegisterStructuralHypothesis, Register, disk, memory
<1>2. ASSUME NEW h \in Hypotheses, NEW s \in Lifecycles, AdvanceStructuralHypothesis(h, s)
      PROVE  NoNewDebt \/ Promotes
    BY <1>2 DEF NoNewDebt, AdvanceStructuralHypothesis, Advance, disk, memory
<1>3. ASSUME NEW h \in Hypotheses, PreregisterStructureTest(h) PROVE NoNewDebt \/ Promotes
    BY <1>3 DEF NoNewDebt, PreregisterStructureTest, Preregister, disk, memory
<1>4. ASSUME NEW h \in Hypotheses, CreateStructureMaturationFork(h) PROVE NoNewDebt \/ Promotes
    <2>1. todo' = <<Synced>>
        BY <1>4 DEF CreateStructureMaturationFork, CreateFork, Then
    <2>2. In(todo') = {Synced} /\ Synced.do = "sync"
        BY <2>1, WritesAre, OneWrite
    <2>3. QED
        BY <2>2 DEF NoNewDebt
<1>5. ASSUME NEW h \in Hypotheses, DissolveStructureMaturationFork(h) PROVE NoNewDebt \/ Promotes
    <2>1. todo' = <<Synced>>
        BY <1>5 DEF DissolveStructureMaturationFork, DissolveFork, Then
    <2>2. In(todo') = {Synced} /\ Synced.do = "sync"
        BY <2>1, WritesAre, OneWrite
    <2>3. QED
        BY <2>2 DEF NoNewDebt
<1>6. ASSUME NEW h \in Hypotheses, NEW r \in Requirements, ResolveValidationRequirement(h, r)
      PROVE  NoNewDebt \/ Promotes
    <2>1. todo' = <<Synced>>
        BY <1>6 DEF ResolveValidationRequirement, Resolve, Then
    <2>2. In(todo') = {Synced} /\ Synced.do = "sync"
        BY <2>1, WritesAre, OneWrite
    <2>3. QED
        BY <2>2 DEF NoNewDebt
<1>7. ASSUME NEW h \in Hypotheses, NEW s \in Terminal, s \in Valid => Settled(h), AssessStructuralHypothesis(h, s)
      PROVE  NoNewDebt \/ Promotes
    <2> DEFINE w == Todo("assessed", h, NoDebt, s)
    <2>1. todo' = <<w, Synced>>
        BY <1>7 DEF AssessStructuralHypothesis, Assess, Then
    <2>2. Synced \in Writes /\ Synced.do = "sync" /\ w \in Writes /\ w.do = "assessed"
        BY WritesAre
    <2> HIDE DEF w
    <2>3. In(todo') = {w, Synced}
        BY <2>1, <2>2, TwoWrites
    <2>4. QED
        BY <2>2, <2>3 DEF NoNewDebt
<1>8. ASSUME NEW e \in Experiments, Propose(e) PROVE NoNewDebt \/ Promotes
    BY <1>8 DEF NoNewDebt, Propose, disk, memory
<1>9. ASSUME NEW e \in Experiments, Start(e) PROVE NoNewDebt \/ Promotes
    BY <1>9 DEF NoNewDebt, Start, disk, memory
<1>10. ASSUME NEW e \in Experiments, Abandon(e) PROVE NoNewDebt \/ Promotes
    BY <1>10 DEF NoNewDebt, Abandon, Release, disk, memory
<1>11. ASSUME NEW e \in Experiments, Share(e) PROVE NoNewDebt \/ Promotes
    BY <1>11 DEF NoNewDebt, Share, disk, memory
<1>12. ASSUME NEW e \in Experiments, NEW sound \in BOOLEAN, Complete(e, sound)
       PROVE  NoNewDebt \/ Promotes
    <2>1. Observed(e, Observation(e, sound, FALSE), <<>>)
        BY <1>12 DEF Complete
    <2>2. todo' = <<Released(e)>>
        BY <2>1, JustReleased DEF Observed, Then
    <2>3. Released(e) \in Writes /\ Released(e).do = "release"
        BY WritesAre
    <2>4. In(todo') = {Released(e)}
        BY <2>2, <2>3, OneWrite
    <2>5. QED
        BY <2>3, <2>4 DEF NoNewDebt
<1>13. ASSUME NEW e \in Experiments, NEW sound \in BOOLEAN, Reject(e, sound)
       PROVE  NoNewDebt \/ Promotes
    <2>1. Observed(e, Observation(e, sound, TRUE), <<>>)
        BY <1>13 DEF Reject
    <2>2. todo' = <<Released(e)>>
        BY <2>1, JustReleased DEF Observed, Then
    <2>3. Released(e) \in Writes /\ Released(e).do = "release"
        BY WritesAre
    <2>4. In(todo') = {Released(e)}
        BY <2>2, <2>3, OneWrite
    <2>5. QED
        BY <2>3, <2>4 DEF NoNewDebt
<1>14. ASSUME NEW e \in Experiments, NEW uses \in SUBSET Hypotheses, NEW sound \in BOOLEAN, Promote(e, uses, sound)
       PROVE  NoNewDebt \/ Promotes
    BY <1>14 DEF Promotes
<1>15. ASSUME WriteAssessed PROVE NoNewDebt \/ Promotes
    <2>1. todo # <<>> /\ todo' = Tail(todo)
        BY <1>15 DEF WriteAssessed, WriteAssessment, Next1
    <2>2. In(todo) = {Head(todo)} \cup In(Tail(todo))
        BY <2>1, NextWrite
    <2>3. QED
        BY <2>1, <2>2 DEF NoNewDebt
<1>16. ASSUME WriteDebt PROVE NoNewDebt \/ Promotes
    <2>1. todo # <<>> /\ todo' = Tail(todo)
        BY <1>16 DEF WriteDebt, OpenDebt, Next1
    <2>2. In(todo) = {Head(todo)} \cup In(Tail(todo))
        BY <2>1, NextWrite
    <2>3. QED
        BY <2>1, <2>2 DEF NoNewDebt
<1>17. ASSUME Sync PROVE NoNewDebt \/ Promotes
    <2>1. todo # <<>> /\ todo' = Tail(todo)
        BY <1>17 DEF Sync, Next1
    <2>2. In(todo) = {Head(todo)} \cup In(Tail(todo))
        BY <2>1, NextWrite
    <2>3. QED
        BY <2>1, <2>2 DEF NoNewDebt
<1>18. ASSUME GiveBack PROVE NoNewDebt \/ Promotes
    <2>1. todo # <<>> /\ todo' = Tail(todo)
        BY <1>18 DEF GiveBack, Release, Next1
    <2>2. In(todo) = {Head(todo)} \cup In(Tail(todo))
        BY <2>1, NextWrite
    <2>3. QED
        BY <2>1, <2>2 DEF NoNewDebt
<1>19. ASSUME Restart PROVE NoNewDebt \/ Promotes
    BY <1>19, NothingLeft DEF NoNewDebt, Restart, Forgotten, Then
<1>20. CASE UNCHANGED vars
    BY <1>20 DEF NoNewDebt, vars
<1>21. QED
    BY StepCases, <1>1, <1>2, <1>3, <1>4, <1>5, <1>6, <1>7, <1>8, <1>9, <1>10,
       <1>11, <1>12, <1>13, <1>14, <1>15, <1>16, <1>17, <1>18, <1>19, <1>20

\* Evidence is moved by four actions.
LEMMA EvidenceMovers ==
    ASSUME IInv, [Next]_vars
    PROVE  \/ evidence' = evidence /\ early' = early
           \/ \E e \in Experiments : Share(e)
           \/ \E e \in Experiments, sound \in BOOLEAN : Complete(e, sound) \/ Reject(e, sound)
           \/ Promotes
BY StepCases DEF vars, disk, structures, Promotes,
       RegisterStructuralHypothesis, Register,
       AdvanceStructuralHypothesis, Advance,
       PreregisterStructureTest, Preregister,
       CreateStructureMaturationFork, CreateFork, Then,
       DissolveStructureMaturationFork, DissolveFork, Then,
       ResolveValidationRequirement, Resolve, Then,
       AssessStructuralHypothesis, Assess, Then,
       Propose,
       Start,
       Abandon, Release,
       WriteAssessed, WriteAssessment, Next1,
       WriteDebt, OpenDebt, Next1,
       Sync, Next1,
       GiveBack, Release, Next1,
       Restart, Forgotten, Then

\* A structure that comes to owe something for an experiment owes it by a write that
\* remained to be made.
LEMMA NewlyNamed ==
    ASSUME IInv, [Next]_vars, NEW h \in Hypotheses, NEW e \in Experiments,
           HasDebt(h)', e \in debt'[h].affects, ~(HasDebt(h) /\ e \in debt[h].affects)
    PROVE  Todo("debt", h, e, "-") \in In(todo)
<1> USE DEF IInv
<1>1. debt \in [Hypotheses -> Debts \cup {NoDebt}] /\ (HasDebt(h) => debt[h] \in Debts)
    BY DEF TypeOK, HasDebt
<1>2. ASSUME NEW g \in Hypotheses, NEW r \in Requirements, ResolveValidationRequirement(g, r)
      PROVE  FALSE
    BY <1>1, <1>2 DEF ResolveValidationRequirement, Resolve, Debts, HasDebt
<1>3. CASE WriteDebt
    <2> DEFINE w == Head(todo)
    <2>1. w \in Writes /\ w.do = "debt" /\ w \in In(todo)
        BY <1>3, NextWrite DEF WriteDebt, Next1
    <2>2. w.hyp \in Hypotheses /\ w.exp \in Experiments /\ w = Todo("debt", w.hyp, w.exp, "-")
        BY <2>1, WriteIs
    <2>3. debt' = [debt EXCEPT ![w.hyp] = IF HasDebt(w.hyp)
                                          THEN [debt[w.hyp] EXCEPT !.affects = debt[w.hyp].affects \cup {w.exp}]
                                          ELSE [open |-> Requirements, affects |-> {w.exp}]]
        BY <1>3 DEF WriteDebt, OpenDebt
    <2> HIDE DEF w
    <2>4. w.hyp = h
        BY <1>1, <2>3 DEF HasDebt
    <2>5. debt'[h] = IF HasDebt(h) THEN [debt[h] EXCEPT !.affects = debt[h].affects \cup {w.exp}]
                                   ELSE [open |-> Requirements, affects |-> {w.exp}]
        BY <1>1, <2>3, <2>4
    <2>6. w.exp = e
        BY <1>1, <2>5 DEF Debts
    <2>7. QED
        BY <2>1, <2>2, <2>4, <2>6
<1>4. debt' # debt
    BY DEF HasDebt
<1>5. debt' = debt \/ WriteDebt \/ \E g \in Hypotheses, r \in Requirements : ResolveValidationRequirement(g, r)
    BY DebtMovers
<1>6. QED
    BY <1>2, <1>3, <1>4, <1>5

\* What is known of the marks of one experiment.
Mark(e) ==
    /\ evidence[e].sound \/ evidence[e].shared => evidence[e].stored
    /\ evidence[e].shared => ~evidence[e].debtOpen
    /\ evidence[e].stored /\ ~evidence[e].debtOpen /\ About[e] \in Hypotheses =>
          /\ e \in early \/ Settled(About[e])
          /\ HasDebt(About[e]) /\ e \in debt[About[e]].affects => Settled(About[e])
          /\ Todo("debt", About[e], e, "-") \in In(todo) => Settled(About[e])

\* It is what the invariant says of every experiment.
LEMMA MarksAre == MarksOK <=> \A e \in Experiments : Mark(e)
BY DEF MarksOK, Mark

\* A debt that is settled is settled after the step.
LEMMA SettledStays ==
    ASSUME IInv, [Next]_vars, NEW h \in Hypotheses, Settled(h)
    PROVE  Settled(h)'
BY DebtsStay DEF Settled

\* Without another mark and without another debt to be written, what is known of it stays.
LEMMA MarkStays ==
    ASSUME IInv, [Next]_vars, NEW e \in Experiments,
           evidence'[e] = evidence[e] \/ evidence'[e] = [evidence[e] EXCEPT !.shared = TRUE],
           evidence'[e].shared => evidence[e].stored /\ ~evidence[e].debtOpen,
           early \subseteq early',
           About[e] \in Hypotheses =>
               (Todo("debt", About[e], e, "-") \in In(todo') => Todo("debt", About[e], e, "-") \in In(todo))
    PROVE  Mark(e)'
<1>1. Mark(e) /\ evidence[e] \in Observations
    BY MarksAre DEF IInv, TypeOK
<1>2. /\ evidence'[e].sound = evidence[e].sound
      /\ evidence'[e].stored = evidence[e].stored
      /\ evidence'[e].debtOpen = evidence[e].debtOpen
    BY <1>1 DEF Observations
<1>3. /\ evidence'[e].sound \/ evidence'[e].shared => evidence'[e].stored
      /\ evidence'[e].shared => ~evidence'[e].debtOpen
    BY <1>1, <1>2 DEF Mark
<1>4. ASSUME evidence'[e].stored, ~evidence'[e].debtOpen, About[e] \in Hypotheses
      PROVE  /\ e \in early' \/ Settled(About[e])'
             /\ (HasDebt(About[e]) /\ e \in debt[About[e]].affects)' => Settled(About[e])'
             /\ Todo("debt", About[e], e, "-") \in In(todo') => Settled(About[e])'
    <2> DEFINE h == About[e]
    <2>1. /\ e \in early \/ Settled(h)
          /\ HasDebt(h) /\ e \in debt[h].affects => Settled(h)
          /\ Todo("debt", h, e, "-") \in In(todo) => Settled(h)
        BY <1>1, <1>2, <1>4 DEF Mark
    <2>2. Settled(h) => Settled(h)'
        BY <1>4, SettledStays
    <2>3. HasDebt(h)' /\ e \in debt'[h].affects => Settled(h)
        BY <1>4, <2>1, NewlyNamed
    <2>4. QED
        BY <1>4, <2>1, <2>2, <2>3
<1>5. QED
    BY <1>3, <1>4 DEF Mark

\* The mark an observation is stored with is as good as one that was there.
LEMMA MarkIsGood ==
    ASSUME IInv, [Next]_vars, NEW e \in Experiments, NEW sound \in BOOLEAN, NEW candidate \in BOOLEAN,
           NEW rest, Observed(e, Observation(e, sound, candidate), rest), debt' = debt,
           About[e] \in Hypotheses /\ Todo("debt", About[e], e, "-") \in In(todo')
               => candidate /\ ~Conflict(e, Observation(e, sound, candidate))
    PROVE  Mark(e)'
<1>1. /\ evidence'[e].sound \/ evidence'[e].shared => evidence'[e].stored
      /\ evidence'[e].shared => ~evidence'[e].debtOpen
      /\ evidence'[e].stored /\ ~evidence'[e].debtOpen /\ About[e] \in Hypotheses =>
            /\ e \in early' \/ Settled(About[e])
            /\ HasDebt(About[e]) /\ e \in debt[About[e]].affects => Settled(About[e])
            /\ candidate /\ ~Conflict(e, Observation(e, sound, candidate)) => Settled(About[e])
    BY ObservedMarks
<1>2. Settled(About[e])' <=> Settled(About[e])
    BY DEF Settled, HasDebt, InDebt
<1>3. QED
    BY <1>1, <1>2 DEF Mark, HasDebt

\* What is known of the marks holds after every step.
LEMMA MarksStep ==
    ASSUME IInv, [Next]_vars
    PROVE  MarksOK'
<1> SUFFICES ASSUME NEW d \in Experiments PROVE Mark(d)'
    BY DEF MarksOK, Mark
<1>1. ASSUME NEW e \in Experiments, Share(e) PROVE Mark(d)'
    <2>1. /\ early' = early /\ todo' = todo
          /\ evidence' = [evidence EXCEPT ![e].shared = TRUE]
          /\ evidence[e].sound /\ ~evidence[e].debtOpen
        BY <1>1 DEF Share
    <2>2. evidence \in [Experiments -> Observations] /\ Mark(d) /\ Mark(e)
        BY MarksAre DEF IInv, TypeOK
    <2>3. evidence'[d] = IF d = e THEN [evidence[d] EXCEPT !.shared = TRUE] ELSE evidence[d]
        BY <2>1, <2>2
    <2>4. evidence'[d].shared => evidence[d].stored /\ ~evidence[d].debtOpen
        BY <2>1, <2>2, <2>3 DEF Mark
    <2>5. QED
        BY <2>1, <2>3, <2>4, MarkStays
<1>2. ASSUME NEW e \in Experiments, NEW sound \in BOOLEAN, NEW candidate \in BOOLEAN,
             NEW rest, Observed(e, Observation(e, sound, candidate), rest), debt' = debt,
             Ready,
             \A h \in Hypotheses, x \in Experiments :
                 Todo("debt", h, x, "-") \in In(todo')
                     => x = e /\ candidate /\ ~Conflict(e, Observation(e, sound, candidate))
      PROVE  Mark(d)'
    <2>1. CASE d = e
        BY <1>2, <2>1, MarkIsGood
    <2>2. CASE d # e
        <3>1. evidence'[d] = evidence[d] /\ early \subseteq early'
            BY <1>2, <2>2, ObservedMarks
        <3>2. evidence[d].shared => evidence[d].stored /\ ~evidence[d].debtOpen
            BY MarksAre DEF IInv, Mark
        <3>3. About[d] \in Hypotheses => Todo("debt", About[d], d, "-") \notin In(todo')
            BY <1>2, <2>2
        <3>4. QED
            BY <3>1, <3>2, <3>3, MarkStays
    <2>3. QED
        BY <2>1, <2>2
<1>3. ASSUME NEW e \in Experiments, NEW sound \in BOOLEAN, Complete(e, sound) \/ Reject(e, sound)
      PROVE  Mark(d)'
    <2>1. PICK candidate \in BOOLEAN : Observed(e, Observation(e, sound, candidate), <<>>)
        BY <1>3 DEF Complete, Reject
    <2>2. debt' = debt /\ Ready
        BY <1>3 DEF Complete, Reject, structures
    <2>3. todo' = <<Released(e)>>
        BY <2>1, JustReleased DEF Observed, Then
    <2>4. In(todo') = {Released(e)} /\ Released(e).do = "release"
        BY <2>3, WritesAre, OneWrite
    <2>5. \A h \in Hypotheses, x \in Experiments : Todo("debt", h, x, "-") \notin In(todo')
        BY <2>4, WritesAre
    <2>6. QED
        BY <1>2, <2>1, <2>2, <2>5
<1>4. ASSUME NEW e \in Experiments, NEW uses \in SUBSET Hypotheses, NEW sound \in BOOLEAN,
             Promote(e, uses, sound)
      PROVE  Mark(d)'
    <2> DEFINE seen == Observation(e, sound, TRUE)
    <2>1. Observed(e, seen, DebtsOf(e, uses) \o <<Synced>>) /\ debt' = debt /\ Ready
        BY <1>4 DEF Promote, structures
    <2>2. todo' = IF Conflict(e, seen) THEN <<Released(e)>>
                  ELSE (DebtsOf(e, uses) \o <<Synced>>) \o <<Released(e)>>
        BY <2>1 DEF Observed, Then
    <2> HIDE DEF seen
    <2>3. ASSUME NEW h \in Hypotheses, NEW x \in Experiments, Todo("debt", h, x, "-") \in In(todo')
          PROVE  x = e /\ ~Conflict(e, seen)
        <3> DEFINE w == Todo("debt", h, x, "-")
        <3>1. w.do = "debt" /\ w.exp = x
            BY WritesAre
        <3>2. Released(e) \in Writes /\ Released(e).do = "release" /\ Synced.do = "sync"
            BY WritesAre
        <3>3. In(<<Released(e)>>) = {Released(e)}
            BY <3>2, OneWrite
        <3>4. ~Conflict(e, seen)
            BY <2>2, <2>3, <3>1, <3>2, <3>3
        <3>5. w = Synced \/ w = Released(e) \/ \E g \in uses : w = Todo("debt", g, e, "-")
            BY <2>2, <2>3, <3>4, PromoteRow
        <3>6. \E g \in uses : w = Todo("debt", g, e, "-")
            BY <3>1, <3>2, <3>5
        <3>7. w.exp = e
            BY <3>6, WritesAre
        <3>8. QED
            BY <3>1, <3>4, <3>7
    <2>4. QED
        BY <1>2, <2>1, <2>3 DEF seen
<1>5. CASE evidence' = evidence /\ early' = early /\ NoNewDebt
    <2>1. evidence[d].shared => evidence[d].stored /\ ~evidence[d].debtOpen
        BY MarksAre DEF IInv, Mark
    <2>2. About[d] \in Hypotheses =>
              (Todo("debt", About[d], d, "-") \in In(todo') => Todo("debt", About[d], d, "-") \in In(todo))
        BY <1>5, WritesAre DEF NoNewDebt
    <2>3. QED
        BY <1>5, <2>1, <2>2, MarkStays
<1>6. \/ evidence' = evidence /\ early' = early
      \/ \E e \in Experiments : Share(e)
      \/ \E e \in Experiments, sound \in BOOLEAN : Complete(e, sound) \/ Reject(e, sound)
      \/ Promotes
    BY EvidenceMovers
<1>7. QED
    BY <1>1, <1>3, <1>4, <1>5, <1>6, NewDebts DEF Promotes

-----------------------------------------------------------------------------
\* Where nothing is assessed, and no assessment is left to be written that was not there
\* before, what is assessed as valid stays settled.
LEMMA AssessedStays ==
    ASSUME IInv, [Next]_vars, assessment' = assessment,
           \A w \in In(todo') : w.do = "assessed" => w \in In(todo)
    PROVE  AssessedOK'
<1>1. ASSUME NEW h \in Hypotheses, assessment[h] \in Valid PROVE Settled(h)'
    BY <1>1, SettledStays DEF IInv, AssessedOK
<1>2. ASSUME NEW w \in In(todo'), w.do = "assessed", w.to \in Valid PROVE Settled(w.hyp)'
    <2>1. w \in In(todo) /\ Settled(w.hyp)
        BY <1>2 DEF IInv, AssessedOK
    <2>2. w \in Writes
        BY <2>1, LenProperties DEF IInv, TodoOK, In
    <2>3. w.hyp \in Hypotheses
        BY <1>2, <2>2, WriteIs
    <2>4. QED
        BY <2>1, <2>3, SettledStays
<1>3. QED
    BY <1>1, <1>2 DEF AssessedOK

\* Whatever is assessed as valid, or about to be, owes nothing.
LEMMA AssessedStep ==
    ASSUME IInv, [Next]_vars
    PROVE  AssessedOK'
<1> USE DEF IInv
<1>1. ASSUME NEW h \in Hypotheses, NEW s \in {"observation", "provisional"}, RegisterStructuralHypothesis(h, s)
      PROVE  AssessedOK'
    <2>1. assessment' = assessment /\ todo' = todo
        BY <1>1 DEF RegisterStructuralHypothesis, Register, disk, structures
    <2>2. QED
        BY <2>1, AssessedStays
<1>2. ASSUME NEW h \in Hypotheses, NEW s \in Lifecycles, AdvanceStructuralHypothesis(h, s)
      PROVE  AssessedOK'
    <2>1. assessment' = assessment /\ todo' = todo
        BY <1>2 DEF AdvanceStructuralHypothesis, Advance, disk, structures
    <2>2. QED
        BY <2>1, AssessedStays
<1>3. ASSUME NEW h \in Hypotheses, PreregisterStructureTest(h) PROVE AssessedOK'
    <2>1. assessment' = assessment /\ todo' = todo
        BY <1>3 DEF PreregisterStructureTest, Preregister, disk, structures
    <2>2. QED
        BY <2>1, AssessedStays
<1>4. ASSUME NEW h \in Hypotheses, CreateStructureMaturationFork(h) PROVE AssessedOK'
    <2>1. assessment' = assessment /\ todo' = <<Synced>>
        BY <1>4 DEF CreateStructureMaturationFork, CreateFork, Then, structures
    <2>2. In(todo') = {Synced} /\ Synced.do = "sync"
        BY <2>1, WritesAre, OneWrite
    <2>3. QED
        BY <2>1, <2>2, AssessedStays
<1>5. ASSUME NEW h \in Hypotheses, DissolveStructureMaturationFork(h) PROVE AssessedOK'
    <2>1. assessment' = assessment /\ todo' = <<Synced>>
        BY <1>5 DEF DissolveStructureMaturationFork, DissolveFork, Then, structures
    <2>2. In(todo') = {Synced} /\ Synced.do = "sync"
        BY <2>1, WritesAre, OneWrite
    <2>3. QED
        BY <2>1, <2>2, AssessedStays
<1>6. ASSUME NEW h \in Hypotheses, NEW r \in Requirements, ResolveValidationRequirement(h, r)
      PROVE  AssessedOK'
    <2>1. assessment' = assessment /\ todo' = <<Synced>>
        BY <1>6 DEF ResolveValidationRequirement, Resolve, Then, structures
    <2>2. In(todo') = {Synced} /\ Synced.do = "sync"
        BY <2>1, WritesAre, OneWrite
    <2>3. QED
        BY <2>1, <2>2, AssessedStays
<1>7. ASSUME NEW h \in Hypotheses, NEW s \in Terminal, s \in Valid => Settled(h), AssessStructuralHypothesis(h, s)
      PROVE  AssessedOK'
    <2> DEFINE w == Todo("assessed", h, NoDebt, s)
    <2>1. assessment' = assessment /\ todo' = <<w, Synced>> /\ debt' = debt
        BY <1>7 DEF AssessStructuralHypothesis, Assess, Then
    <2>2. Synced \in Writes /\ Synced.do = "sync" /\ w \in Writes /\ w.do = "assessed" /\ w.hyp = h /\ w.to = s
        BY WritesAre
    <2> HIDE DEF w
    <2>3. In(todo') = {w, Synced}
        BY <2>1, <2>2, TwoWrites
    <2>4. \A v \in In(todo') : v.do = "assessed" /\ v.to \in Valid => Settled(v.hyp)
        BY <1>7, <2>2, <2>3
    <2>5. QED
        BY <2>1, <2>4 DEF AssessedOK, Settled, HasDebt, InDebt
<1>8. ASSUME NEW e \in Experiments, Propose(e) PROVE AssessedOK'
    <2>1. assessment' = assessment /\ todo' = todo
        BY <1>8 DEF Propose, disk, structures
    <2>2. QED
        BY <2>1, AssessedStays
<1>9. ASSUME NEW e \in Experiments, Start(e) PROVE AssessedOK'
    <2>1. assessment' = assessment /\ todo' = todo
        BY <1>9 DEF Start, disk, structures
    <2>2. QED
        BY <2>1, AssessedStays
<1>10. ASSUME NEW e \in Experiments, Abandon(e) PROVE AssessedOK'
    <2>1. assessment' = assessment /\ todo' = todo
        BY <1>10 DEF Abandon, Release, disk, structures
    <2>2. QED
        BY <2>1, AssessedStays
<1>11. ASSUME NEW e \in Experiments, Share(e) PROVE AssessedOK'
    <2>1. assessment' = assessment /\ todo' = todo
        BY <1>11 DEF Share, disk, structures
    <2>2. QED
        BY <2>1, AssessedStays
<1>12. ASSUME NEW e \in Experiments, NEW sound \in BOOLEAN, Complete(e, sound) PROVE AssessedOK'
    <2>1. Observed(e, Observation(e, sound, FALSE), <<>>) /\ assessment' = assessment
        BY <1>12 DEF Complete, structures
    <2>2. todo' = <<Released(e)>>
        BY <2>1, JustReleased DEF Observed, Then
    <2>3. Released(e) \in Writes /\ Released(e).do = "release"
        BY WritesAre
    <2>4. In(todo') = {Released(e)}
        BY <2>2, <2>3, OneWrite
    <2>5. QED
        BY <2>1, <2>3, <2>4, AssessedStays
<1>13. ASSUME NEW e \in Experiments, NEW sound \in BOOLEAN, Reject(e, sound) PROVE AssessedOK'
    <2>1. Observed(e, Observation(e, sound, TRUE), <<>>) /\ assessment' = assessment
        BY <1>13 DEF Reject, structures
    <2>2. todo' = <<Released(e)>>
        BY <2>1, JustReleased DEF Observed, Then
    <2>3. Released(e) \in Writes /\ Released(e).do = "release"
        BY WritesAre
    <2>4. In(todo') = {Released(e)}
        BY <2>2, <2>3, OneWrite
    <2>5. QED
        BY <2>1, <2>3, <2>4, AssessedStays
<1>14. ASSUME NEW e \in Experiments, NEW uses \in SUBSET Hypotheses, NEW sound \in BOOLEAN, Promote(e, uses, sound)
       PROVE  AssessedOK'
    <2>1. /\ assessment' = assessment
          /\ \/ todo' = <<Released(e)>>
             \/ todo' = (DebtsOf(e, uses) \o <<Synced>>) \o <<Released(e)>>
        BY <1>14 DEF Promote, Observed, Then, structures
    <2>2. Released(e) \in Writes /\ Released(e).do = "release" /\ Synced.do = "sync"
        BY WritesAre
    <2>3. In(<<Released(e)>>) = {Released(e)}
        BY <2>2, OneWrite
    <2>4. ASSUME NEW w \in In(todo') PROVE w.do # "assessed"
        <3>1. CASE todo' = <<Released(e)>>
            BY <2>2, <2>3, <2>4, <3>1
        <3>2. CASE todo' = (DebtsOf(e, uses) \o <<Synced>>) \o <<Released(e)>>
            <4>1. w = Synced \/ w = Released(e) \/ \E h \in uses : w = Todo("debt", h, e, "-")
                BY <2>4, <3>2, PromoteRow
            <4>2. QED
                BY <2>2, <4>1, WritesAre
        <3>3. QED
            BY <2>1, <3>1, <3>2
    <2>5. QED
        BY <2>1, <2>4, AssessedStays
<1>15. ASSUME WriteAssessed PROVE AssessedOK'
    <2> DEFINE w == Head(todo)
    <2>1. /\ todo # <<>> /\ todo' = Tail(todo) /\ w.do = "assessed" /\ debt' = debt
          /\ assessment' = [assessment EXCEPT ![w.hyp] = w.to]
        BY <1>15 DEF WriteAssessed, WriteAssessment, Next1
    <2>2. w \in Writes /\ In(todo) = {w} \cup In(Tail(todo))
        BY <2>1, NextWrite
    <2>3. w.to \in Valid => Settled(w.hyp)
        BY <2>1, <2>2 DEF AssessedOK
    <2> HIDE DEF w
    <2>4. ASSUME NEW h \in Hypotheses, assessment'[h] \in Valid PROVE Settled(h)
        BY <2>1, <2>3, <2>4 DEF AssessedOK, TypeOK
    <2>5. \A v \in In(todo') : v.do = "assessed" /\ v.to \in Valid => Settled(v.hyp)
        BY <2>1, <2>2 DEF AssessedOK
    <2>6. QED
        BY <2>1, <2>4, <2>5 DEF AssessedOK, Settled, HasDebt, InDebt
<1>16. ASSUME WriteDebt PROVE AssessedOK'
    <2>1. todo # <<>> /\ todo' = Tail(todo) /\ assessment' = assessment
        BY <1>16 DEF WriteDebt, OpenDebt, Next1, structures
    <2>2. In(todo) = {Head(todo)} \cup In(Tail(todo))
        BY <2>1, NextWrite
    <2>3. QED
        BY <2>1, <2>2, AssessedStays
<1>17. ASSUME Sync PROVE AssessedOK'
    <2>1. todo # <<>> /\ todo' = Tail(todo) /\ assessment' = assessment
        BY <1>17 DEF Sync, Next1, structures
    <2>2. In(todo) = {Head(todo)} \cup In(Tail(todo))
        BY <2>1, NextWrite
    <2>3. QED
        BY <2>1, <2>2, AssessedStays
<1>18. ASSUME GiveBack PROVE AssessedOK'
    <2>1. todo # <<>> /\ todo' = Tail(todo) /\ assessment' = assessment
        BY <1>18 DEF GiveBack, Release, Next1, structures
    <2>2. In(todo) = {Head(todo)} \cup In(Tail(todo))
        BY <2>1, NextWrite
    <2>3. QED
        BY <2>1, <2>2, AssessedStays
<1>19. ASSUME Restart PROVE AssessedOK'
    <2>1. assessment' = assessment /\ todo' = <<>>
        BY <1>19 DEF Restart, Forgotten, Then, structures
    <2>2. QED
        BY <2>1, NothingLeft, AssessedStays
<1>20. CASE UNCHANGED vars
    <2>1. assessment' = assessment /\ todo' = todo
        BY <1>20 DEF vars, disk, structures
    <2>2. QED
        BY <2>1, AssessedStays
<1>21. QED
    BY StepCases, <1>1, <1>2, <1>3, <1>4, <1>5, <1>6, <1>7, <1>8, <1>9, <1>10,
       <1>11, <1>12, <1>13, <1>14, <1>15, <1>16, <1>17, <1>18, <1>19, <1>20

\* An operation that touches neither the structures nor the control state leaves it right.
LEMMA ControlStays ==
    ASSUME IInv, In(todo) = {}, restarts' = restarts, structures' = structures,
           control' = control, reservations' = reservations
    PROVE  ControlOK'
BY DEF IInv, ControlOK, ActiveForks, OpenDebts, InDebt, HasDebt, structures

\* The control state is right, or about to be, after every step.
LEMMA ControlStep ==
    ASSUME IInv, [Next]_vars
    PROVE  ControlOK'
<1> USE DEF IInv
<1>1. ASSUME NEW h \in Hypotheses, NEW s \in {"observation", "provisional"}, RegisterStructuralHypothesis(h, s)
      PROVE  ControlOK'
    BY <1>1 DEF ControlOK, TypeOK, RegisterStructuralHypothesis, Register, ActiveForks, OpenDebts, InDebt, HasDebt, disk, memory, structures
<1>2. ASSUME NEW h \in Hypotheses, NEW s \in Lifecycles, AdvanceStructuralHypothesis(h, s)
      PROVE  ControlOK'
    BY <1>2 DEF ControlOK, TypeOK, AdvanceStructuralHypothesis, Advance, ActiveForks, OpenDebts, InDebt, HasDebt, disk, memory, structures
<1>3. ASSUME NEW h \in Hypotheses, PreregisterStructureTest(h) PROVE ControlOK'
    BY <1>3 DEF ControlOK, TypeOK, PreregisterStructureTest, Preregister, ActiveForks, OpenDebts, InDebt, HasDebt, disk, memory, structures
<1>4. ASSUME NEW h \in Hypotheses, CreateStructureMaturationFork(h) PROVE ControlOK'
    <2>1. todo' = <<Synced>> /\ control' = control /\ reservations' = reservations
        BY <1>4 DEF CreateStructureMaturationFork, CreateFork, Then, memory
    <2>2. In(todo') = {Synced} /\ Synced.do = "sync"
        BY <2>1, WritesAre, OneWrite
    <2>3. QED
        BY <2>1, <2>2 DEF ControlOK
<1>5. ASSUME NEW h \in Hypotheses, DissolveStructureMaturationFork(h) PROVE ControlOK'
    <2>1. todo' = <<Synced>> /\ control' = control /\ reservations' = reservations
        BY <1>5 DEF DissolveStructureMaturationFork, DissolveFork, Then, memory
    <2>2. In(todo') = {Synced} /\ Synced.do = "sync"
        BY <2>1, WritesAre, OneWrite
    <2>3. QED
        BY <2>1, <2>2 DEF ControlOK
<1>6. ASSUME NEW h \in Hypotheses, NEW r \in Requirements, ResolveValidationRequirement(h, r)
      PROVE  ControlOK'
    <2>1. todo' = <<Synced>> /\ control' = control /\ reservations' = reservations
        BY <1>6 DEF ResolveValidationRequirement, Resolve, Then, memory
    <2>2. In(todo') = {Synced} /\ Synced.do = "sync"
        BY <2>1, WritesAre, OneWrite
    <2>3. QED
        BY <2>1, <2>2 DEF ControlOK
<1>7. ASSUME NEW h \in Hypotheses, NEW s \in Terminal, s \in Valid => Settled(h), AssessStructuralHypothesis(h, s)
      PROVE  ControlOK'
    <2> DEFINE w == Todo("assessed", h, NoDebt, s)
    <2>1. todo' = <<w, Synced>> /\ control' = control /\ reservations' = reservations
        BY <1>7 DEF AssessStructuralHypothesis, Assess, Then, memory
    <2>2. Synced \in Writes /\ Synced.do = "sync" /\ w \in Writes /\ w.do = "assessed"
        BY WritesAre
    <2> HIDE DEF w
    <2>3. In(todo') = {w, Synced}
        BY <2>1, <2>2, TwoWrites
    <2>4. QED
        BY <2>1, <2>2, <2>3 DEF ControlOK
<1>8. ASSUME NEW e \in Experiments, Propose(e) PROVE ControlOK'
    BY <1>8 DEF ControlOK, TypeOK, Propose, ActiveForks, OpenDebts, InDebt, HasDebt, disk, memory, structures
<1>9. ASSUME NEW e \in Experiments, Start(e) PROVE ControlOK'
    BY <1>9 DEF ControlOK, TypeOK, Start, ActiveForks, OpenDebts, InDebt, HasDebt, disk, memory, structures
<1>10. ASSUME NEW e \in Experiments, Abandon(e) PROVE ControlOK'
    BY <1>10 DEF ControlOK, TypeOK, Abandon, Release, ActiveForks, OpenDebts, InDebt, HasDebt, disk, memory, structures
<1>11. ASSUME NEW e \in Experiments, Share(e) PROVE ControlOK'
    <2>1. /\ In(todo) = {} /\ restarts' = restarts /\ structures' = structures
          /\ control' = control /\ reservations' = reservations
        BY <1>11, NothingLeft DEF Share, Ready, memory
    <2>2. QED
        BY <2>1, ControlStays
<1>12. ASSUME NEW e \in Experiments, NEW sound \in BOOLEAN, Complete(e, sound) PROVE ControlOK'
    <2>1. /\ In(todo) = {} /\ restarts' = restarts /\ structures' = structures
          /\ control' = control /\ reservations' = reservations
        BY <1>12, NothingLeft DEF Complete, Ready
    <2>2. QED
        BY <2>1, ControlStays
<1>13. ASSUME NEW e \in Experiments, NEW sound \in BOOLEAN, Reject(e, sound) PROVE ControlOK'
    <2>1. /\ In(todo) = {} /\ restarts' = restarts /\ structures' = structures
          /\ control' = control /\ reservations' = reservations
        BY <1>13, NothingLeft DEF Reject, Ready
    <2>2. QED
        BY <2>1, ControlStays
<1>14. ASSUME NEW e \in Experiments, NEW uses \in SUBSET Hypotheses, NEW sound \in BOOLEAN, Promote(e, uses, sound)
       PROVE  ControlOK'
    <2>1. /\ In(todo) = {} /\ restarts' = restarts /\ structures' = structures
          /\ control' = control /\ reservations' = reservations
        BY <1>14, NothingLeft DEF Promote, Ready
    <2>2. QED
        BY <2>1, ControlStays
<1>15. ASSUME WriteAssessed PROVE ControlOK'
    <2>1. /\ todo # <<>> /\ todo' = Tail(todo) /\ Head(todo).do = "assessed" /\ debt' = debt /\ fork' = fork
          /\ control' = control /\ restarts' = restarts /\ reservations' = reservations
        BY <1>15 DEF WriteAssessed, WriteAssessment, Next1, memory
    <2>2. In(todo) = {Head(todo)} \cup In(todo')
        BY <2>1, NextWrite
    <2>3. QED
        BY <2>1, <2>2 DEF ControlOK, ActiveForks, OpenDebts, InDebt, HasDebt
<1>16. ASSUME WriteDebt PROVE ControlOK'
    <2>1. /\ todo # <<>> /\ todo' = Tail(todo) /\ Head(todo).do = "debt"
          /\ control' = control /\ reservations' = reservations
        BY <1>16 DEF WriteDebt, OpenDebt, Next1, memory
    <2>2. \E w \in In(todo') : w.do = "sync"
        BY <2>1, NextWrite
    <2>3. QED
        BY <2>1, <2>2 DEF ControlOK
<1>17. ASSUME Sync PROVE ControlOK'
    <2>1. control.running = reservations /\ DOMAIN control = {"queue", "running", "forks", "debts"}
        BY DEF ControlOK, TypeOK
    <2>2. control' = [control EXCEPT !.forks = ActiveForks, !.debts = OpenDebts]
        BY <1>17 DEF Sync, Next1
    <2>3. UNCHANGED <<structures, reservations>>
        BY <1>17 DEF Sync, Next1, memory
    <2>4. QED
        BY <2>1, <2>2, <2>3 DEF ControlOK, ActiveForks, OpenDebts, InDebt, HasDebt, structures
<1>18. ASSUME GiveBack PROVE ControlOK'
    <2>1. /\ todo # <<>> /\ todo' = Tail(todo) /\ Head(todo).do = "release" /\ structures' = structures
          /\ restarts' = restarts
        BY <1>18 DEF GiveBack, Release, Next1
    <2>2. In(todo) = {Head(todo)} \cup In(todo')
        BY <2>1, NextWrite
    <2>3. /\ control' = [control EXCEPT !.running = control.running \ {Head(todo).exp}]
          /\ reservations' = reservations \ {Head(todo).exp}
        BY <1>18 DEF GiveBack, Release, Next1
    <2>4. control \in [queue : SUBSET Experiments, running : SUBSET Experiments,
                       forks : SUBSET Hypotheses, debts : SUBSET Hypotheses]
        BY DEF TypeOK
    <2>5. /\ control'.running = control.running \ {Head(todo).exp}
          /\ control'.forks = control.forks /\ control'.debts = control.debts
        BY <2>3, <2>4
    <2>6. QED
        BY <2>1, <2>2, <2>3, <2>5 DEF ControlOK, ActiveForks, OpenDebts, InDebt, HasDebt, structures
<1>19. ASSUME Restart PROVE ControlOK'
    BY <1>19 DEF ControlOK, TypeOK, EmptyControl, Restart, Forgotten, Then
<1>20. CASE UNCHANGED vars
    BY <1>20 DEF ControlOK, ActiveForks, OpenDebts, InDebt, HasDebt, vars, disk, memory, structures
<1>21. QED
    BY StepCases, <1>1, <1>2, <1>3, <1>4, <1>5, <1>6, <1>7, <1>8, <1>9, <1>10,
       <1>11, <1>12, <1>13, <1>14, <1>15, <1>16, <1>17, <1>18, <1>19, <1>20

-----------------------------------------------------------------------------
\* The state a run starts in.
LEMMA InitIInv == Init => IInv
<1> SUFFICES ASSUME Init PROVE IInv
    OBVIOUS
<1>1. TypeOK
    BY DEF Init, TypeOK, NoStructures, NoEvidence, Observations, EmptyControl
<1>2. TodoOK /\ In(todo) = {}
    BY NothingLeft DEF Init, TodoOK
<1>3. OwedOK
    BY DEF Init, OwedOK
<1>4. MarksOK
    BY DEF Init, MarksOK, NoEvidence
<1>5. AssessedOK
    BY <1>2 DEF Init, AssessedOK, NoStructures, Valid
<1>6. ControlOK
    BY DEF Init, ControlOK, EmptyControl, NoStructures, ActiveForks, OpenDebts, InDebt, HasDebt
<1>7. QED
    BY <1>1, <1>2, <1>3, <1>4, <1>5, <1>6 DEF IInv

\* Whatever operations come in whatever order, and wherever the process dies.
THEOREM Invariance == Spec => []IInv
<1>1. Init => IInv
    BY InitIInv
<1>2. IInv /\ [Next]_vars => IInv'
    BY TypeStep, TodoStep, OwedStep, MarksStep, AssessedStep, ControlStep DEF IInv
<1>3. QED
    BY <1>1, <1>2, PTL DEF Spec

\* The structures, the vault, the control state and what the process holds have their
\* types, and what is reserved has been proposed.
THEOREM TypeCorrect == Spec => []TypeOK
<1>1. IInv => TypeOK
    BY DEF IInv
<1>2. QED
    BY <1>1, Invariance, PTL

\* Between operations every hypothesis an archived candidate declares has a debt that
\* names the candidate.
THEOREM EveryCandidateOwes == Spec => []CandidatesOwe
<1>1. IInv => CandidatesOwe
    BY NothingLeft DEF IInv, OwedOK, CandidatesOwe, Ready
<1>2. QED
    BY <1>1, Invariance, PTL

\* An observation that is shared while its structure is in debt was stored before there
\* was a debt, and the debt is not its own.
THEOREM NoDebtorIsShared == Spec => []SharedFactsOweNothing
<1>1. ASSUME IInv PROVE SharedFactsOweNothing
    <2> SUFFICES ASSUME NEW e \in Experiments, evidence[e].shared, About[e] \in OpenDebts
                 PROVE  e \in early /\ e \notin debt[About[e]].affects
        BY DEF SharedFactsOweNothing
    <2>1. About[e] \in Hypotheses /\ HasDebt(About[e]) /\ ~Settled(About[e])
        BY DEF OpenDebts, InDebt, Settled
    <2>2. Mark(e)
        BY <1>1, MarksAre DEF IInv
    <2>3. QED
        BY <2>1, <2>2 DEF Mark
<1>2. QED
    BY <1>1, Invariance, PTL

\* What is assessed as valid has had its debt resolved, for good.
THEOREM ValidityIsPaidFor == Spec => []AssessedValidOwesNothing
<1>1. IInv => AssessedValidOwesNothing
    BY DEF IInv, AssessedOK, AssessedValidOwesNothing, Settled, Valid
<1>2. QED
    BY <1>1, Invariance, PTL

\* Between operations the control state says what runs, which structures have a fork and
\* which are in debt, or has not been told since the process was started again.
THEOREM ControlStateIsTrue == Spec => []ControlIsTrue
<1>1. ASSUME IInv, Ready PROVE ~\E w \in In(todo) : w.do = "sync"
    BY <1>1, NothingLeft DEF Ready
<1>2. IInv => ControlIsTrue
    BY <1>1 DEF IInv, ControlOK, ControlIsTrue
<1>3. QED
    BY <1>2, Invariance, PTL

=============================================================================
