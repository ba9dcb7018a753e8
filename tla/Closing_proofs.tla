---------------------------- MODULE Closing_proofs ----------------------------
(***************************************************************************)
(* Proofs about Closing, for every set of processes, every list of         *)
(* candidates with whatever traits, every set of ensembles and every limit. *)
(*                                                                         *)
(* A call leaves a row of records and the appends look at nothing, so the  *)
(* invariant is about the records that remain to be written.  Some of what *)
(* the call saw is true for ever, whoever appends meanwhile (RecordOK); the *)
(* rest is true for as long as nobody appended (FreshRow), and a process   *)
(* knows only from fresh whether that is so.  The best answer is the one   *)
(* claim that needs the archive itself: what QDArchive.rebuild keeps is    *)
(* shown by induction over the candidates, as the smallest number of       *)
(* candidates for which it fails.                                          *)
(***************************************************************************)
EXTENDS Closing, Sums, SequenceTheorems

\* The rows of records a call may have left, so far as they are not written.
RowOK(row) ==
    \/ row = <<>>
    \/ \E r \in RecordSet : row = <<r>> /\ r.kind \notin {"query", "finalizing", "completed"}
    \/ \E c \in Candidates : row = <<[kind |-> "observed", of |-> Makes(c)], [kind |-> "offer", of |-> c]>>
    \/ \E r, s \in RecordSet : /\ row = <<r, s>> /\ r.kind = "evaluated" /\ s.kind = "evaluated"
                               /\ r.of # s.of
    \/ \E r \in RecordSet : /\ r.kind = "finalized"
                            /\ \/ row = <<[kind |-> "finalizing"], [kind |-> "completed"], r>>
                               \/ row = <<[kind |-> "completed"], r>>
    \/ row = Spend

\* What a record that remains to be written says is true, and stays so.
RecordOK(r) ==
    /\ r.kind = "evaluated" => Makes(r.of) \in observed
    /\ r.kind = "oof" => r.of \in DOMAIN qd
    /\ r.kind = "ensemble" => Members[r.of] \subseteq oof
    /\ r.kind = "finalized" => /\ rule # "none" /\ r.candidates # {}
                               /\ \A c \in r.candidates : Validated(c)
                               /\ r.queries <= told

\* The answer is the best one by the rule of the run.
Best(chosen) ==
    /\ rule = "final_candidate_utility_v1" =>
        \A c \in chosen, other \in DOMAIN qd :
            Cell[other] \in DOMAIN Archive(qd) => Utility(c, qd) >= Quality[other]
    /\ rule = "cross_fitted_ensemble_v1" =>
        \E e \in ensembles : chosen = Members[e] /\ \A other \in ensembles : Gain[e] >= Gain[other]

\* What the records say that a process read and nobody has disturbed since.
FreshRow(row) ==
    \A i \in DOMAIN row :
        /\ row[i].kind = "evaluated" /\ row[i].of \in DOMAIN qd => qd[row[i].of] <= row[i].diversity
        /\ row[i].kind = "rule" => rule = "none" /\ observed = {}
        /\ row[i].kind = "finalized" => /\ Best(row[i].candidates)
                                        /\ i = 1 => loop = "completed"

RowsOK ==
    /\ todo = [p \in Procs |-> todo[p]]
    /\ \A p \in Procs : /\ RowOK(todo[p])
                        /\ \A i \in DOMAIN todo[p] : RecordOK(todo[p][i])
                        /\ fresh[p] => FreshRow(todo[p])

\* Who has passed the gate, and who has spent the query.
Spending == {p \in Procs : todo[p] = Spend}
Telling == {p \in Procs : todo[p] = <<[kind |-> "told"]>>}

\* Reads that are passed by the gate count as if they were spent.
BudgetOK ==
    /\ queries + Cardinality(Spending) <= MaxQueries + Cardinality(Procs) - 1
    /\ told + Cardinality(Telling) <= queries
    /\ answer.queries <= told

\* The inductive invariant.
IInv == TypeOK /\ RowsOK /\ BudgetOK /\ LockedAnswerStands

-----------------------------------------------------------------------------
\* Numbers and finite sets.

\* A set of naturals has a least element.
LEMMA LeastNumber ==
    ASSUME NEW Some \in SUBSET Nat, Some # {}
    PROVE  \E k \in Some : \A j \in Some : k <= j
<1>1. PICK m \in Some : TRUE
    OBVIOUS
<1> DEFINE below == {0..j : j \in {i \in Some : i <= m}}
           upto == 0..m
<1>2. IsFiniteSet(upto)
    <2>1. 0 \in Int /\ m \in Int
        OBVIOUS
    <2>2. QED
        BY <2>1, FS_Interval
<1>3. below \in SUBSET SUBSET upto /\ below # {}
    OBVIOUS
<1> HIDE DEF below, upto
<1>4. PICK T \in below : \A U \in below : U \subseteq T => U = T
    BY <1>2, <1>3, SmallestSubset
<1> USE DEF below, upto
<1>5. PICK k \in Some : k <= m /\ T = 0..k
    BY <1>4
<1>6. ASSUME NEW j \in Some, j < k PROVE FALSE
    <2>1. 0..j \in below /\ 0..j \subseteq T
        BY <1>5, <1>6
    <2>2. 0..j = T
        BY <1>4, <2>1
    <2>3. k \in 0..k /\ k \notin 0..j
        BY <1>6
    <2>4. QED
        BY <1>5, <2>2, <2>3
<1>7. QED
    BY <1>6

\* Somewhere on a finite set a function to the integers is greatest.
LEMMA Greatest ==
    ASSUME NEW S, IsFiniteSet(S), S # {}, NEW f, \A x \in S : f[x] \in Int
    PROVE  \E x \in S : \A y \in S : f[x] >= f[y]
<1> DEFINE above == {{y \in S : f[y] >= f[x]} : x \in S}
<1>1. above \in SUBSET SUBSET S /\ above # {}
    OBVIOUS
<1> HIDE DEF above
<1>2. PICK T \in above : \A U \in above : U \subseteq T => U = T
    BY <1>1, SmallestSubset
<1> USE DEF above
<1>3. PICK x \in S : T = {y \in S : f[y] >= f[x]}
    BY <1>2
<1>4. ASSUME NEW y \in S, ~(f[x] >= f[y]) PROVE FALSE
    <2> DEFINE U == {z \in S : f[z] >= f[y]}
    <2>1. U \in above
        OBVIOUS
    <2>2. U \subseteq T
        BY <1>3, <1>4
    <2>3. x \in T /\ x \notin U
        BY <1>3, <1>4
    <2>4. QED
        BY <1>2, <2>1, <2>2, <2>3
<1>5. QED
    BY <1>3, <1>4

\* What the limits allow is no negative number.
LEMMA ProductNat ==
    ASSUME NEW m \in Nat, NEW n \in Nat
    PROVE  m * n >= 0
OBVIOUS

-----------------------------------------------------------------------------
\* The archive.

\* The candidates are finitely many.
LEMMA CandidatesFinite == IsFiniteSet(Candidates)
<1>1. Made \in Seq(Candidates)
    BY TraitsAssumption
<1>2. Len(Made) \in Nat /\ DOMAIN Made = 1..Len(Made)
    BY <1>1
<1>3. IsFiniteSet(1..Len(Made))
    <2>1. 1 \in Int /\ Len(Made) \in Int
        BY <1>2
    <2>2. QED
        BY <2>1, FS_Interval
<1>4. Candidates = {Made[i] : i \in 1..Len(Made)}
    BY <1>2 DEF Candidates, Range
<1>5. Made \in Surjection(1..Len(Made), Candidates)
    BY <1>1, <1>2, <1>4 DEF Surjection
<1>6. QED
    BY <1>3, <1>5, FS_Surjection

\* The n-th entry of a list of archives, where after holds the ones before.
Offered(d, after, n) ==
    IF n = 0 THEN <<>>
    ELSE IF Made[n] \in DOMAIN d THEN Admit(after[n - 1], Made[n], d)
    ELSE after[n - 1]

\* The archives after the first, second, ... candidate.
After(d) == CHOOSE after : after = [n \in 0..Len(Made) |-> Offered(d, after, n)]

\* The archive is the last of them.
LEMMA ArchiveIs ==
    ASSUME NEW d
    PROVE  Archive(d) = After(d)[Len(Made)]
BY DEF Archive, After, Offered

\* The first k candidates can be offered, whatever k is.
LEMMA Offering ==
    ASSUME NEW d, NEW k \in Nat
    PROVE  \E after : after = [n \in 0..k |-> Offered(d, after, n)]
<1> DEFINE Bad == {j \in Nat : ~\E after : after = [n \in 0..j |-> Offered(d, after, n)]}
<1>1. SUFFICES ASSUME Bad # {} PROVE FALSE
    OBVIOUS
<1>2. PICK j \in Bad : \A i \in Bad : j <= i
    <2>1. Bad \in SUBSET Nat
        OBVIOUS
    <2> HIDE DEF Bad
    <2>2. QED
        BY <1>1, <2>1, LeastNumber
<1>3. CASE j = 0
    <2> DEFINE none == [n \in 0..0 |-> <<>>]
    <2>1. none = [n \in 0..0 |-> Offered(d, none, n)]
        BY DEF Offered
    <2>2. QED
        BY <1>2, <1>3, <2>1
<1>4. CASE j # 0
    <2>1. j - 1 \in Nat /\ j - 1 \notin Bad
        BY <1>2, <1>4
    <2>2. PICK before : before = [n \in 0..(j - 1) |-> Offered(d, before, n)]
        BY <2>1
    <2> DEFINE after == [n \in 0..j |-> IF n = j THEN Offered(d, before, j) ELSE before[n]]
    <2>3. ASSUME NEW n \in 0..j PROVE after[n] = Offered(d, after, n)
        <3>1. n # 0 => n - 1 \in 0..(j - 1) /\ after[n - 1] = before[n - 1]
            BY <1>2
        <3>2. Offered(d, after, n) = Offered(d, before, n)
            <4> HIDE DEF after
            <4>1. QED
                BY <3>1 DEF Offered
        <3>3. n # j => before[n] = Offered(d, before, n)
            <4>1. n # j => n \in 0..(j - 1)
                BY <1>2
            <4>2. QED
                BY <2>2, <4>1
        <3>4. QED
            BY <3>2, <3>3
    <2>4. after = [n \in 0..j |-> Offered(d, after, n)]
        BY <2>3
    <2>5. QED
        BY <1>2, <2>4
<1>5. QED
    BY <1>3, <1>4

\* One candidate after the other, beginning with none.
LEMMA AfterSteps ==
    ASSUME NEW d, NEW n \in 0..Len(Made)
    PROVE  After(d)[n] = Offered(d, After(d), n)
<1>1. Len(Made) \in Nat
    BY TraitsAssumption
<1>2. \E after : after = [i \in 0..Len(Made) |-> Offered(d, after, i)]
    BY <1>1, Offering
<1>3. After(d) = [i \in 0..Len(Made) |-> Offered(d, After(d), i)]
    BY <1>2 DEF After
<1>4. QED
    BY <1>3

\* What an archive holds once the candidates of seen have been offered to it: their own
\* kind only, and in every cell one that is at least as good as every one of them; who
\* got no cell was refused because all the cells were taken.
Holds(cells, seen) ==
    /\ \A k \in DOMAIN cells : cells[k] \in [Slots -> seen]
    /\ \A c \in seen :
        IF Cell[c] \in DOMAIN cells
        THEN Quality[cells[Cell[c]]["best_quality"]] >= Quality[c]
        ELSE Cardinality(DOMAIN cells) >= MaximumSize

\* The elites of a cell after a challenge are the old ones and the challenger, and the
\* best of them is as good as either.
LEMMA ChallengeKeepsTheBest ==
    ASSUME NEW seen \in SUBSET Candidates, NEW elites \in [Slots -> seen],
           NEW c \in Candidates, NEW d
    PROVE  /\ Challenge(elites, c, d) \in [Slots -> seen \cup {c}]
           /\ Quality[Challenge(elites, c, d)["best_quality"]] >= Quality[c]
           /\ Quality[Challenge(elites, c, d)["best_quality"]] >= Quality[elites["best_quality"]]
<1> DEFINE best == elites["best_quality"]
<1>1. "best_quality" \in Slots /\ best \in seen
    BY DEF Slots
<1>2. Quality[best] \in Int /\ Quality[c] \in Int
    BY <1>1, TraitsAssumption
<1>3. Challenge(elites, c, d) \in [Slots -> seen \cup {c}]
    BY DEF Challenge
<1>4. Challenge(elites, c, d)["best_quality"] =
          IF Competitive(c, best) /\ Outranks("best_quality", c, best, d) THEN c ELSE best
    BY <1>1 DEF Challenge
<1> HIDE DEF best
<1>5. Outranks("best_quality", c, best, d) <=> Quality[c] > Quality[best]
    BY <1>2 DEF Outranks, Rank
<1>6. ASSUME Quality[c] > Quality[best] PROVE Competitive(c, best)
    <2>1. Magnitude(Quality[best]) \in Nat /\ 100 - Floor \in Nat
        BY <1>2, LimitsAssumption DEF Magnitude
    <2>2. Magnitude(Quality[best]) * (100 - Floor) >= 0
        BY <2>1, ProductNat
    <2> DEFINE allowed == Magnitude(Quality[best]) * (100 - Floor)
    <2>3. allowed >= 0 /\ allowed \in Int
        BY <2>1, <2>2
    <2> HIDE DEF allowed
    <2>4. 100 * (Quality[best] - Quality[c]) <= allowed
        BY <1>2, <1>6, <2>3
    <2>5. QED
        BY <2>4 DEF Competitive, allowed
<1>7. QED
    BY <1>2, <1>3, <1>4, <1>5, <1>6 DEF best

\* One candidate more.
LEMMA AdmitHolds ==
    ASSUME NEW seen \in SUBSET Candidates, NEW cells, Holds(cells, seen),
           NEW c \in Candidates, NEW d
    PROVE  Holds(Admit(cells, c, d), seen \cup {c})
<1> DEFINE after == Admit(cells, c, d)
<1>1. CASE Cell[c] \in DOMAIN cells
    <2> DEFINE elites == cells[Cell[c]]
               risen == Challenge(elites, c, d)
    <2>1. elites \in [Slots -> seen]
        BY <1>1 DEF Holds
    <2>2. after = [cells EXCEPT ![Cell[c]] = risen]
        BY <1>1 DEF Admit
    <2>3. /\ risen \in [Slots -> seen \cup {c}]
          /\ Quality[risen["best_quality"]] >= Quality[c]
          /\ Quality[risen["best_quality"]] >= Quality[elites["best_quality"]]
        BY <2>1, ChallengeKeepsTheBest
    <2>4. DOMAIN after = DOMAIN cells /\ after[Cell[c]] = risen
          /\ \A k \in DOMAIN cells : k # Cell[c] => after[k] = cells[k]
        BY <1>1, <2>2
    <2>5. "best_quality" \in Slots
        BY DEF Slots
    <2> HIDE DEF after, risen
    <2>6. ASSUME NEW k \in DOMAIN after PROVE after[k] \in [Slots -> seen \cup {c}]
        <3>1. CASE k = Cell[c]
            BY <2>3, <2>4, <3>1
        <3>2. CASE k # Cell[c]
            <4>1. cells[k] \in [Slots -> seen] /\ after[k] = cells[k]
                BY <2>4, <3>2 DEF Holds
            <4>2. QED
                BY <4>1
        <3>3. QED
            BY <3>1, <3>2
    <2>7. ASSUME NEW o \in seen \cup {c}
          PROVE  IF Cell[o] \in DOMAIN after
                 THEN Quality[after[Cell[o]]["best_quality"]] >= Quality[o]
                 ELSE Cardinality(DOMAIN after) >= MaximumSize
        <3>1. CASE o = c
            BY <1>1, <2>3, <2>4, <3>1
        <3>2. CASE o # c /\ Cell[o] # Cell[c]
            BY <2>4, <3>2 DEF Holds
        <3>3. CASE o # c /\ Cell[o] = Cell[c]
            <4>1. Quality[elites["best_quality"]] >= Quality[o]
                BY <1>1, <3>3 DEF Holds
            <4>2. Quality[elites["best_quality"]] \in Int /\ Quality[o] \in Int
                BY <2>1, <2>5, TraitsAssumption
            <4>3. Quality[risen["best_quality"]] \in Int
                BY <2>3, <2>5, TraitsAssumption
            <4>4. Quality[risen["best_quality"]] >= Quality[o]
                BY <2>3, <4>1, <4>2, <4>3
            <4>5. QED
                BY <1>1, <2>4, <3>3, <4>4
        <3>4. QED
            BY <3>1, <3>2, <3>3
    <2>8. QED
        BY <2>6, <2>7 DEF Holds, after
<1>2. CASE Cell[c] \notin DOMAIN cells /\ Cardinality(DOMAIN cells) >= MaximumSize
    <2>1. after = cells
        BY <1>2 DEF Admit
    <2>2. \A k \in DOMAIN cells : cells[k] \in [Slots -> seen \cup {c}]
        BY DEF Holds
    <2>3. QED
        BY <1>2, <2>1, <2>2 DEF Holds
<1>3. CASE Cell[c] \notin DOMAIN cells /\ ~(Cardinality(DOMAIN cells) >= MaximumSize)
    <2>1. after = [k \in DOMAIN cells \cup {Cell[c]} |->
                      IF k \in DOMAIN cells THEN cells[k] ELSE [slot \in Slots |-> c]]
        BY <1>3 DEF Admit
    <2>2. /\ DOMAIN after = DOMAIN cells \cup {Cell[c]}
          /\ after[Cell[c]] = [slot \in Slots |-> c]
          /\ \A k \in DOMAIN cells : after[k] = cells[k]
        BY <1>3, <2>1
    <2> HIDE DEF after
    <2>3. ASSUME NEW k \in DOMAIN after PROVE after[k] \in [Slots -> seen \cup {c}]
        BY <2>2 DEF Holds
    <2>4. Quality[after[Cell[c]]["best_quality"]] >= Quality[c]
        <3>1. Quality[c] \in Int
            BY TraitsAssumption
        <3>2. after[Cell[c]]["best_quality"] = c
            BY <2>2 DEF Slots
        <3>3. QED
            BY <3>1, <3>2
    <2>5. ASSUME NEW o \in seen
          PROVE  /\ Cell[o] \in DOMAIN cells
                 /\ Quality[cells[Cell[o]]["best_quality"]] >= Quality[o]
        BY <1>3 DEF Holds
    <2>6. ASSUME NEW o \in seen \cup {c}
          PROVE  /\ Cell[o] \in DOMAIN after
                 /\ Quality[after[Cell[o]]["best_quality"]] >= Quality[o]
        BY <2>2, <2>4, <2>5
    <2>7. QED
        BY <2>3, <2>6 DEF Holds, after
<1>4. QED
    BY <1>1, <1>2, <1>3

\* The candidates evaluated among the first n.
Seen(d, n) == {Made[i] : i \in {j \in 1..n : Made[j] \in DOMAIN d}}

\* By induction over the candidates: the archive holds for all that were evaluated.
LEMMA ArchiveHolds ==
    ASSUME NEW d, NEW n \in 0..Len(Made)
    PROVE  Holds(After(d)[n], Seen(d, n))
<1>1. Len(Made) \in Nat /\ \A i \in 1..Len(Made) : Made[i] \in Candidates
    BY TraitsAssumption
<1> DEFINE Bad == {m \in 0..Len(Made) : ~Holds(After(d)[m], Seen(d, m))}
<1>2. SUFFICES ASSUME Bad # {} PROVE FALSE
    OBVIOUS
<1>3. PICK m \in Bad : \A i \in Bad : m <= i
    <2>1. Bad \in SUBSET Nat
        BY <1>1
    <2> HIDE DEF Bad
    <2>2. QED
        BY <1>2, <2>1, LeastNumber
<1>4. After(d)[m] = Offered(d, After(d), m)
    BY AfterSteps
<1>5. CASE m = 0
    <2>1. After(d)[m] = <<>> /\ Seen(d, m) = {}
        BY <1>4, <1>5 DEF Offered, Seen
    <2>2. DOMAIN After(d)[m] = {}
        BY <2>1
    <2>3. QED
        BY <1>3, <2>1, <2>2 DEF Holds
<1>6. CASE m # 0
    <2>1. m \in Nat /\ m - 1 \in 0..Len(Made) /\ m - 1 \notin Bad /\ m \in 1..Len(Made)
        BY <1>1, <1>3, <1>6
    <2>2. Holds(After(d)[m - 1], Seen(d, m - 1))
        BY <2>1
    <2>3. 1..m = 1..(m - 1) \cup {m}
        BY <2>1
    <2>4. CASE Made[m] \in DOMAIN d
        <3>1. Seen(d, m) = Seen(d, m - 1) \cup {Made[m]}
            BY <2>3, <2>4 DEF Seen
        <3>2. After(d)[m] = Admit(After(d)[m - 1], Made[m], d)
            BY <1>4, <1>6, <2>4 DEF Offered
        <3>3. Made[m] \in Candidates /\ Seen(d, m - 1) \in SUBSET Candidates
            BY <1>1, <2>1 DEF Seen
        <3>4. Holds(Admit(After(d)[m - 1], Made[m], d), Seen(d, m - 1) \cup {Made[m]})
            BY <2>2, <3>3, AdmitHolds
        <3>5. QED
            BY <1>3, <3>1, <3>2, <3>4
    <2>5. CASE Made[m] \notin DOMAIN d
        <3>1. Seen(d, m) = Seen(d, m - 1)
            BY <2>3, <2>5 DEF Seen
        <3>2. After(d)[m] = After(d)[m - 1]
            BY <1>4, <1>6, <2>5 DEF Offered
        <3>3. QED
            BY <1>3, <2>2, <3>1, <3>2
    <2>6. QED
        BY <2>4, <2>5
<1>7. QED
    BY <1>5, <1>6

\* The candidate that select_final_candidate takes: no candidate whose cell is in the
\* archive has a better quality than it has utility, not even one the archive dropped.
LEMMA WinnerIsBest ==
    ASSUME NEW d, d \in [DOMAIN d -> Nat], DOMAIN d \subseteq Candidates,
           NEW other \in DOMAIN d, Cell[other] \in DOMAIN Archive(d)
    PROVE  Utility(Winner(d), d) >= Quality[other]
<1> DEFINE cells == Archive(d)
           elites == Retained(d)
           best == cells[Cell[other]]["best_quality"]
           worth == [c \in Candidates |-> Utility(c, d)]
<1>1. Holds(cells, Seen(d, Len(Made)))
    <2>1. Len(Made) \in 0..Len(Made)
        BY TraitsAssumption
    <2>2. QED
        BY <2>1, ArchiveHolds, ArchiveIs
<1>2. Seen(d, Len(Made)) = DOMAIN d
    <2>1. Made \in Seq(Candidates)
        BY TraitsAssumption
    <2>2. DOMAIN Made = 1..Len(Made)
        BY <2>1
    <2>3. Candidates = {Made[i] : i \in 1..Len(Made)}
        BY <2>2 DEF Candidates, Range
    <2>4. QED
        BY <2>3 DEF Seen
<1>3. elites = UNION {{cells[k][slot] : slot \in DOMAIN cells[k]} : k \in DOMAIN cells}
    BY DEF Retained, Range
<1> HIDE DEF cells, elites
<1>4. \A k \in DOMAIN cells : DOMAIN cells[k] = Slots /\ \A slot \in Slots : cells[k][slot] \in DOMAIN d
    BY <1>1, <1>2 DEF Holds
<1>5. "best_quality" \in Slots
    BY DEF Slots
<1>6. Cell[other] \in DOMAIN cells
    BY DEF cells
<1>7. best \in elites /\ Quality[best] >= Quality[other]
    <2>1. best \in elites
        BY <1>3, <1>4, <1>5, <1>6
    <2>2. QED
        BY <1>1, <1>2, <1>6, <2>1 DEF Holds
<1> HIDE DEF best
<1>8. elites \subseteq DOMAIN d
    BY <1>3, <1>4
<1>9. \A c \in elites : /\ Quality[c] \in Int /\ Robustness[c] \in Nat /\ d[c] \in Nat
                        /\ Utility(c, d) \in Int /\ Utility(c, d) >= Quality[c]
    <2> TAKE c \in elites
    <2>1. Quality[c] \in Int /\ Robustness[c] \in Nat /\ d[c] \in Nat
        BY <1>8, TraitsAssumption
    <2>2. QED
        BY <2>1 DEF Utility
<1>10. IsFiniteSet(elites)
    BY <1>8, CandidatesFinite, FS_Subset
<1>11. \A c \in elites : worth[c] = Utility(c, d) /\ worth[c] \in Int
    BY <1>8, <1>9
<1> HIDE DEF worth
<1>12. PICK top \in elites : \A c \in elites : worth[top] >= worth[c]
    BY <1>7, <1>10, <1>11, Greatest
<1>13. Winner(d) \in elites /\ \A c \in elites : Utility(Winner(d), d) >= Utility(c, d)
    BY <1>11, <1>12 DEF Winner, elites
<1>14. Utility(Winner(d), d) >= Utility(best, d)
    BY <1>7, <1>13
<1>15. Quality[other] \in Int
    BY TraitsAssumption
<1>16. QED
    BY <1>7, <1>9, <1>13, <1>14, <1>15

-----------------------------------------------------------------------------
\* Rows of records.

\* What is left of a row when its first record is written.
LEMMA RowLeft ==
    ASSUME NEW row, RowOK(row), row # <<>>, Head(row).kind # "offer"
    PROVE  \/ Tail(row) = <<>>
           \/ \E c \in Candidates : /\ row = <<[kind |-> "observed", of |-> Makes(c)], [kind |-> "offer", of |-> c]>>
                                    /\ Tail(row) = <<[kind |-> "offer", of |-> c]>>
           \/ \E r, s \in RecordSet : /\ row = <<r, s>> /\ r.kind = "evaluated" /\ s.kind = "evaluated"
                                      /\ r.of # s.of /\ Tail(row) = <<s>>
           \/ \E r \in RecordSet : /\ r.kind = "finalized"
                                   /\ \/ /\ row = <<[kind |-> "finalizing"], [kind |-> "completed"], r>>
                                         /\ Tail(row) = <<[kind |-> "completed"], r>>
                                      \/ row = <<[kind |-> "completed"], r>> /\ Tail(row) = <<r>>
           \/ row = Spend /\ Tail(row) = <<[kind |-> "told"]>>
<1>1. CASE \E r \in RecordSet : row = <<r>> /\ r.kind \notin {"query", "finalizing", "completed"}
    BY <1>1
<1>2. CASE \E c \in Candidates : row = <<[kind |-> "observed", of |-> Makes(c)], [kind |-> "offer", of |-> c]>>
    <2>1. PICK c \in Candidates : row = <<[kind |-> "observed", of |-> Makes(c)], [kind |-> "offer", of |-> c]>>
        BY <1>2
    <2>2. Tail(row) = <<[kind |-> "offer", of |-> c]>>
        BY <2>1
    <2>3. QED
        BY <2>1, <2>2
<1>3. CASE \E r, s \in RecordSet : /\ row = <<r, s>> /\ r.kind = "evaluated" /\ s.kind = "evaluated"
                                   /\ r.of # s.of
    <2>1. PICK r \in RecordSet, s \in RecordSet :
              row = <<r, s>> /\ r.kind = "evaluated" /\ s.kind = "evaluated" /\ r.of # s.of
        BY <1>3
    <2>2. Tail(row) = <<s>>
        BY <2>1
    <2>3. QED
        BY <2>1, <2>2
<1>4. CASE \E r \in RecordSet : /\ r.kind = "finalized"
                                /\ \/ row = <<[kind |-> "finalizing"], [kind |-> "completed"], r>>
                                   \/ row = <<[kind |-> "completed"], r>>
    <2>1. PICK r \in RecordSet : /\ r.kind = "finalized"
                                 /\ \/ row = <<[kind |-> "finalizing"], [kind |-> "completed"], r>>
                                    \/ row = <<[kind |-> "completed"], r>>
        BY <1>4
    <2>2. row = <<[kind |-> "finalizing"], [kind |-> "completed"], r>>
            => Tail(row) = <<[kind |-> "completed"], r>>
        OBVIOUS
    <2>3. row = <<[kind |-> "completed"], r>> => Tail(row) = <<r>>
        OBVIOUS
    <2>4. QED
        BY <2>1, <2>2, <2>3
<1>5. CASE row = Spend
    BY <1>5 DEF Spend
<1>6. QED
    BY <1>1, <1>2, <1>3, <1>4, <1>5 DEF RowOK

\* The record that is written first, by its kind.
LEMMA FirstOfRow ==
    ASSUME NEW row, RowOK(row), row # <<>>
    PROVE  /\ 1 \in DOMAIN row /\ Head(row) = row[1]
           /\ Tail(row) # Spend
           /\ Head(row).kind = "query" => row = Spend
           /\ Head(row).kind # "query" => Tail(row) # <<[kind |-> "told"]>>
<1> DEFINE completing(r) == <<[kind |-> "completed"], r>>
<1>0. /\ Spend[1].kind = "query" /\ Len(Spend) = 2
      /\ <<[kind |-> "told"]>>[1].kind = "told" /\ Len(<<[kind |-> "told"]>>) = 1
    BY DEF Spend
<1>1. CASE \E r \in RecordSet : row = <<r>> /\ r.kind \notin {"query", "finalizing", "completed"}
    BY <1>1 DEF Spend
<1>2. CASE \E c \in Candidates : row = <<[kind |-> "observed", of |-> Makes(c)], [kind |-> "offer", of |-> c]>>
    <2>1. PICK c \in Candidates : row = <<[kind |-> "observed", of |-> Makes(c)], [kind |-> "offer", of |-> c]>>
        BY <1>2
    <2>2. Tail(row) = <<[kind |-> "offer", of |-> c]>> /\ Head(row).kind = "observed"
        BY <2>1
    <2>3. Tail(row)[1].kind = "offer" /\ 1 \in DOMAIN row /\ Head(row) = row[1] /\ Len(Tail(row)) = 1
        BY <2>1, <2>2
    <2>4. QED
        BY <1>0, <2>2, <2>3
<1>3. CASE \E r, s \in RecordSet : /\ row = <<r, s>> /\ r.kind = "evaluated" /\ s.kind = "evaluated"
                                   /\ r.of # s.of
    <2>1. PICK r \in RecordSet, s \in RecordSet :
              row = <<r, s>> /\ r.kind = "evaluated" /\ s.kind = "evaluated" /\ r.of # s.of
        BY <1>3
    <2>2. Tail(row) = <<s>> /\ Head(row).kind = "evaluated"
        BY <2>1
    <2>3. Tail(row)[1].kind = "evaluated" /\ 1 \in DOMAIN row /\ Head(row) = row[1] /\ Len(Tail(row)) = 1
        BY <2>1, <2>2
    <2>4. QED
        BY <1>0, <2>2, <2>3
<1>4. CASE \E r \in RecordSet : /\ r.kind = "finalized"
                                /\ \/ row = <<[kind |-> "finalizing"], [kind |-> "completed"], r>>
                                   \/ row = <<[kind |-> "completed"], r>>
    <2>1. PICK r \in RecordSet : /\ r.kind = "finalized"
                                 /\ \/ row = <<[kind |-> "finalizing"], [kind |-> "completed"], r>>
                                    \/ row = <<[kind |-> "completed"], r>>
        BY <1>4
    <2>2. CASE row = <<[kind |-> "finalizing"], [kind |-> "completed"], r>>
        <3>1. /\ Tail(row) = <<[kind |-> "completed"], r>> /\ Head(row).kind = "finalizing"
              /\ 1 \in DOMAIN row /\ Head(row) = row[1]
            BY <2>2
        <3>2. Tail(row)[1].kind = "completed"
            <4>1. completing(r)[1].kind = "completed"
                OBVIOUS
            <4>2. Tail(row) = completing(r)
                BY <3>1
            <4> HIDE DEF completing
            <4>3. QED
                BY <4>1, <4>2
        <3>3. QED
            BY <1>0, <3>1, <3>2
    <2>3. CASE row = <<[kind |-> "completed"], r>>
        <3>1. /\ Tail(row) = <<r>> /\ Head(row).kind = "completed"
              /\ 1 \in DOMAIN row /\ Head(row) = row[1]
            BY <2>3
        <3>2. Tail(row)[1].kind = "finalized"
            BY <2>1, <3>1
        <3>3. QED
            BY <1>0, <3>1, <3>2
    <2>4. QED
        BY <2>1, <2>2, <2>3
<1>5. CASE row = Spend
    BY <1>5 DEF Spend
<1>6. QED
    BY <1>1, <1>2, <1>3, <1>4, <1>5 DEF RowOK

\* A record that tells of feedback stands alone.
LEMMA ToldAlone ==
    ASSUME NEW row, RowOK(row), row # <<>>, Head(row).kind = "told"
    PROVE  row = <<[kind |-> "told"]>>
<1>1. \A r \in RecordSet : r.kind = "told" => r = [kind |-> "told"]
    BY DEF RecordSet
<1>2. PICK r \in RecordSet : row = <<r>>
    <2>1. \A c \in Candidates :
              <<[kind |-> "observed", of |-> Makes(c)], [kind |-> "offer", of |-> c]>>[1].kind = "observed"
        OBVIOUS
    <2>2. row[1].kind = "told"
        BY FirstOfRow
    <2>3. QED
        BY <2>1, <2>2 DEF RowOK, Spend
<1>3. Head(row) = r
    BY <1>2
<1>4. QED
    BY <1>1, <1>2, <1>3

\* What is left of a row is a row.
LEMMA TailIsRow ==
    ASSUME NEW row, RowOK(row), row # <<>>, Head(row).kind # "offer"
    PROVE  /\ RowOK(Tail(row)) /\ Tail(row) # row
           /\ \A i \in DOMAIN Tail(row) : i + 1 \in DOMAIN row /\ Tail(row)[i] = row[i + 1]
<1>1. RowOK(Tail(row))
    <2>1. \A c \in Candidates : [kind |-> "offer", of |-> c] \in RecordSet
        BY DEF RecordSet
    <2>2. [kind |-> "told"] \in RecordSet
        BY DEF RecordSet
    <2>3. QED
        BY <2>1, <2>2, RowLeft DEF RowOK
<1>2. row \in Seq(Range(row))
    BY DEF RowOK, Range, Spend
<1>3. Len(Tail(row)) = Len(row) - 1 /\ Len(row) \in Nat
    BY <1>2, HeadTailProperties
<1>4. /\ DOMAIN Tail(row) = 1..(Len(row) - 1) /\ DOMAIN row = 1..Len(row)
      /\ \A i \in 1..(Len(row) - 1) : Tail(row)[i] = row[i + 1]
    <2>1. Tail(row) \in Seq(Range(row))
        BY <1>2, HeadTailProperties
    <2>2. DOMAIN Tail(row) = 1..Len(Tail(row)) /\ DOMAIN row = 1..Len(row)
        BY <1>2, <2>1
    <2>3. QED
        BY <1>2, <1>3, <2>2, HeadTailProperties
<1> DEFINE rest == Tail(row)
<1>5. /\ RowOK(rest) /\ Len(rest) = Len(row) - 1 /\ DOMAIN rest = 1..(Len(row) - 1)
      /\ \A i \in 1..(Len(row) - 1) : rest[i] = row[i + 1]
    BY <1>1, <1>3, <1>4
<1> HIDE DEF rest
<1>6. rest # row /\ \A i \in DOMAIN rest : i + 1 \in DOMAIN row /\ rest[i] = row[i + 1]
    BY <1>3, <1>4, <1>5
<1>7. QED
    BY <1>5, <1>6 DEF rest

-----------------------------------------------------------------------------
\* Who holds a query.

\* Sets of processes are finite, and there is at least one.
LEMMA ProcsFinite ==
    /\ IsFiniteSet(Procs) /\ Cardinality(Procs) \in Nat /\ Cardinality(Procs) >= 1
    /\ \A S \in SUBSET Procs : IsFiniteSet(S) /\ Cardinality(S) \in Nat
                               /\ Cardinality(S) <= Cardinality(Procs)
<1>1. IsFiniteSet(Procs) /\ Procs # {}
    BY ProcsAssumption
<1>2. Cardinality(Procs) \in Nat /\ Cardinality(Procs) # 0
    BY <1>1, FS_CardinalityType, FS_EmptySet
<1>3. ASSUME NEW S \in SUBSET Procs
      PROVE  /\ IsFiniteSet(S) /\ Cardinality(S) \in Nat
             /\ Cardinality(S) <= Cardinality(Procs)
    BY <1>1, FS_Subset, FS_CardinalityType
<1>4. QED
    BY <1>1, <1>2, <1>3

\* One process fewer, or one that was none of them.
LEMMA WithoutOne ==
    ASSUME NEW S \in SUBSET Procs, NEW p \in Procs
    PROVE  Cardinality(S \ {p}) = Cardinality(S) - (IF p \in S THEN 1 ELSE 0)
<1>1. IsFiniteSet(S) /\ Cardinality(S) \in Nat
    BY ProcsFinite
<1>2. CASE p \in S
    <2>1. Cardinality(S \ {p}) = Cardinality(S) - 1
        BY <1>1, <1>2, FS_RemoveElement
    <2>2. QED
        BY <1>2, <2>1
<1>3. CASE p \notin S
    <2>1. S \ {p} = S
        BY <1>3
    <2>2. QED
        BY <1>1, <1>3, <2>1
<1>4. QED
    BY <1>2, <1>3

\* One process more.
LEMMA WithOne ==
    ASSUME NEW S \in SUBSET Procs, NEW p \in Procs, p \notin S
    PROVE  Cardinality(S \cup {p}) = Cardinality(S) + 1
<1>1. IsFiniteSet(S)
    BY ProcsFinite
<1>2. QED
    BY <1>1, FS_AddElement

-----------------------------------------------------------------------------
\* Steps that write nothing.

\* While nothing is appended, what records and rows say stays as it is.
LEMMA NothingAppended ==
    ASSUME UNCHANGED run
    PROVE  /\ \A r : RecordOK(r)' <=> RecordOK(r)
           /\ \A row : FreshRow(row)' <=> FreshRow(row)
           /\ \A chosen : Best(chosen)' <=> Best(chosen)
           /\ \A c : Validated(c)' <=> Validated(c)
<1>1. /\ rule' = rule /\ late' = late /\ observed' = observed /\ qd' = qd /\ oof' = oof
      /\ ensembles' = ensembles /\ told' = told /\ loop' = loop /\ answer' = answer
    BY DEF run
<1>2. \A c : Validated(c)' <=> Validated(c)
    BY <1>1 DEF Validated
<1>3. \A chosen : Best(chosen)' <=> Best(chosen)
    BY <1>1 DEF Best
<1>4. \A r : RecordOK(r)' <=> RecordOK(r)
    BY <1>1, <1>2 DEF RecordOK
<1>5. \A row : FreshRow(row)' <=> FreshRow(row)
    BY <1>1, <1>3 DEF FreshRow
<1>6. QED
    BY <1>2, <1>3, <1>4, <1>5

\* A process takes another row, or drops the one it has, and nothing is appended.
LEMMA NewRow ==
    ASSUME IInv, NEW p \in Procs, NEW row, UNCHANGED <<run, queries, disturbed>>,
           todo' = [todo EXCEPT ![p] = row],
           fresh' = fresh \/ \E b \in BOOLEAN : fresh' = [fresh EXCEPT ![p] = b],
           RowOK(row), \A i \in DOMAIN row : row[i] \in RecordSet /\ RecordOK(row[i]),
           fresh'[p] => FreshRow(row),
           row = Spend => queries < MaxQueries,
           row # <<[kind |-> "told"]>>
    PROVE  IInv'
<1> USE DEF IInv
<1>1. UNCHANGED <<run>> /\ queries' = queries /\ disturbed' = disturbed
    BY DEF run
<1>2. /\ \A r : RecordOK(r)' <=> RecordOK(r)
      /\ \A other : FreshRow(other)' <=> FreshRow(other)
      /\ \A chosen : Best(chosen)' <=> Best(chosen)
      /\ \A c : Validated(c)' <=> Validated(c)
    BY <1>1, NothingAppended
<1>3. /\ todo' = [q \in Procs |-> todo'[q]] /\ todo'[p] = row
      /\ \A q \in Procs : q # p => todo'[q] = todo[q]
    BY DEF RowsOK
<1>4. /\ fresh' \in [Procs -> BOOLEAN]
      /\ \A q \in Procs : q # p => fresh'[q] = fresh[q]
    BY DEF TypeOK
<1>5. TypeOK'
    <2>1. \A q \in Procs : \A i \in DOMAIN todo'[q] : todo'[q][i] \in RecordSet
        BY <1>3 DEF TypeOK
    <2>2. QED
        BY <1>1, <1>4, <2>1 DEF TypeOK, run
<1>6. RowsOK'
    <2>1. ASSUME NEW q \in Procs
          PROVE  /\ RowOK(todo'[q])
                 /\ \A i \in DOMAIN todo'[q] : RecordOK(todo'[q][i])
                 /\ fresh'[q] => FreshRow(todo'[q])
        BY <1>3, <1>4 DEF RowsOK
    <2>2. ASSUME NEW q \in Procs
          PROVE  /\ RowOK(todo[q])'
                 /\ (\A i \in DOMAIN todo[q] : RecordOK(todo[q][i]))'
                 /\ (fresh[q] => FreshRow(todo[q]))'
        <3>1. RowOK(todo[q])'
            BY <2>1 DEF RowOK
        <3>2. QED
            BY <1>2, <2>1, <3>1
    <2>3. QED
        BY <1>3, <2>2 DEF RowsOK
<1>7. BudgetOK'
    <2>1. Telling' = Telling \ {p} /\ Telling \in SUBSET Procs
        BY <1>3 DEF Telling
    <2>2. Cardinality(Telling') <= Cardinality(Telling)
        <3>1. Cardinality(Telling) \in Nat
            BY <2>1, ProcsFinite
        <3>2. QED
            BY <2>1, <3>1, WithoutOne
    <2>3. Cardinality(Telling') \in Nat /\ Cardinality(Telling) \in Nat
        <3>1. Telling' \in SUBSET Procs
            BY <2>1
        <3>2. QED
            BY <2>1, <3>1, ProcsFinite
    <2>4. Spending \in SUBSET Procs /\ Spending' \in SUBSET Procs
        BY DEF Spending
    <2>5. /\ Cardinality(Spending) \in Nat /\ Cardinality(Spending') \in Nat
          /\ Cardinality(Spending') <= Cardinality(Procs) /\ Cardinality(Procs) \in Nat
        BY <2>4, ProcsFinite
    <2>6. queries \in Nat /\ told \in Nat /\ answer.queries \in Nat /\ MaxQueries \in Nat
        BY LimitsAssumption DEF TypeOK
    <2>7. queries + Cardinality(Spending') <= MaxQueries + Cardinality(Procs) - 1
        <3>1. CASE row = Spend
            BY <2>5, <2>6, <3>1
        <3>2. CASE row # Spend
            <4>1. Spending' = Spending \ {p}
                BY <1>3, <3>2 DEF Spending, Spend
            <4>2. Cardinality(Spending') <= Cardinality(Spending)
                BY <2>4, <2>5, <4>1, WithoutOne
            <4>3. QED
                BY <2>5, <2>6, <4>2 DEF BudgetOK
        <3>3. QED
            BY <3>1, <3>2
    <2>8. told + Cardinality(Telling') <= queries
        BY <2>2, <2>3, <2>6 DEF BudgetOK
    <2>9. QED
        BY <1>1, <2>7, <2>8 DEF BudgetOK, run
<1>8. LockedAnswerStands'
    <2>1. /\ rule' = rule /\ late' = late /\ observed' = observed /\ qd' = qd /\ oof' = oof
          /\ ensembles' = ensembles /\ told' = told /\ loop' = loop /\ answer' = answer
        BY DEF run
    <2>2. QED
        BY <1>1, <1>2, <2>1 DEF LockedAnswerStands
<1>9. QED
    BY <1>5, <1>6, <1>7, <1>8

-----------------------------------------------------------------------------
\* Calls, each with the row it leaves.

\* A call that leaves one record.
LEMMA OneRecord ==
    ASSUME IInv, NEW p \in Procs, NEW r \in RecordSet, Reads(p, <<r>>),
           r.kind \notin {"query", "told", "finalizing", "completed"},
           RecordOK(r), FreshRow(<<r>>)
    PROVE  IInv'
<1> DEFINE row == <<r>>
<1>1. /\ UNCHANGED <<run, queries, disturbed>> /\ todo' = [todo EXCEPT ![p] = row]
      /\ \E b \in BOOLEAN : fresh' = [fresh EXCEPT ![p] = b]
    BY DEF Reads
<1>2. RowOK(row)
    BY DEF RowOK
<1>3. DOMAIN row = {1} /\ row[1] = r
    OBVIOUS
<1>4. row # Spend /\ row # <<[kind |-> "told"]>>
    <2>1. Spend[1].kind = "query" /\ <<[kind |-> "told"]>>[1].kind = "told"
        BY DEF Spend
    <2>2. row[1].kind # "query" /\ row[1].kind # "told"
        BY <1>3
    <2>3. QED
        BY <2>1, <2>2
<1>5. FreshRow(row)
    OBVIOUS
<1> HIDE DEF row
<1>6. \A i \in DOMAIN row : row[i] \in RecordSet /\ RecordOK(row[i])
    BY <1>3
<1>7. QED
    BY <1>1, <1>2, <1>4, <1>5, <1>6, NewRow

\* A row of a single record says of a fresh process what its record says.
LEMMA FreshRecord ==
    ASSUME NEW r,
           r.kind = "evaluated" => r.of \notin DOMAIN qd,
           r.kind = "rule" => rule = "none" /\ observed = {},
           r.kind # "finalized"
    PROVE  FreshRow(<<r>>)
<1>1. DOMAIN <<r>> = {1} /\ <<r>>[1] = r
    OBVIOUS
<1> DEFINE row == <<r>>
<1> HIDE DEF row
<1>2. FreshRow(row)
    BY <1>1 DEF FreshRow, row
<1>3. QED
    BY <1>2 DEF row

\* A rule is registered by a call that has read no observation and no rule.
LEMMA RegisterKeeps ==
    ASSUME IInv, NEW p \in Procs, NEW policy \in Policies, RegisterFinalSelectionRule(p, policy)
    PROVE  IInv'
<1> DEFINE r == [kind |-> "rule", of |-> policy]
<1>1. Reads(p, <<r>>) /\ rule = "none" /\ observed = {}
    BY DEF RegisterFinalSelectionRule
<1>2. r \in RecordSet /\ r.kind = "rule"
    BY DEF RecordSet
<1> HIDE DEF r
<1>3. RecordOK(r) /\ FreshRow(<<r>>)
    BY <1>1, <1>2, FreshRecord DEF RecordOK
<1>4. QED
    BY <1>1, <1>2, <1>3, OneRecord

\* A candidate enters the archive with a diversity nobody has measured yet.
LEMMA ArchiveCandidateKeeps ==
    ASSUME IInv, NEW p \in Procs, NEW c \in Candidates, ArchiveCandidate(p, c)
    PROVE  IInv'
<1> DEFINE r == Evaluated(c, 0)
<1>1. Reads(p, <<r>>) /\ c \notin DOMAIN qd /\ Makes(c) \in observed
    BY DEF ArchiveCandidate, MayBeArchived
<1>2. r \in RecordSet /\ r.kind = "evaluated" /\ r.of = c
    BY LimitsAssumption DEF RecordSet, Evaluated
<1> HIDE DEF r
<1>3. RecordOK(r) /\ FreshRow(<<r>>)
    BY <1>1, <1>2, FreshRecord DEF RecordOK
<1>4. QED
    BY <1>1, <1>2, <1>3, OneRecord

\* Only a recorded candidate gets an OOF artifact.
LEMMA RecordOofArtifactKeeps ==
    ASSUME IInv, NEW p \in Procs, NEW c \in Candidates, RecordOofArtifact(p, c)
    PROVE  IInv'
<1> DEFINE r == [kind |-> "oof", of |-> c]
<1>1. Reads(p, <<r>>) /\ c \in DOMAIN qd
    BY DEF RecordOofArtifact
<1>2. r \in RecordSet /\ r.kind = "oof" /\ r.of = c
    BY DEF RecordSet
<1> HIDE DEF r
<1>3. RecordOK(r) /\ FreshRow(<<r>>)
    BY <1>1, <1>2, FreshRecord DEF RecordOK
<1>4. QED
    BY <1>1, <1>2, <1>3, OneRecord

\* Only candidates with OOF artifacts are blended.
LEMMA RecordOofEnsembleKeeps ==
    ASSUME IInv, NEW p \in Procs, NEW e \in Ensembles, RecordOofEnsemble(p, e)
    PROVE  IInv'
<1> DEFINE r == [kind |-> "ensemble", of |-> e]
<1>1. Reads(p, <<r>>) /\ Members[e] \subseteq oof
    BY DEF RecordOofEnsemble
<1>2. r \in RecordSet /\ r.kind = "ensemble" /\ r.of = e
    BY DEF RecordSet
<1> HIDE DEF r
<1>3. RecordOK(r) /\ FreshRow(<<r>>)
    BY <1>1, <1>2, FreshRecord DEF RecordOK
<1>4. QED
    BY <1>1, <1>2, <1>3, OneRecord

\* Two rows of one record each make a row of two.
LEMMA PairOfRecords ==
    ASSUME NEW a, NEW b
    PROVE  <<a>> \o <<b>> = <<a, b>>
<1>1. <<a>> \in Seq({a, b}) /\ <<b>> \in Seq({a, b}) /\ <<a, b>> \in Seq({a, b})
    OBVIOUS
<1> DEFINE one == <<a>>
           other == <<b>>
           both == <<a, b>>
<1>2. /\ Len(one) = 1 /\ Len(other) = 1 /\ Len(both) = 2
      /\ one[1] = a /\ other[1] = b /\ both[1] = a /\ both[2] = b
    OBVIOUS
<1> HIDE DEF one, other, both
<1>3. one \in Seq({a, b}) /\ other \in Seq({a, b}) /\ both \in Seq({a, b})
    BY <1>1 DEF one, other, both
<1>4. /\ one \o other \in Seq({a, b}) /\ Len(one \o other) = 2
      /\ (one \o other)[1] = a /\ (one \o other)[2] = b
    BY <1>2, <1>3, ConcatProperties
<1>5. one \o other = both
    BY <1>2, <1>3, <1>4, SeqEqual
<1>6. QED
    BY <1>5 DEF one, other, both

\* An import observes its experiment before it offers the candidate.
LEMMA ImportKeeps ==
    ASSUME IInv, NEW p \in Procs, NEW e \in Experiments, Import(p, e)
    PROVE  IInv'
<1> DEFINE r == [kind |-> "observed", of |-> e]
<1>1. r \in RecordSet /\ r.kind = "observed" /\ r.of = e
    BY DEF RecordSet
<1>2. RecordOK(r)
    BY <1>1 DEF RecordOK
<1>3. CASE e[1] # "candidate"
    <2>1. Reads(p, <<r>>)
        <3>1. <<r>> \o <<>> = <<r>>
            OBVIOUS
        <3>2. QED
            BY <1>3, <3>1 DEF Import
    <2> HIDE DEF r
    <2>2. FreshRow(<<r>>)
        BY <1>1, FreshRecord
    <2>3. QED
        BY <1>1, <1>2, <2>1, <2>2, OneRecord
<1>4. CASE e[1] = "candidate"
    <2>1. PICK c \in Candidates : e = Makes(c)
        BY <1>4 DEF Experiments, Makes, Replicates, Blends
    <2>2. e[2] = c
        BY <2>1 DEF Makes
    <2> DEFINE s == [kind |-> "offer", of |-> c]
               row == <<r, s>>
    <2>3. Reads(p, row)
        <3>1. <<r>> \o <<s>> = row
            BY PairOfRecords
        <3>2. QED
            BY <1>4, <2>2, <3>1 DEF Import
    <2>4. s \in RecordSet /\ s.kind = "offer"
        BY DEF RecordSet
    <2>5. RowOK(row)
        BY <2>1 DEF RowOK
    <2>6. DOMAIN row = {1, 2} /\ row[1] = r /\ row[2] = s
        OBVIOUS
    <2>7. row # Spend /\ row # <<[kind |-> "told"]>>
        <3>1. Spend[1].kind = "query" /\ <<[kind |-> "told"]>>[1].kind = "told"
            BY DEF Spend
        <3>2. QED
            BY <1>1, <2>6, <3>1
    <2> HIDE DEF r, s, row
    <2>8. RecordOK(s)
        BY <2>4 DEF RecordOK
    <2>9. FreshRow(row)
        BY <1>1, <2>4, <2>6 DEF FreshRow
    <2>10. \A i \in DOMAIN row : row[i] \in RecordSet /\ RecordOK(row[i])
        BY <1>1, <1>2, <2>4, <2>6, <2>8
    <2>11. /\ UNCHANGED <<run, queries, disturbed>> /\ todo' = [todo EXCEPT ![p] = row]
           /\ \E b \in BOOLEAN : fresh' = [fresh EXCEPT ![p] = b]
        BY <2>3 DEF Reads
    <2>12. QED
        BY <2>5, <2>7, <2>9, <2>10, <2>11, NewRow
<1>5. QED
    BY <1>3, <1>4

\* The larger of two naturals within bounds.
LEMMA HigherIs ==
    ASSUME NEW m \in 0..MaxDiversity, NEW n \in 0..MaxDiversity
    PROVE  Higher(m, n) \in 0..MaxDiversity /\ Higher(m, n) >= m
BY LimitsAssumption DEF Higher

\* An analysis revises both candidates upwards, from what its call has read.
LEMMA RecordOofAnalysisKeeps ==
    ASSUME IInv, NEW p \in Procs, NEW left \in Candidates, NEW right \in Candidates, left # right,
           NEW measured \in 0..MaxDiversity, RecordOofAnalysis(p, left, right, measured)
    PROVE  IInv'
<1>1. qd[left] \in 0..MaxDiversity /\ qd[right] \in 0..MaxDiversity
    BY DEF RecordOofAnalysis, IInv, TypeOK
<1>2. PICK r : r = Revised(left, measured)
    OBVIOUS
<1>3. PICK s : s = Revised(right, measured)
    OBVIOUS
<1>4. /\ r \in RecordSet /\ r.kind = "evaluated" /\ r.of = left /\ r.diversity >= qd[left]
      /\ r.diversity \in 0..MaxDiversity
    <2>1. PICK n \in 0..MaxDiversity : n = Higher(qd[left], measured) /\ n >= qd[left]
        BY <1>1, HigherIs
    <2>2. r = [kind |-> "evaluated", of |-> left, diversity |-> n]
        BY <1>2, <2>1 DEF Revised, Evaluated
    <2>3. QED
        BY <2>1, <2>2 DEF RecordSet
<1>5. /\ s \in RecordSet /\ s.kind = "evaluated" /\ s.of = right /\ s.diversity >= qd[right]
      /\ s.diversity \in 0..MaxDiversity
    <2>1. PICK n \in 0..MaxDiversity : n = Higher(qd[right], measured) /\ n >= qd[right]
        BY <1>1, HigherIs
    <2>2. s = [kind |-> "evaluated", of |-> right, diversity |-> n]
        BY <1>3, <2>1 DEF Revised, Evaluated
    <2>3. QED
        BY <2>1, <2>2 DEF RecordSet
<1> DEFINE row == <<r, s>>
<1>6. Reads(p, row) /\ {left, right} \subseteq DOMAIN qd
    BY <1>2, <1>3 DEF RecordOofAnalysis
<1>7. RowOK(row)
    BY <1>4, <1>5 DEF RowOK
<1>8. DOMAIN row = {1, 2} /\ row[1] = r /\ row[2] = s
    OBVIOUS
<1>9. row # Spend /\ row # <<[kind |-> "told"]>>
    <2>1. Spend[1].kind = "query" /\ <<[kind |-> "told"]>>[1].kind = "told"
        BY DEF Spend
    <2>2. QED
        BY <1>4, <1>8, <2>1
<1> HIDE DEF row
<1>10. RecordOK(r) /\ RecordOK(s)
    BY <1>4, <1>5, <1>6 DEF RecordOK, IInv, TypeOK
<1>11. FreshRow(row)
    <2>1. qd[left] <= r.diversity /\ qd[right] <= s.diversity
        BY <1>1, <1>4, <1>5
    <2>2. QED
        BY <1>4, <1>5, <1>8, <2>1 DEF FreshRow
<1>12. \A i \in DOMAIN row : row[i] \in RecordSet /\ RecordOK(row[i])
    BY <1>4, <1>5, <1>8, <1>10
<1>13. /\ UNCHANGED <<run, queries, disturbed>> /\ todo' = [todo EXCEPT ![p] = row]
       /\ \E b \in BOOLEAN : fresh' = [fresh EXCEPT ![p] = b]
    BY <1>6 DEF Reads
<1>14. QED
    BY <1>7, <1>9, <1>11, <1>12, <1>13, NewRow

\* Candidates recorded in a run are candidates.
LEMMA RecordedAreCandidates ==
    ASSUME TypeOK
    PROVE  DOMAIN qd \subseteq Candidates /\ qd \in [DOMAIN qd -> Nat]
<1>1. ASSUME NEW c, Makes(c) \in Experiments PROVE c \in Candidates
    BY <1>1 DEF Experiments, Makes, Replicates, Blends
<1>2. DOMAIN qd \subseteq Candidates
    BY <1>1 DEF TypeOK
<1>3. 0..MaxDiversity \subseteq Nat
    BY LimitsAssumption
<1>4. QED
    BY <1>2, <1>3 DEF TypeOK

\* What finalize may lock is the best answer by the rule of the run.
LEMMA ChoiceIsBest ==
    ASSUME TypeOK, NEW e, NEW chosen \in Choice(e), rule # "none"
    PROVE  chosen \in SUBSET Candidates /\ chosen # {} /\ Best(chosen)
<1>1. CASE rule = "cross_fitted_ensemble_v1"
    <2>1. PICK b \in ensembles : chosen = Members[b] /\ \A y \in ensembles : Gain[b] >= Gain[y]
        BY <1>1 DEF Choice
    <2>2. b \in Ensembles
        BY <2>1 DEF TypeOK
    <2>3. Members[b] \in SUBSET Candidates /\ Members[b] # {}
        <3> DEFINE blends == (SUBSET Candidates) \ {{}}
        <3>1. Members \in [Ensembles -> blends]
            BY TraitsAssumption
        <3> HIDE DEF blends
        <3>2. Members[b] \in blends
            BY <2>2, <3>1
        <3>3. QED
            BY <3>2 DEF blends
    <2>4. QED
        BY <1>1, <2>1, <2>3 DEF Best
<1>2. CASE rule # "cross_fitted_ensemble_v1"
    <2>1. PICK x \in DOMAIN qd : chosen = {x} /\ x = Winner(qd)
        BY <1>2 DEF Choice
    <2>2. ASSUME NEW other \in DOMAIN qd, Cell[other] \in DOMAIN Archive(qd)
          PROVE  Utility(Winner(qd), qd) >= Quality[other]
        BY <2>2, RecordedAreCandidates, WinnerIsBest
    <2>3. x \in Candidates
        BY RecordedAreCandidates
    <2>4. QED
        BY <1>2, <2>1, <2>2, <2>3 DEF Best
<1>3. QED
    BY <1>1, <1>2

\* What finalize is about to lock is validated, and the best by what it has read.
LEMMA FinalizeKeeps ==
    ASSUME IInv, NEW p \in Procs, NEW e \in Experiments, Finalize(p, e)
    PROVE  IInv'
<1>1. PICK chosen \in Choice(e) :
          /\ \A c \in chosen : Validated(c)
          /\ Reads(p, <<[kind |-> "finalizing"], [kind |-> "completed"],
                        [kind |-> "finalized", candidates |-> chosen, queries |-> told]>>)
    BY DEF Finalize
<1>2. PICK r : r = [kind |-> "finalized", candidates |-> chosen, queries |-> told]
    OBVIOUS
<1>3. rule # "none" /\ told <= MaxQueries /\ told \in Nat
    BY DEF Finalize, IInv, TypeOK
<1>4. chosen \in SUBSET Candidates /\ chosen # {} /\ Best(chosen)
    BY <1>1, <1>3, ChoiceIsBest DEF IInv
<1>5. /\ r \in RecordSet /\ r.kind = "finalized" /\ r.candidates = chosen /\ r.queries = told
    <2>1. told \in 0..MaxQueries
        BY <1>3, LimitsAssumption
    <2>2. QED
        BY <1>2, <1>4, <2>1 DEF RecordSet
<1> DEFINE first == [kind |-> "finalizing"]
           second == [kind |-> "completed"]
           row == <<first, second, r>>
<1>6. Reads(p, row)
    BY <1>1, <1>2
<1>7. RowOK(row)
    BY <1>5 DEF RowOK
<1>8. DOMAIN row = {1, 2, 3} /\ row[1] = first /\ row[2] = second /\ row[3] = r
    OBVIOUS
<1>9. first \in RecordSet /\ first.kind = "finalizing" /\ second \in RecordSet /\ second.kind = "completed"
    BY DEF RecordSet
<1>10. row # Spend /\ row # <<[kind |-> "told"]>>
    <2>1. Spend[1].kind = "query" /\ <<[kind |-> "told"]>>[1].kind = "told"
        BY DEF Spend
    <2>2. QED
        BY <1>8, <1>9, <2>1
<1> HIDE DEF row, first, second
<1>11. RecordOK(first) /\ RecordOK(second) /\ RecordOK(r)
    BY <1>1, <1>3, <1>4, <1>5, <1>9 DEF RecordOK
<1>12. FreshRow(row)
    BY <1>4, <1>5, <1>8, <1>9 DEF FreshRow
<1>13. \A i \in DOMAIN row : row[i] \in RecordSet /\ RecordOK(row[i])
    BY <1>5, <1>8, <1>9, <1>11
<1>14. /\ UNCHANGED <<run, queries, disturbed>> /\ todo' = [todo EXCEPT ![p] = row]
       /\ \E b \in BOOLEAN : fresh' = [fresh EXCEPT ![p] = b]
    BY <1>6 DEF Reads
<1>15. QED
    BY <1>7, <1>10, <1>12, <1>13, <1>14, NewRow

\* The gate lets nobody pass once the ledger holds as many queries as are allowed.
LEMMA KaggleFeedbackKeeps ==
    ASSUME IInv, NEW p \in Procs, KaggleFeedback(p)
    PROVE  IInv'
<1>1. UNCHANGED <<run, queries, disturbed>> /\ fresh' = fresh
    BY DEF KaggleFeedback
<1>2. CASE Feedback = "forbidden" \/ queries >= MaxQueries
    <2> DEFINE r == [kind |-> "violation"]
               row == <<r>>
    <2>1. todo' = [todo EXCEPT ![p] = row]
        BY <1>2 DEF KaggleFeedback
    <2>2. r \in RecordSet /\ r.kind = "violation"
        BY DEF RecordSet
    <2>3. DOMAIN row = {1} /\ row[1] = r
        OBVIOUS
    <2>4. RowOK(row)
        BY <2>2 DEF RowOK
    <2> HIDE DEF r
    <2>5. RecordOK(r) /\ FreshRow(row)
        BY <2>2, FreshRecord DEF RecordOK
    <2>6. row # Spend /\ row # <<[kind |-> "told"]>>
        <3>1. Spend[1].kind = "query" /\ <<[kind |-> "told"]>>[1].kind = "told"
            BY DEF Spend
        <3>2. QED
            BY <2>2, <2>3, <3>1
    <2> HIDE DEF row
    <2>7. \A i \in DOMAIN row : row[i] \in RecordSet /\ RecordOK(row[i])
        BY <2>2, <2>3, <2>5
    <2>8. QED
        BY <1>1, <2>1, <2>4, <2>5, <2>6, <2>7, NewRow
<1>3. CASE ~(Feedback = "forbidden" \/ queries >= MaxQueries)
    <2>1. todo' = [todo EXCEPT ![p] = Spend]
        BY <1>3 DEF KaggleFeedback
    <2>2. queries < MaxQueries
        BY <1>3, LimitsAssumption DEF IInv, TypeOK
    <2>3. /\ DOMAIN Spend = {1, 2} /\ Spend[1] = [kind |-> "query"] /\ Spend[2] = [kind |-> "told"]
          /\ Len(Spend) = 2
        BY DEF Spend
    <2>4. [kind |-> "query"] \in RecordSet /\ [kind |-> "told"] \in RecordSet
        BY DEF RecordSet
    <2>5. \A i \in DOMAIN Spend : Spend[i] \in RecordSet /\ RecordOK(Spend[i])
        BY <2>3, <2>4 DEF RecordOK
    <2>6. FreshRow(Spend)
        BY <2>3 DEF FreshRow
    <2>7. RowOK(Spend) /\ Spend # <<[kind |-> "told"]>>
        BY <2>3 DEF RowOK
    <2>8. QED
        BY <1>1, <2>1, <2>2, <2>5, <2>6, <2>7, NewRow
<1>4. QED
    BY <1>2, <1>3

\* A process that drops its row.
LEMMA DropKeeps ==
    ASSUME IInv, NEW p \in Procs, UNCHANGED <<run, queries, disturbed>>,
           todo' = [todo EXCEPT ![p] = <<>>],
           \E b \in BOOLEAN : fresh' = [fresh EXCEPT ![p] = b]
    PROVE  IInv'
<1> DEFINE row == <<>>
<1>1. /\ DOMAIN row = {} /\ RowOK(row) /\ FreshRow(row)
      /\ row # Spend /\ row # <<[kind |-> "told"]>>
    BY DEF RowOK, FreshRow, Spend
<1>2. \A i \in DOMAIN row : row[i] \in RecordSet /\ RecordOK(row[i])
    BY <1>1
<1>3. todo' = [todo EXCEPT ![p] = row]
    OBVIOUS
<1> HIDE DEF row
<1>4. QED
    BY <1>1, <1>2, <1>3, NewRow

\* The offer reads the state again, and leaves the candidate to be recorded or nothing.
LEMMA OfferKeeps ==
    ASSUME IInv, NEW p \in Procs, Offer(p)
    PROVE  IInv'
<1>1. PICK c : c = Head(todo[p]).of
    OBVIOUS
<1>2. /\ todo' = [todo EXCEPT ![p] = IF MayBeArchived(c) THEN <<Evaluated(c, 0)>> ELSE <<>>]
      /\ fresh' = [fresh EXCEPT ![p] = TRUE] /\ UNCHANGED <<run, queries, disturbed>>
    BY <1>1 DEF Offer
<1>3. \E b \in BOOLEAN : fresh' = [fresh EXCEPT ![p] = b]
    BY <1>2
<1>4. CASE ~MayBeArchived(c)
    BY <1>2, <1>3, <1>4, DropKeeps
<1>5. CASE MayBeArchived(c)
    <2> DEFINE r == Evaluated(c, 0)
    <2>1. c \in Candidates
        <3>1. RowOK(todo[p]) /\ todo[p] # <<>> /\ Head(todo[p]).kind = "offer"
            BY DEF Offer, IInv, RowsOK
        <3>2. 1 \in DOMAIN todo[p] /\ Head(todo[p]) = todo[p][1]
            BY <3>1, FirstOfRow
        <3>3. Head(todo[p]) \in RecordSet
            BY <3>2 DEF IInv, TypeOK
        <3>4. QED
            BY <1>1, <3>1, <3>3 DEF RecordSet
    <2>2. c \notin DOMAIN qd /\ Makes(c) \in observed
        BY <1>5 DEF MayBeArchived
    <2>3. r \in RecordSet /\ r.kind = "evaluated" /\ r.of = c
        BY <2>1, LimitsAssumption DEF RecordSet, Evaluated
    <2>4. todo' = [todo EXCEPT ![p] = <<r>>]
        BY <1>2, <1>5
    <2> HIDE DEF r
    <2>5. RecordOK(r) /\ FreshRow(<<r>>)
        BY <2>2, <2>3, FreshRecord DEF RecordOK
    <2> DEFINE row == <<r>>
    <2>6. DOMAIN row = {1} /\ row[1] = r
        OBVIOUS
    <2>7. RowOK(row)
        BY <2>3 DEF RowOK
    <2>8. row # Spend /\ row # <<[kind |-> "told"]>>
        <3>1. Spend[1].kind = "query" /\ <<[kind |-> "told"]>>[1].kind = "told"
            BY DEF Spend
        <3>2. QED
            BY <2>3, <2>6, <3>1
    <2>9. FreshRow(row) /\ todo' = [todo EXCEPT ![p] = row]
        BY <2>4, <2>5
    <2> HIDE DEF row
    <2>10. \A i \in DOMAIN row : row[i] \in RecordSet /\ RecordOK(row[i])
        BY <2>3, <2>5, <2>6
    <2>11. QED
        BY <1>2, <1>3, <2>7, <2>8, <2>9, <2>10, NewRow
<1>6. QED
    BY <1>4, <1>5

\* A call that dies leaves nothing it still had to write.
LEMMA CrashKeeps ==
    ASSUME IInv, NEW p \in Procs, Crash(p)
    PROVE  IInv'
<1>1. /\ UNCHANGED <<run, queries, disturbed>> /\ todo' = [todo EXCEPT ![p] = <<>>]
      /\ \E b \in BOOLEAN : fresh' = [fresh EXCEPT ![p] = b]
    BY DEF Crash
<1>2. QED
    BY <1>1, DropKeeps

\* Every call leaves records that may be appended.
LEMMA CallKeeps ==
    ASSUME IInv, NEW p \in Procs, Call(p)
    PROVE  IInv'
<1>1. ASSUME NEW i \in DOMAIN Made, NEW j \in DOMAIN Made, i < j
      PROVE  Made[i] \in Candidates /\ Made[j] \in Candidates /\ Made[i] # Made[j]
    <2>1. \A a, b \in DOMAIN Made : Made[a] = Made[b] => a = b
        BY TraitsAssumption DEF IsInjective
    <2>2. Made \in Seq(Candidates)
        BY TraitsAssumption
    <2>3. i \in Int /\ j \in Int
        BY <2>2
    <2>4. QED
        BY <1>1, <2>1, <2>2, <2>3
<1>2. ASSUME NEW i \in DOMAIN Made, NEW j \in DOMAIN Made, NEW measured \in 0..MaxDiversity,
             i < j, RecordOofAnalysis(p, Made[i], Made[j], measured)
      PROVE  IInv'
    BY <1>1, <1>2, RecordOofAnalysisKeeps
<1>3. QED
    BY <1>2, RegisterKeeps, ImportKeeps, FinalizeKeeps, ArchiveCandidateKeeps,
       RecordOofArtifactKeeps, RecordOofEnsembleKeeps, KaggleFeedbackKeeps DEF Call

-----------------------------------------------------------------------------
\* Appends.

\* What an accepted record adds to the fold is never taken away again.
Grown ==
    /\ observed \subseteq observed' /\ DOMAIN qd \subseteq DOMAIN qd' /\ oof \subseteq oof'
    /\ told <= told' /\ (rule # "none" => rule' # "none")

\* What is true of a record that remains to be written stays true.
LEMMA RecordsStandWhenGrown ==
    ASSUME Grown, told \in Nat, told' \in Nat, NEW r \in RecordSet, RecordOK(r)
    PROVE  RecordOK(r)'
<1>1. \A c : Validated(c) => Validated(c)'
    BY DEF Grown, Validated
<1>2. r.kind = "finalized" => r.queries \in Nat
    BY LimitsAssumption DEF RecordSet
<1>3. r.kind = "finalized" => r.queries <= told'
    BY <1>2 DEF Grown, RecordOK
<1>4. QED
    BY <1>1, <1>3 DEF Grown, RecordOK

\* The fold grows, and stays well typed, by the kind of the record.
LEMMA FoldGrows ==
    ASSUME TypeOK, NEW r \in RecordSet, RecordOK(r), Fold(r),
           r.kind \notin {"query", "offer"}, answer = NoAnswer
    PROVE  /\ Grown
           /\ rule' \in Policies \cup {"none"} /\ late' \in BOOLEAN
           /\ observed' \subseteq Experiments
           /\ qd' \in [DOMAIN qd' -> 0..MaxDiversity]
           /\ \A c \in DOMAIN qd' : Makes(c) \in observed'
           /\ oof' \subseteq DOMAIN qd' /\ ensembles' \subseteq Ensembles
           /\ \A e \in ensembles' : Members[e] \subseteq oof'
           /\ told' \in Nat
           /\ loop' \in {"planning", "finalizing", "completed"}
           /\ answer' \in [candidates : SUBSET Candidates, queries : 0..MaxQueries]
           /\ told' = told + (IF r.kind = "told" THEN 1 ELSE 0)
           /\ answer'.queries <= told
           /\ (r.kind = "rule" => r.of \in Policies /\ rule' = r.of /\ late' = (observed # {}))
           /\ (r.kind # "rule" => rule' = rule /\ late' = late)
           /\ (r.kind = "evaluated" => qd' = [c \in DOMAIN qd \cup {r.of} |->
                                                 IF c = r.of THEN r.diversity ELSE qd[c]])
           /\ (r.kind # "evaluated" => qd' = qd)
           /\ (r.kind \in {"evaluated", "finalizing", "completed", "finalized", "oof"}
                 => observed' = observed /\ ensembles' = ensembles)
           /\ (r.kind \in {"finalizing", "completed", "finalized"} => oof' = oof)
           /\ (r.kind \in {"finalizing", "completed"} => loop' = r.kind)
           /\ (r.kind \notin {"finalizing", "completed"} => loop' = loop)
           /\ (r.kind = "finalized" => answer' = [candidates |-> r.candidates, queries |-> r.queries])
           /\ (r.kind # "finalized" => answer' = answer)
<1> USE DEF TypeOK, Grown
<1>0. answer.queries <= told /\ told \in Nat
    BY DEF NoAnswer
<1>1. CASE r.kind = "rule"
    <2>1. /\ rule' = r.of /\ late' = (observed # {})
          /\ UNCHANGED <<observed, qd, oof, ensembles, told, loop, answer>>
        BY <1>1 DEF Fold
    <2>2. r.of \in Policies /\ r.of # "none"
        BY <1>1 DEF RecordSet, Policies
    <2>3. QED
        BY <1>0, <1>1, <2>1, <2>2
<1>2. CASE r.kind = "observed"
    <2>1. /\ observed' = observed \cup {r.of}
          /\ UNCHANGED <<rule, late, qd, oof, ensembles, told, loop, answer>>
        BY <1>2 DEF Fold
    <2>2. r.of \in Experiments
        BY <1>2 DEF RecordSet
    <2>3. QED
        BY <1>0, <1>2, <2>1, <2>2
<1>3. CASE r.kind = "evaluated"
    <2>1. /\ qd' = [c \in DOMAIN qd \cup {r.of} |-> IF c = r.of THEN r.diversity ELSE qd[c]]
          /\ UNCHANGED <<rule, late, observed, oof, ensembles, told, loop, answer>>
        BY <1>3 DEF Fold
    <2>2. r.of \in Candidates /\ r.diversity \in 0..MaxDiversity /\ Makes(r.of) \in observed
        BY <1>3 DEF RecordSet, RecordOK
    <2>3. /\ DOMAIN qd' = DOMAIN qd \cup {r.of}
          /\ \A c \in DOMAIN qd' : qd'[c] \in 0..MaxDiversity
        BY <2>1, <2>2
    <2>4. qd' = [c \in DOMAIN qd' |-> qd'[c]]
        BY <2>1, <2>3
    <2>5. qd' \in [DOMAIN qd' -> 0..MaxDiversity]
        BY <2>3, <2>4
    <2>6. QED
        BY <1>0, <1>3, <2>1, <2>2, <2>3, <2>5
<1>4. CASE r.kind = "oof"
    <2>1. /\ oof' = oof \cup {r.of}
          /\ UNCHANGED <<rule, late, observed, qd, ensembles, told, loop, answer>>
        BY <1>4 DEF Fold
    <2>2. r.of \in DOMAIN qd
        BY <1>4 DEF RecordOK
    <2>3. QED
        BY <1>0, <1>4, <2>1, <2>2
<1>5. CASE r.kind = "ensemble"
    <2>1. /\ ensembles' = ensembles \cup {r.of}
          /\ UNCHANGED <<rule, late, observed, qd, oof, told, loop, answer>>
        BY <1>5 DEF Fold
    <2>2. r.of \in Ensembles /\ Members[r.of] \subseteq oof
        BY <1>5 DEF RecordSet, RecordOK
    <2>3. QED
        BY <1>0, <1>5, <2>1, <2>2
<1>6. CASE r.kind = "told"
    <2>1. told' = told + 1 /\ UNCHANGED <<rule, late, observed, qd, oof, ensembles, loop, answer>>
        BY <1>6 DEF Fold
    <2>2. QED
        BY <1>0, <1>6, <2>1
<1>7. CASE r.kind \in {"finalizing", "completed"}
    <2>1. loop' = r.kind /\ UNCHANGED <<rule, late, observed, qd, oof, ensembles, told, answer>>
        BY <1>7 DEF Fold
    <2>2. QED
        BY <1>0, <1>7, <2>1
<1>8. CASE r.kind = "finalized"
    <2>1. /\ answer' = [candidates |-> r.candidates, queries |-> r.queries]
          /\ UNCHANGED <<rule, late, observed, qd, oof, ensembles, told, loop>>
        BY <1>8 DEF Fold
    <2>2. r.candidates \in SUBSET Candidates /\ r.queries \in 0..MaxQueries /\ r.queries <= told
        BY <1>8 DEF RecordSet, RecordOK
    <2>3. QED
        BY <1>0, <1>8, <2>1, <2>2
<1>9. CASE r.kind = "violation"
    <2>1. UNCHANGED run
        BY <1>9 DEF Fold
    <2>2. QED
        BY <1>0, <1>9, <2>1 DEF run
<1>10. r.kind \in {"rule", "observed", "evaluated", "oof", "ensemble", "told", "finalizing",
                   "completed", "finalized", "violation"}
    BY DEF RecordSet
<1>11. QED
    BY <1>1, <1>2, <1>3, <1>4, <1>5, <1>6, <1>7, <1>8, <1>9, <1>10

\* What AppendRecord does when the run is not finalized.
Accepted(p) ==
    /\ todo[p] # <<>> /\ Head(todo[p]).kind \notin {"offer", "query"}
    /\ answer = NoAnswer
    /\ queries' = queries
    /\ Fold(Head(todo[p]))
    /\ todo' = [todo EXCEPT ![p] = Tail(todo[p])]
    /\ fresh' = [q \in Procs |-> q = p /\ fresh[p] /\ Len(todo[p]) > 1]
    /\ disturbed' = disturbed \cup
            (IF fresh[p] THEN {} ELSE {Head(todo[p]).kind} \cap {"rule", "finalized"})

\* The record that is written is one, and says what is true.
LEMMA HeadIsRecord ==
    ASSUME IInv, NEW p \in Procs, todo[p] # <<>>
    PROVE  /\ RowOK(todo[p]) /\ 1 \in DOMAIN todo[p] /\ Head(todo[p]) = todo[p][1]
           /\ Head(todo[p]) \in RecordSet /\ RecordOK(Head(todo[p]))
<1>1. RowOK(todo[p])
    BY DEF IInv, RowsOK
<1>2. 1 \in DOMAIN todo[p] /\ Head(todo[p]) = todo[p][1]
    BY <1>1, FirstOfRow
<1>3. QED
    BY <1>1, <1>2 DEF IInv, RowsOK, TypeOK

\* What the rest of an undisturbed row says after its first record is still so: a
\* second candidate to revise is another one, and finalize reaches completed on the way.
LEMMA RestStaysFresh ==
    ASSUME IInv, NEW p \in Procs, Accepted(p), fresh[p]
    PROVE  FreshRow(todo[p])'
<1>1. PICK row : row = todo[p]
    OBVIOUS
<1>2. PICK r \in RecordSet : r = Head(row)
    BY <1>1, HeadIsRecord DEF Accepted
<1>3. /\ RowOK(row) /\ row # <<>> /\ r.kind \notin {"query", "offer"} /\ RecordOK(r)
      /\ FreshRow(row) /\ Fold(r) /\ answer = NoAnswer
    BY <1>1, <1>2, HeadIsRecord DEF Accepted, IInv, RowsOK
<1>4. PICK rest : rest = Tail(row)
    OBVIOUS
<1>5. TypeOK
    BY DEF IInv
<1>6. SUFFICES FreshRow(rest)'
    <2>1. todo' = [todo EXCEPT ![p] = rest] /\ todo = [q \in Procs |-> todo[q]]
        BY <1>1, <1>4 DEF Accepted, IInv, RowsOK
    <2>2. todo'[p] = rest
        BY <2>1
    <2>3. QED
        BY <2>2
<1>7. /\ DOMAIN qd' = DOMAIN qd \cup (IF r.kind = "evaluated" THEN {r.of} ELSE {})
      /\ \A c \in DOMAIN qd : ~(r.kind = "evaluated" /\ c = r.of) => qd'[c] = qd[c]
    BY <1>3, <1>5, FoldGrows
<1>8. CASE rest = <<>>
    BY <1>8 DEF FreshRow
<1>9. CASE \E c \in Candidates : rest = <<[kind |-> "offer", of |-> c]>>
    <2>1. PICK s : s.kind = "offer" /\ rest = <<s>>
        BY <1>9
    <2>2. DOMAIN rest = {1} /\ rest[1] = s
        BY <2>1
    <2>3. QED
        BY <2>1, <2>2 DEF FreshRow
<1>10. CASE \E t \in RecordSet, s \in RecordSet :
              row = <<t, s>> /\ t.kind = "evaluated" /\ s.kind = "evaluated" /\ t.of # s.of /\ rest = <<s>>
    <2>1. PICK s \in RecordSet : /\ row = <<r, s>> /\ r.kind = "evaluated" /\ s.kind = "evaluated"
                                 /\ r.of # s.of /\ rest = <<s>>
        <3>1. PICK t \in RecordSet, s \in RecordSet :
                  row = <<t, s>> /\ t.kind = "evaluated" /\ s.kind = "evaluated" /\ t.of # s.of /\ rest = <<s>>
            BY <1>10
        <3>2. r = t
            BY <1>2, <3>1
        <3>3. QED
            BY <3>1, <3>2
    <2>2. 2 \in DOMAIN row /\ row[2] = s /\ DOMAIN rest = {1} /\ rest[1] = s
        BY <2>1
    <2>3. s.of \in DOMAIN qd => qd[s.of] <= s.diversity
        BY <1>3, <2>1, <2>2 DEF FreshRow
    <2>4. s.of \in DOMAIN qd' => qd'[s.of] <= s.diversity
        BY <1>7, <2>1, <2>3
    <2>5. QED
        BY <2>1, <2>2, <2>4 DEF FreshRow
<1>11. CASE \E s \in RecordSet : /\ s.kind = "finalized"
                                 /\ \/ /\ row = <<[kind |-> "finalizing"], [kind |-> "completed"], s>>
                                       /\ rest = <<[kind |-> "completed"], s>>
                                    \/ row = <<[kind |-> "completed"], s>> /\ rest = <<s>>
    <2>1. PICK s \in RecordSet : /\ s.kind = "finalized"
                                 /\ \/ /\ row = <<[kind |-> "finalizing"], [kind |-> "completed"], s>>
                                       /\ rest = <<[kind |-> "completed"], s>>
                                    \/ row = <<[kind |-> "completed"], s>> /\ rest = <<s>>
        BY <1>11
    <2>2. r.kind \in {"finalizing", "completed"} /\ \E i \in DOMAIN row : row[i] = s
        <3>1. CASE row = <<[kind |-> "finalizing"], [kind |-> "completed"], s>>
            <4>1. r = [kind |-> "finalizing"] /\ 3 \in DOMAIN row /\ row[3] = s
                BY <1>2, <3>1
            <4>2. QED
                BY <4>1
        <3>2. CASE row = <<[kind |-> "completed"], s>>
            <4>1. r = [kind |-> "completed"] /\ 2 \in DOMAIN row /\ row[2] = s
                BY <1>2, <3>2
            <4>2. QED
                BY <4>1
        <3>3. QED
            BY <2>1, <3>1, <3>2
    <2>3. Best(s.candidates)
        BY <1>3, <2>1, <2>2 DEF FreshRow
    <2>4. rule' = rule /\ qd' = qd /\ ensembles' = ensembles /\ loop' = r.kind
        BY <1>3, <1>5, <2>2, FoldGrows
    <2>5. Best(s.candidates)'
        BY <2>3, <2>4 DEF Best
    <2>6. CASE rest = <<[kind |-> "completed"], s>>
        <3> DEFINE first == [kind |-> "completed"]
        <3>1. DOMAIN rest = {1, 2} /\ rest[1] = first /\ rest[2] = s /\ first.kind = "completed"
            BY <2>6
        <3> HIDE DEF first
        <3>2. QED
            BY <2>1, <2>5, <3>1 DEF FreshRow
    <2>7. CASE row = <<[kind |-> "completed"], s>> /\ rest = <<s>>
        <3>1. DOMAIN rest = {1} /\ rest[1] = s /\ r = [kind |-> "completed"]
            BY <1>2, <2>7
        <3>2. loop' = "completed"
            BY <2>4, <3>1
        <3>3. QED
            BY <2>1, <2>5, <3>1, <3>2 DEF FreshRow
    <2>8. QED
        BY <2>1, <2>6, <2>7
<1>12. row # Spend
    BY <1>2, <1>3 DEF Spend
<1>13. QED
    BY <1>3, <1>4, <1>2, <1>8, <1>9, <1>10, <1>11, <1>12, RowLeft

\* Accepted records keep every row a true one, by what the fold adds.
LEMMA AcceptedKeepsRows ==
    ASSUME IInv, NEW p \in Procs, Accepted(p)
    PROVE  TypeOK' /\ RowsOK'
<1>1. PICK r \in RecordSet : r = Head(todo[p])
    BY HeadIsRecord DEF Accepted
<1>2. /\ RowOK(todo[p]) /\ todo[p] # <<>> /\ r.kind \notin {"query", "offer"} /\ RecordOK(r)
      /\ Fold(r) /\ answer = NoAnswer
    BY <1>1, HeadIsRecord DEF Accepted
<1>3. TypeOK /\ RowsOK
    BY DEF IInv
<1>4. /\ RowOK(Tail(todo[p]))
      /\ \A i \in DOMAIN Tail(todo[p]) : i + 1 \in DOMAIN todo[p] /\ Tail(todo[p])[i] = todo[p][i + 1]
    BY <1>1, <1>2, TailIsRow
<1>5. /\ todo' = [q \in Procs |-> todo'[q]] /\ todo'[p] = Tail(todo[p])
      /\ \A q \in Procs : q # p => todo'[q] = todo[q]
    BY <1>3 DEF Accepted, RowsOK
<1>6. ASSUME NEW q \in Procs, NEW i \in DOMAIN todo'[q]
      PROVE  todo'[q][i] \in RecordSet /\ RecordOK(todo'[q][i])
    <2>1. CASE q = p
        <3>1. i + 1 \in DOMAIN todo[p] /\ todo'[q][i] = todo[p][i + 1]
            BY <1>4, <1>5, <1>6, <2>1
        <3>2. QED
            BY <1>3, <3>1 DEF RowsOK, TypeOK
    <2>2. CASE q # p
        BY <1>3, <1>5, <1>6, <2>2 DEF RowsOK, TypeOK
    <2>3. QED
        BY <2>1, <2>2
<1>7. Grown /\ told \in Nat /\ told' \in Nat
    BY <1>2, <1>3, FoldGrows DEF TypeOK
<1>8. ASSUME NEW s \in RecordSet, RecordOK(s) PROVE RecordOK(s)'
    BY <1>7, <1>8, RecordsStandWhenGrown
<1>9. TypeOK'
    <2>1. fresh' \in [Procs -> BOOLEAN]
        BY DEF Accepted
    <2>2. disturbed' \subseteq {"rule", "finalized"}
        BY <1>3 DEF Accepted, TypeOK
    <2>3. queries' \in Nat
        BY <1>3 DEF Accepted, TypeOK
    <2>4. /\ rule' \in Policies \cup {"none"} /\ late' \in BOOLEAN
          /\ observed' \subseteq Experiments
          /\ qd' \in [DOMAIN qd' -> 0..MaxDiversity]
          /\ \A c \in DOMAIN qd' : Makes(c) \in observed'
          /\ oof' \subseteq DOMAIN qd' /\ ensembles' \subseteq Ensembles
          /\ \A e \in ensembles' : Members[e] \subseteq oof'
          /\ loop' \in {"planning", "finalizing", "completed"}
          /\ answer' \in [candidates : SUBSET Candidates, queries : 0..MaxQueries]
        BY <1>2, <1>3, FoldGrows
    <2>5. QED
        BY <1>6, <1>7, <2>1, <2>2, <2>3, <2>4 DEF TypeOK
<1>10. ASSUME NEW q \in Procs
       PROVE  /\ RowOK(todo[q])'
              /\ (\A i \in DOMAIN todo[q] : RecordOK(todo[q][i]))'
              /\ (fresh[q] => FreshRow(todo[q]))'
    <2>1. RowOK(todo'[q])
        BY <1>3, <1>4, <1>5 DEF RowsOK
    <2>2. RowOK(todo[q])'
        BY <2>1 DEF RowOK
    <2>3. (\A i \in DOMAIN todo[q] : RecordOK(todo[q][i]))'
        BY <1>6, <1>8
    <2>4. fresh'[q] => q = p /\ fresh[p]
        BY DEF Accepted
    <2>5. (fresh[q] => FreshRow(todo[q]))'
        BY <2>4, RestStaysFresh
    <2>6. QED
        BY <2>2, <2>3, <2>5
<1>11. RowsOK'
    BY <1>5, <1>10 DEF RowsOK
<1>12. QED
    BY <1>9, <1>11

\* Feedback is recorded once for every query that was spent on it.
LEMMA AcceptedKeepsBudget ==
    ASSUME IInv, NEW p \in Procs, Accepted(p)
    PROVE  BudgetOK'
<1>1. PICK r \in RecordSet : r = Head(todo[p])
    BY HeadIsRecord DEF Accepted
<1>2. /\ RowOK(todo[p]) /\ todo[p] # <<>> /\ r.kind \notin {"query", "offer"} /\ RecordOK(r)
      /\ Fold(r) /\ answer = NoAnswer
    BY <1>1, HeadIsRecord DEF Accepted
<1>3. TypeOK /\ RowsOK /\ BudgetOK
    BY DEF IInv
<1>4. /\ told' = told + (IF r.kind = "told" THEN 1 ELSE 0) /\ answer'.queries <= told
      /\ told \in Nat /\ told' \in Nat /\ queries \in Nat /\ queries' = queries
      /\ answer' \in [candidates : SUBSET Candidates, queries : 0..MaxQueries]
    BY <1>2, <1>3, FoldGrows DEF TypeOK, Accepted
<1>5. Tail(todo[p]) # Spend /\ Tail(todo[p]) # <<[kind |-> "told"]>>
    BY <1>1, <1>2, FirstOfRow
<1>6. /\ todo'[p] = Tail(todo[p])
      /\ \A q \in Procs : q # p => todo'[q] = todo[q]
    BY <1>3 DEF Accepted, RowsOK
<1>7. Spending' = Spending \ {p} /\ Telling' = Telling \ {p}
    BY <1>5, <1>6 DEF Spending, Telling, Spend
<1>8. Spending \in SUBSET Procs /\ Telling \in SUBSET Procs
    BY DEF Spending, Telling
<1>9. Cardinality(Spending) \in Nat /\ Cardinality(Telling) \in Nat /\ Cardinality(Procs) \in Nat
    BY <1>8, ProcsFinite
<1>10. /\ Cardinality(Spending') = Cardinality(Spending) - (IF p \in Spending THEN 1 ELSE 0)
       /\ Cardinality(Telling') = Cardinality(Telling) - (IF p \in Telling THEN 1 ELSE 0)
    BY <1>7, <1>8, WithoutOne
<1>11. r.kind = "told" => p \in Telling
    BY <1>1, <1>2, ToldAlone DEF Telling
<1>12. told' + Cardinality(Telling') <= queries
    BY <1>3, <1>4, <1>9, <1>10, <1>11 DEF BudgetOK
<1>13. queries + Cardinality(Spending') <= MaxQueries + Cardinality(Procs) - 1
    BY <1>3, <1>4, <1>9, <1>10, LimitsAssumption DEF BudgetOK
<1>14. answer'.queries <= told'
    <2>1. answer'.queries \in Nat
        BY <1>4, LimitsAssumption
    <2>2. QED
        BY <1>4, <2>1
<1>15. QED
    BY <1>4, <1>12, <1>13, <1>14 DEF BudgetOK

\* The answer is locked with what its record says, and a rule with what its call saw.
LEMMA AcceptedKeepsAnswer ==
    ASSUME IInv, NEW p \in Procs, Accepted(p)
    PROVE  LockedAnswerStands'
<1>1. PICK r \in RecordSet : r = Head(todo[p])
    BY HeadIsRecord DEF Accepted
<1>2. /\ RowOK(todo[p]) /\ todo[p] # <<>> /\ r.kind \notin {"query", "offer"} /\ RecordOK(r)
      /\ Fold(r) /\ answer = NoAnswer /\ 1 \in DOMAIN todo[p] /\ todo[p][1] = r
    BY <1>1, HeadIsRecord DEF Accepted
<1>3. TypeOK /\ RowsOK /\ LockedAnswerStands
    BY DEF IInv
<1>4. disturbed' = disturbed \cup (IF fresh[p] THEN {} ELSE {r.kind} \cap {"rule", "finalized"})
    BY <1>1 DEF Accepted
<1>5. fresh[p] => FreshRow(todo[p])
    BY <1>3 DEF RowsOK
<1>6. "rule" \notin disturbed' => ~late'
    <2>1. CASE r.kind = "rule"
        <3>1. late' = (observed # {})
            BY <1>2, <1>3, <2>1, FoldGrows
        <3>2. "rule" \notin disturbed' => fresh[p]
            BY <1>4, <2>1
        <3>3. fresh[p] => observed = {}
            BY <1>2, <1>5, <2>1 DEF FreshRow
        <3>4. QED
            BY <3>1, <3>2, <3>3
    <2>2. CASE r.kind # "rule"
        <3>1. late' = late
            BY <1>2, <1>3, <2>2, FoldGrows
        <3>2. QED
            BY <1>3, <1>4, <3>1 DEF LockedAnswerStands
    <2>3. QED
        BY <2>1, <2>2
<1>7. CASE r.kind # "finalized"
    <2>1. answer' = NoAnswer
        BY <1>2, <1>3, <1>7, FoldGrows
    <2>2. NoAnswer' = NoAnswer
        BY DEF NoAnswer
    <2>3. QED
        BY <1>6, <2>1, <2>2 DEF LockedAnswerStands
<1>8. CASE r.kind = "finalized"
    <2>1. /\ rule' = rule /\ observed' = observed /\ qd' = qd /\ oof' = oof
          /\ ensembles' = ensembles /\ loop' = loop
          /\ answer' = [candidates |-> r.candidates, queries |-> r.queries]
        BY <1>2, <1>3, <1>8, FoldGrows
    <2>2. rule # "none" /\ r.candidates # {} /\ \A c \in r.candidates : Validated(c)
        BY <1>2, <1>8 DEF RecordOK
    <2>3. "finalized" \notin disturbed' => Best(r.candidates) /\ loop = "completed"
        <3>1. "finalized" \notin disturbed' => fresh[p]
            BY <1>4, <1>8
        <3>2. QED
            BY <1>2, <1>5, <1>8, <3>1 DEF FreshRow
    <2>4. \A c \in r.candidates : Validated(c)'
        BY <2>1, <2>2 DEF Validated
    <2>5. answer'.candidates = r.candidates
        BY <2>1
    <2>6. QED
        BY <1>6, <2>1, <2>2, <2>3, <2>4, <2>5 DEF LockedAnswerStands, Best
<1>9. QED
    BY <1>7, <1>8

\* An append folds one record, or ends the call on a finalized run.
LEMMA AppendRecordKeeps ==
    ASSUME IInv, NEW p \in Procs, AppendRecord(p)
    PROVE  IInv'
<1>1. CASE answer # NoAnswer
    <2>1. /\ UNCHANGED <<run, queries, disturbed>> /\ todo' = [todo EXCEPT ![p] = <<>>]
          /\ \E b \in BOOLEAN : fresh' = [fresh EXCEPT ![p] = b]
        BY <1>1 DEF AppendRecord
    <2>2. QED
        BY <2>1, DropKeeps
<1>2. CASE answer = NoAnswer
    <2>1. Accepted(p)
        BY <1>2 DEF AppendRecord, Accepted
    <2>2. QED
        BY <2>1, AcceptedKeepsRows, AcceptedKeepsBudget, AcceptedKeepsAnswer DEF IInv
<1>3. QED
    BY <1>1, <1>2

\* The query of p is in the ledger; what is left is to tell the run of it.
LEMMA AppendQueryKeeps ==
    ASSUME IInv, NEW p \in Procs, AppendQuery(p)
    PROVE  IInv'
<1>1. TypeOK /\ RowsOK /\ BudgetOK /\ LockedAnswerStands
    BY DEF IInv
<1>2. /\ UNCHANGED run /\ queries' = queries + 1 /\ fresh' = fresh /\ disturbed' = disturbed
      /\ todo' = [todo EXCEPT ![p] = Tail(todo[p])]
    BY DEF AppendQuery
<1>3. /\ \A r : RecordOK(r)' <=> RecordOK(r)
      /\ \A row : FreshRow(row)' <=> FreshRow(row)
      /\ \A chosen : Best(chosen)' <=> Best(chosen)
      /\ \A c : Validated(c)' <=> Validated(c)
    BY <1>2, NothingAppended
<1>4. /\ rule' = rule /\ late' = late /\ observed' = observed /\ qd' = qd /\ oof' = oof
      /\ ensembles' = ensembles /\ told' = told /\ loop' = loop /\ answer' = answer
    BY <1>2 DEF run
<1>5. todo[p] = Spend
    <2>1. RowOK(todo[p]) /\ todo[p] # <<>> /\ Head(todo[p]).kind = "query"
        BY <1>1 DEF AppendQuery, RowsOK
    <2>2. QED
        BY <2>1, FirstOfRow
<1> DEFINE rest == <<[kind |-> "told"]>>
<1>6. /\ todo' = [q \in Procs |-> todo'[q]] /\ todo'[p] = rest
      /\ \A q \in Procs : q # p => todo'[q] = todo[q]
    <2>1. Tail(todo[p]) = rest
        BY <1>5 DEF Spend
    <2>2. QED
        BY <1>1, <1>2, <2>1 DEF RowsOK
<1>7. DOMAIN rest = {1} /\ rest[1].kind = "told" /\ rest[1] \in RecordSet
    BY DEF RecordSet
<1>8. RowOK(rest) /\ FreshRow(rest) /\ RecordOK(rest[1])
    <2>1. RowOK(rest)
        <3>1. PICK r : r = [kind |-> "told"]
            OBVIOUS
        <3>2. r \in RecordSet /\ r.kind = "told" /\ rest = <<r>>
            BY <3>1 DEF RecordSet, rest
        <3>3. QED
            BY <3>2 DEF RowOK
    <2> HIDE DEF rest
    <2>2. QED
        BY <1>7, <2>1 DEF FreshRow, RecordOK
<1>9. rest # Spend
    BY DEF Spend
<1> HIDE DEF rest
<1>10. TypeOK'
    <2>1. \A q \in Procs : \A i \in DOMAIN todo'[q] : todo'[q][i] \in RecordSet
        BY <1>1, <1>6, <1>7 DEF TypeOK
    <2>2. queries' \in Nat
        BY <1>1, <1>2 DEF TypeOK
    <2>3. QED
        BY <1>1, <1>2, <1>4, <2>1, <2>2 DEF TypeOK
<1>11. RowsOK'
    <2>1. ASSUME NEW q \in Procs
          PROVE  /\ RowOK(todo'[q])
                 /\ \A i \in DOMAIN todo'[q] : RecordOK(todo'[q][i])
                 /\ fresh'[q] => FreshRow(todo'[q])
        BY <1>1, <1>2, <1>6, <1>7, <1>8 DEF RowsOK
    <2>2. ASSUME NEW q \in Procs
          PROVE  /\ RowOK(todo[q])'
                 /\ (\A i \in DOMAIN todo[q] : RecordOK(todo[q][i]))'
                 /\ (fresh[q] => FreshRow(todo[q]))'
        <3>1. RowOK(todo[q])'
            BY <2>1 DEF RowOK
        <3>2. QED
            BY <1>3, <2>1, <3>1
    <2>3. QED
        BY <1>6, <2>2 DEF RowsOK
<1>12. BudgetOK'
    <2>1. p \in Spending /\ p \notin Telling /\ Spending \in SUBSET Procs /\ Telling \in SUBSET Procs
        BY <1>5 DEF Spending, Telling, Spend
    <2>2. Spending' = Spending \ {p} /\ Telling' = Telling \cup {p}
        BY <1>6, <1>9 DEF Spending, Telling, Spend, rest
    <2>3. /\ Cardinality(Spending') = Cardinality(Spending) - 1
          /\ Cardinality(Telling') = Cardinality(Telling) + 1
        BY <2>1, <2>2, WithoutOne, WithOne
    <2>4. Cardinality(Spending) \in Nat /\ Cardinality(Telling) \in Nat /\ Cardinality(Procs) \in Nat
        BY <2>1, ProcsFinite
    <2>5. queries \in Nat /\ told \in Nat
        BY <1>1 DEF TypeOK
    <2>6. QED
        BY <1>1, <1>2, <1>4, <2>3, <2>4, <2>5, LimitsAssumption DEF BudgetOK
<1>13. LockedAnswerStands'
    BY <1>1, <1>2, <1>3, <1>4 DEF LockedAnswerStands
<1>14. QED
    BY <1>10, <1>11, <1>12, <1>13 DEF IInv

-----------------------------------------------------------------------------
\* The theorems.

\* Nothing is recorded yet and nobody has passed the gate.
LEMMA InitKeeps == Init => IInv
<1> SUFFICES ASSUME Init PROVE IInv
    OBVIOUS
<1>1. NoAnswer \in [candidates : SUBSET Candidates, queries : 0..MaxQueries] /\ NoAnswer.queries = 0
    BY LimitsAssumption DEF NoAnswer
<1>2. \A p \in Procs : todo[p] = <<>>
    BY DEF Init
<1>3. TypeOK
    <2>1. DOMAIN qd = {} /\ qd = [c \in DOMAIN qd |-> qd[c]]
        BY DEF Init
    <2>2. qd \in [DOMAIN qd -> 0..MaxDiversity] /\ \A c \in DOMAIN qd : Makes(c) \in observed
        BY <2>1
    <2>3. fresh \in [Procs -> BOOLEAN] /\ \A p \in Procs : DOMAIN todo[p] = {}
        BY <1>2 DEF Init
    <2>4. oof \subseteq DOMAIN qd /\ ensembles \subseteq Ensembles
          /\ \A e \in ensembles : Members[e] \subseteq oof
        BY DEF Init
    <2>5. \A p \in Procs : \A i \in DOMAIN todo[p] : todo[p][i] \in RecordSet
        BY <2>3
    <2>6. answer \in [candidates : SUBSET Candidates, queries : 0..MaxQueries]
        BY <1>1 DEF Init
    <2>7. /\ rule \in Policies \cup {"none"} /\ observed \subseteq Experiments
          /\ disturbed \subseteq {"rule", "finalized"}
        BY DEF Init
    <2>8. {told, queries} \subseteq Nat /\ loop \in {"planning", "finalizing", "completed"}
        BY DEF Init
    <2>9. late \in BOOLEAN
        BY DEF Init
    <2>10. QED
        BY <2>2, <2>3, <2>4, <2>5, <2>6, <2>7, <2>8, <2>9 DEF TypeOK
<1>4. RowsOK
    <2>1. RowOK(<<>>) /\ FreshRow(<<>>)
        BY DEF RowOK, FreshRow
    <2>2. QED
        BY <1>2, <2>1 DEF Init, RowsOK
<1>5. BudgetOK
    <2>1. <<>> # Spend /\ <<>> # <<[kind |-> "told"]>>
        BY DEF Spend
    <2>2. Spending = {} /\ Telling = {}
        BY <1>2, <2>1 DEF Spending, Telling
    <2>3. Cardinality(Spending) = 0 /\ Cardinality(Telling) = 0
        BY <2>2, FS_EmptySet
    <2>4. QED
        BY <1>1, <2>3, ProcsFinite, LimitsAssumption DEF Init, BudgetOK
<1>6. LockedAnswerStands
    BY DEF Init, LockedAnswerStands
<1>7. QED
    BY <1>3, <1>4, <1>5, <1>6 DEF IInv

\* A step of nobody.
LEMMA StutterKeeps ==
    ASSUME IInv, UNCHANGED vars
    PROVE  IInv'
<1>1. PICK p \in Procs : TRUE
    BY ProcsAssumption
<1>2. PICK row : row = todo[p]
    OBVIOUS
<1>3. TypeOK /\ RowsOK
    BY DEF IInv
<1>4. UNCHANGED <<run, queries, disturbed>> /\ UNCHANGED run /\ todo' = todo /\ fresh' = fresh
    BY DEF vars, run
<1>5. /\ \A r : RecordOK(r)' <=> RecordOK(r)
      /\ \A other : FreshRow(other)' <=> FreshRow(other)
      /\ \A chosen : Best(chosen)' <=> Best(chosen)
      /\ \A c : Validated(c)' <=> Validated(c)
    BY <1>4, NothingAppended
<1>6. RowsOK'
    <2>1. ASSUME NEW q \in Procs
          PROVE  /\ RowOK(todo[q])'
                 /\ (\A i \in DOMAIN todo[q] : RecordOK(todo[q][i]))'
                 /\ (fresh[q] => FreshRow(todo[q]))'
        <3>1. RowOK(todo[q])'
            BY <1>3, <1>4 DEF RowsOK, RowOK
        <3>2. QED
            BY <1>3, <1>4, <1>5, <3>1 DEF RowsOK
    <2>2. QED
        BY <1>3, <1>4, <2>1 DEF RowsOK
<1>7. TypeOK'
    BY <1>3 DEF TypeOK, vars
<1>8. BudgetOK'
    BY DEF BudgetOK, Spending, Telling, Spend, vars, IInv
<1>9. LockedAnswerStands'
    BY <1>5 DEF LockedAnswerStands, vars, IInv
<1>10. QED
    BY <1>6, <1>7, <1>8, <1>9 DEF IInv

\* The invariant holds in every reachable state.
THEOREM Invariance == Spec => []IInv
<1>1. ASSUME IInv, [Next]_vars PROVE IInv'
    <2>1. CASE UNCHANGED vars
        BY <1>1, <2>1, StutterKeeps
    <2>2. ASSUME NEW p \in Procs, Step(p) PROVE IInv'
        BY <1>1, <2>2, CallKeeps, OfferKeeps, AppendRecordKeeps, AppendQueryKeeps, CrashKeeps DEF Step
    <2>3. QED
        BY <1>1, <2>1, <2>2 DEF Next
<1>2. QED
    BY <1>1, InitKeeps, PTL DEF Spec

\* The state is well typed: every recorded candidate was observed, evidence is about
\* recorded candidates, ensembles blend candidates with evidence, calls hold records.
THEOREM TypeCorrect == Spec => []TypeOK
<1>1. IInv => TypeOK
    BY DEF IInv
<1>2. QED
    BY <1>1, Invariance, PTL

\* `run finalize` locks an answer that is validated, and the best one when nobody
\* appended during the call; a rule that was registered undisturbed precedes all results.
THEOREM TheAnswerStands == Spec => []LockedAnswerStands
<1>1. IInv => LockedAnswerStands
    BY DEF IInv
<1>2. QED
    BY <1>1, Invariance, PTL

\* However many processes ask the leaderboard at once, at most one read each goes
\* beyond the cap, and no feedback is recorded or locked that was not spent.
THEOREM BudgetIsKept == Spec => []ReadsAreBudgeted
<1>1. IInv => ReadsAreBudgeted
    <2> SUFFICES ASSUME IInv PROVE ReadsAreBudgeted
        OBVIOUS
    <2>1. Spending \in SUBSET Procs /\ Telling \in SUBSET Procs
        BY DEF Spending, Telling
    <2>2. Cardinality(Spending) \in Nat /\ Cardinality(Telling) \in Nat /\ Cardinality(Procs) \in Nat
        BY <2>1, ProcsFinite
    <2>3. queries \in Nat /\ told \in Nat
        BY DEF IInv, TypeOK
    <2>4. QED
        BY <2>2, <2>3, LimitsAssumption DEF IInv, BudgetOK, ReadsAreBudgeted
<1>2. QED
    BY <1>1, Invariance, PTL

\* The step takes back something the run knows.
TakesBack ==
    \/ \E c \in DOMAIN qd : c \notin DOMAIN qd' \/ qd'[c] < qd[c]
    \/ rule # "none" /\ rule' # rule

\* An error diversity is lowered, or a rule replaced, only by a process that was
\* overtaken between reading the state and appending.
THEOREM OnlyTheOvertakenTakeBack == Spec => OnlyStaleCallsTakeBack
<1> DEFINE Stale == \E p \in Procs : todo'[p] # todo[p] /\ ~fresh[p]
<1>1. ASSUME IInv, [Next]_vars, TakesBack PROVE Stale
    <2>1. qd' # qd \/ rule' # rule
        <3>1. \A c \in DOMAIN qd : ~(qd[c] < qd[c])
            BY <1>1 DEF IInv, TypeOK
        <3>2. QED
            BY <1>1, <3>1 DEF TakesBack
    <2>2. PICK p \in Procs : Accepted(p)
        <3>1. PICK p \in Procs : Step(p)
            BY <1>1, <2>1 DEF Next, vars
        <3>2. ~UNCHANGED run
            BY <2>1 DEF run
        <3>3. Call(p) => UNCHANGED run
            BY DEF Call, RegisterFinalSelectionRule, Import, Finalize, ArchiveCandidate,
                   RecordOofArtifact, RecordOofAnalysis, RecordOofEnsemble, KaggleFeedback, Reads
        <3>4. (Offer(p) \/ AppendQuery(p) \/ Crash(p)) => UNCHANGED run
            BY DEF Offer, AppendQuery, Crash
        <3>5. AppendRecord(p)
            BY <3>1, <3>2, <3>3, <3>4 DEF Step
        <3>6. QED
            BY <3>2, <3>5 DEF AppendRecord, Accepted
    <2>3. PICK r \in RecordSet : r = Head(todo[p])
        BY <1>1, <2>2, HeadIsRecord DEF Accepted
    <2>4. /\ RowOK(todo[p]) /\ todo[p] # <<>> /\ r.kind \notin {"query", "offer"} /\ RecordOK(r)
          /\ Fold(r) /\ answer = NoAnswer /\ 1 \in DOMAIN todo[p] /\ todo[p][1] = r
        BY <1>1, <2>2, <2>3, HeadIsRecord DEF Accepted
    <2>5. TypeOK /\ RowsOK
        BY <1>1 DEF IInv
    <2>6. todo'[p] # todo[p]
        <3>1. todo'[p] = Tail(todo[p])
            BY <2>2, <2>5 DEF Accepted, RowsOK
        <3>2. Tail(todo[p]) # todo[p]
            BY <2>3, <2>4, TailIsRow
        <3>3. QED
            BY <3>1, <3>2
    <2>7. ASSUME fresh[p] PROVE FALSE
        <3>1. FreshRow(todo[p])
            BY <2>5, <2>7 DEF RowsOK
        <3>2. CASE r.kind = "rule"
            <4>1. rule = "none" /\ qd' = qd
                BY <2>4, <2>5, <3>1, <3>2, FoldGrows DEF FreshRow
            <4>2. \A c \in DOMAIN qd : ~(qd[c] < qd[c])
                BY <2>5 DEF TypeOK
            <4>3. QED
                BY <1>1, <4>1, <4>2 DEF TakesBack
        <3>3. CASE r.kind = "evaluated"
            <4>1. /\ rule' = rule
                  /\ qd' = [c \in DOMAIN qd \cup {r.of} |-> IF c = r.of THEN r.diversity ELSE qd[c]]
                BY <2>4, <2>5, <3>3, FoldGrows
            <4>2. r.of \in DOMAIN qd => qd[r.of] <= r.diversity
                BY <2>4, <3>1, <3>3 DEF FreshRow
            <4>3. \A c \in DOMAIN qd : qd[c] \in Int /\ r.diversity \in Int
                BY <2>5, <3>3, LimitsAssumption DEF TypeOK, RecordSet
            <4>4. ASSUME NEW c \in DOMAIN qd PROVE c \in DOMAIN qd' /\ ~(qd'[c] < qd[c])
                BY <4>1, <4>2, <4>3
            <4>5. QED
                BY <1>1, <4>1, <4>4 DEF TakesBack
        <3>4. CASE r.kind \notin {"rule", "evaluated"}
            <4>1. rule' = rule /\ qd' = qd
                BY <2>4, <2>5, <3>4, FoldGrows
            <4>2. QED
                BY <2>1, <4>1
        <3>5. QED
            BY <3>2, <3>3, <3>4
    <2>8. QED
        BY <2>6, <2>7
<1>2. IInv /\ [Next]_vars => (TakesBack => Stale)
    BY <1>1
<1>3. QED
    BY <1>2, Invariance, PTL DEF Spec, OnlyStaleCallsTakeBack, TakesBack

================================================================================
