------------------------------ MODULE Closing ------------------------------
(***************************************************************************)
(* Closing a run: the selection rule, the quality-diversity archive with   *)
(* its out-of-fold evidence, the reads of the public leaderboard, and      *)
(* `run finalize` (controller/research_graph.py, qd/, holdout/, cli.py),   *)
(* called by several processes on the log of one run.                      *)
(*                                                                         *)
(* Every call decides once, on the state it folds from the log when it     *)
(* starts, and then appends what it decided, one record at a time; the     *)
(* appends look at nothing but the finalized flag.  A call is therefore a  *)
(* reading step that leaves a list of records to write.  What an append    *)
(* itself may suffer is in module EventLog: here it is one step.  A        *)
(* process may die with records left.                                      *)
(*                                                                         *)
(* The run is one with a solution archive and out-of-fold diversity and    *)
(* without validation worlds; its loop has come to planning.               *)
(***************************************************************************)
EXTENDS Integers, Sequences, FiniteSets, SequencesExt

CONSTANTS
    Procs,        \* processes running erlctl on the run
    Made,         \* the candidates in the order of their created_at
    Ensembles,    \* the ensembles that get built
    Cell,         \* Cell[c]: the descriptor cell of c
    Quality,      \* Quality[c], in hundredths (candidate_quality)
    Cost,         \* Cost[c] (normalized_cost)
    Robustness,   \* Robustness[c]
    Reproducible, \* the candidates with passed leakage check, fold artifact, manifest, procedure
    Members,      \* Members[e]: the candidates ensemble e blends
    Gain,         \* Gain[e]: what e improves on the best single candidate
    MaximumSize,  \* cells of the archive (qd.maximum_archive_size)
    Floor,        \* quality_floor_relative_to_best, in hundredths
    Feedback,     \* leaderboard.public_feedback; only "forbidden" matters here
    MaxQueries,   \* max_public_queries
    MaxDiversity  \* bound: measured diversities are 0..MaxDiversity

Candidates == Range(Made)

ASSUME TraitsAssumption ==
    /\ Made \in Seq(Candidates) /\ IsInjective(Made) /\ Reproducible \subseteq Candidates
    /\ Quality \in [Candidates -> Int] /\ Cost \in [Candidates -> Nat]
    /\ Robustness \in [Candidates -> Nat] /\ DOMAIN Cell = Candidates
    /\ Members \in [Ensembles -> (SUBSET Candidates) \ {{}}] /\ Gain \in [Ensembles -> Int]
ASSUME ProcsAssumption == IsFiniteSet(Procs) /\ Procs # {}
ASSUME LimitsAssumption ==
    /\ MaximumSize \in Nat \ {0} /\ Floor \in 0..100 /\ MaxQueries \in Nat
    /\ Feedback \in {"forbidden", "gated_binary", "numeric"}
    /\ MaxDiversity \in Nat

VARIABLES
    \* the run, as the fold of its log gives it
    rule,        \* the policy of final_selection_rule, or "none"
    late,        \* the rule was registered with a result in the log
    observed,    \* experiments with a completed observation
    qd,          \* qd_candidates: the error_diversity of every candidate evaluated
    oof,         \* candidates with an out-of-fold artifact
    ensembles,   \* oof_ensembles
    told,        \* how often feedback from the leaderboard was recorded
    loop,        \* loop_state, from planning on
    answer,      \* what RUN_FINALIZED locked, or NoAnswer
    \* files beside the log
    queries,     \* public queries in the query ledger
    \* the processes
    todo,        \* todo[p]: what the call of p still has to write
    \* for the properties only
    fresh,       \* fresh[p]: nobody appended since p read the state
    disturbed    \* the kinds among "rule" and "finalized" that were appended unfresh

run == <<rule, late, observed, qd, oof, ensembles, told, loop, answer>>
vars == <<rule, late, observed, qd, oof, ensembles, told, loop, answer, queries,
          todo, fresh, disturbed>>

Policies == {"final_candidate_utility_v1", "cross_fitted_ensemble_v1"}
NoAnswer == [candidates |-> {}, queries |-> 0]

\* The experiments: one that makes a candidate, its replication, one that makes an ensemble.
Makes(c) == <<"candidate", c>>
Replicates(c) == <<"replication", c>>
Blends(e) == <<"ensemble", e>>
Experiments == {Makes(c) : c \in Candidates} \cup {Replicates(c) : c \in Candidates}
               \cup {Blends(e) : e \in Ensembles}

\* Bound: the experiments that are over before e runs.
Before(e) == CASE e[1] = "replication" -> {Makes(e[2])}
               [] e[1] = "ensemble" -> {Makes(c) : c \in Members[e[2]]}
               [] OTHER -> {}

-----------------------------------------------------------------------------
\* The archive (qd/archive.py): four elites in every cell.

Slots == {"best_quality", "lowest_cost", "highest_robustness", "highest_error_diversity"}

\* What a slot ranks first; quality decides between equals.
Rank(slot, c, d) == CASE slot = "lowest_cost" -> -Cost[c]
                      [] slot = "highest_robustness" -> Robustness[c]
                      [] slot = "highest_error_diversity" -> d[c]
                      [] OTHER -> Quality[c]

Outranks(slot, c, other, d) ==
    \/ Rank(slot, c, d) > Rank(slot, other, d)
    \/ Rank(slot, c, d) = Rank(slot, other, d) /\ Quality[c] > Quality[other]

Magnitude(n) == IF n < 0 THEN -n ELSE n

\* Within the tolerated distance of the best of its cell.
Competitive(c, best) == 100 * (Quality[best] - Quality[c]) <= Magnitude(Quality[best]) * (100 - Floor)

\* Slips for the mutation runs: a competitive newcomer takes every slot; an
\* analysis that overwrites; a gate that counts one too few; a
\* candidate offered before its result is in the log.
ChallengeTakesAll(elites, c, d) ==
    [slot \in Slots |-> IF Competitive(c, elites["best_quality"]) THEN c ELSE elites[slot]]

\* The elites of the cell of c once c was offered to it.
Challenge(elites, c, d) ==
    [slot \in Slots |->
        IF Competitive(c, elites["best_quality"]) /\ Outranks(slot, c, elites[slot], d)
        THEN c ELSE elites[slot]]

Admit(cells, c, d) ==
    IF Cell[c] \in DOMAIN cells
    THEN [cells EXCEPT ![Cell[c]] = Challenge(@, c, d)]
    ELSE IF Cardinality(DOMAIN cells) >= MaximumSize THEN cells
         ELSE [k \in DOMAIN cells \cup {Cell[c]} |->
                  IF k \in DOMAIN cells THEN cells[k] ELSE [slot \in Slots |-> c]]

\* QDArchive.rebuild, with the error diversities d: after[n] is the archive once the
\* first n candidates have been through.
Archive(d) ==
    LET after[n \in 0..Len(Made)] ==
            IF n = 0 THEN <<>>
            ELSE IF Made[n] \in DOMAIN d THEN Admit(after[n - 1], Made[n], d)
            ELSE after[n - 1]
    IN  after[Len(Made)]

Retained(d) == LET cells == Archive(d) IN UNION {Range(cells[k]) : k \in DOMAIN cells}

\* final_candidate_utility, in hundredths.
Utility(c, d) == Quality[c] + 15 * Robustness[c] + 15 * d[c]

\* select_final_candidate; the identifier decides between equals.
Winner(d) == LET elites == Retained(d) IN
    CHOOSE c \in elites : \A other \in elites : Utility(c, d) >= Utility(other, d)

-----------------------------------------------------------------------------
\* Calls.  A call reads the state and leaves the records it will write.  One that begins
\* on a finalized run is not modelled: its first append raises.

Reads(p, records) ==
    /\ answer = NoAnswer
    /\ todo' = [todo EXCEPT ![p] = records]
    /\ fresh' = [fresh EXCEPT ![p] = TRUE]
    /\ UNCHANGED <<run, queries, disturbed>>

RegisterFinalSelectionRule(p, policy) ==
    /\ rule = "none" /\ observed = {}
    /\ Reads(p, <<[kind |-> "rule", of |-> policy]>>)

\* import_result of a completed experiment, which offers the candidate it made to the
\* archive in a call that reads the state again.
Import(p, e) ==
    /\ e \notin observed /\ Before(e) \subseteq observed
    /\ Reads(p, <<[kind |-> "observed", of |-> e]>> \o
                IF e[1] = "candidate" THEN <<[kind |-> "offer", of |-> e[2]]>> ELSE <<>>)

MayBeArchivedUnseen(c) == c \notin DOMAIN qd
MayBeArchived(c) == c \notin DOMAIN qd /\ Makes(c) \in observed

Evaluated(c, d) == [kind |-> "evaluated", of |-> c, diversity |-> d]

\* archive_candidate, called by `archive add`.
ArchiveCandidate(p, c) ==
    /\ MayBeArchived(c)
    /\ Reads(p, <<Evaluated(c, 0)>>)

\* archive_candidate, called by import_result; its refusal ends the import.
Offer(p) ==
    /\ todo[p] # <<>> /\ Head(todo[p]).kind = "offer"
    /\ LET c == Head(todo[p]).of IN
       todo' = [todo EXCEPT ![p] = IF MayBeArchived(c) THEN <<Evaluated(c, 0)>> ELSE <<>>]
    /\ fresh' = [fresh EXCEPT ![p] = TRUE]
    /\ UNCHANGED <<run, queries, disturbed>>

RecordOofArtifact(p, c) ==
    /\ c \in DOMAIN qd /\ c \notin oof
    /\ Reads(p, <<[kind |-> "oof", of |-> c]>>)

Higher(m, n) == IF m >= n THEN m ELSE n

RevisedOutright(c, measured) == Evaluated(c, measured)
Revised(c, measured) == Evaluated(c, Higher(qd[c], measured))

\* record_oof_analysis of the residuals of two candidates; the code takes them in the
\* order of a set, here the one made first comes first.  The record of the analysis itself,
\* appended before the two revised candidates, is read by none of these calls.
RecordOofAnalysis(p, left, right, measured) ==
    /\ {left, right} \subseteq DOMAIN qd
    /\ Reads(p, <<Revised(left, measured), Revised(right, measured)>>)

RecordOofEnsemble(p, e) ==
    /\ e \notin ensembles
    /\ Blends(e) \in observed
    /\ Members[e] \subseteq oof
    /\ Members[e] \subseteq Retained(qd)
    /\ Reads(p, <<[kind |-> "ensemble", of |-> e]>>)

-----------------------------------------------------------------------------
\* finalize

\* _validate_final_candidate.
Validated(c) == Replicates(c) \in observed /\ c \in Reproducible /\ c \in oof

\* The caller names artifacts of the experiment e; they must be the chosen one's.
Choice(e) ==
    IF rule = "cross_fitted_ensemble_v1"
    THEN {Members[b] : b \in {x \in ensembles : /\ e = Blends(x) /\ Gain[x] > 0
                                                /\ \A y \in ensembles : Gain[x] >= Gain[y]}}
    ELSE {{c} : c \in {x \in DOMAIN qd : e = Makes(x) /\ x = Winner(qd)}}

\* The feedback records are counted in a second reading of the log, which is folded into the first.
Finalize(p, e) ==
    /\ loop = "planning"
    /\ rule # "none"
    /\ e \in observed
    /\ told <= MaxQueries
    /\ \E chosen \in Choice(e) :
        /\ \A c \in chosen : Validated(c)
        /\ Reads(p, <<[kind |-> "finalizing"], [kind |-> "completed"],
                      [kind |-> "finalized", candidates |-> chosen, queries |-> told]>>)

-----------------------------------------------------------------------------
\* kaggle feedback: LeaderboardGate.evaluate reads no state of the run but its own ledger.

Spend == <<[kind |-> "query"], [kind |-> "told"]>>

KaggleFeedbackOneTooMany(p) ==
    /\ todo' = [todo EXCEPT ![p] = IF Feedback = "forbidden" \/ queries > MaxQueries
                                   THEN <<[kind |-> "violation"]>> ELSE Spend]
    /\ UNCHANGED <<run, queries, fresh, disturbed>>

KaggleFeedback(p) ==
    /\ todo' = [todo EXCEPT ![p] = IF Feedback = "forbidden" \/ queries >= MaxQueries
                                   THEN <<[kind |-> "violation"]>> ELSE Spend]
    /\ UNCHANGED <<run, queries, fresh, disturbed>>

-----------------------------------------------------------------------------
\* Writing.

\* What an accepted record does to the fold.
Fold(record) ==
    CASE record.kind = "rule" ->
            /\ rule' = record.of /\ late' = (observed # {})
            /\ UNCHANGED <<observed, qd, oof, ensembles, told, loop, answer>>
      [] record.kind = "observed" ->
            observed' = observed \cup {record.of}
            /\ UNCHANGED <<rule, late, qd, oof, ensembles, told, loop, answer>>
      [] record.kind = "evaluated" ->
            qd' = [c \in DOMAIN qd \cup {record.of} |-> IF c = record.of THEN record.diversity ELSE qd[c]]
            /\ UNCHANGED <<rule, late, observed, oof, ensembles, told, loop, answer>>
      [] record.kind = "oof" ->
            oof' = oof \cup {record.of}
            /\ UNCHANGED <<rule, late, observed, qd, ensembles, told, loop, answer>>
      [] record.kind = "ensemble" ->
            ensembles' = ensembles \cup {record.of}
            /\ UNCHANGED <<rule, late, observed, qd, oof, told, loop, answer>>
      [] record.kind = "told" ->
            told' = told + 1
            /\ UNCHANGED <<rule, late, observed, qd, oof, ensembles, loop, answer>>
      [] record.kind \in {"finalizing", "completed"} ->
            loop' = record.kind
            /\ UNCHANGED <<rule, late, observed, qd, oof, ensembles, told, answer>>
      [] record.kind = "finalized" ->
            answer' = [candidates |-> record.candidates, queries |-> record.queries]
            /\ UNCHANGED <<rule, late, observed, qd, oof, ensembles, told, loop>>
      [] OTHER -> UNCHANGED run

\* ResearchRepository.append; on a finalized run it raises and the call is over.
AppendRecord(p) ==
    /\ todo[p] # <<>>
    /\ Head(todo[p]).kind \notin {"offer", "query"}
    /\ UNCHANGED queries
    /\ IF answer # NoAnswer
       THEN /\ todo' = [todo EXCEPT ![p] = <<>>]
            /\ fresh' = [fresh EXCEPT ![p] = FALSE]
            /\ UNCHANGED <<run, disturbed>>
       ELSE /\ Fold(Head(todo[p]))
            /\ todo' = [todo EXCEPT ![p] = Tail(@)]
            /\ fresh' = [q \in Procs |-> q = p /\ fresh[p] /\ Len(todo[p]) > 1]
            /\ disturbed' = disturbed \cup
                    (IF fresh[p] THEN {} ELSE {Head(todo[p]).kind} \cap {"rule", "finalized"})

\* QueryLedger.append.
AppendQuery(p) ==
    /\ todo[p] # <<>> /\ Head(todo[p]).kind = "query"
    /\ queries' = queries + 1
    /\ todo' = [todo EXCEPT ![p] = Tail(@)]
    /\ UNCHANGED <<run, fresh, disturbed>>

\* Dying before the first record is written is as good as not having called.
Crash(p) ==
    /\ todo[p] # <<>>
    /\ Head(todo[p]).kind \notin {"rule", "observed", "oof", "ensemble", "finalizing",
                                 "query", "violation"}
    /\ todo' = [todo EXCEPT ![p] = <<>>]
    /\ fresh' = [fresh EXCEPT ![p] = FALSE]
    /\ UNCHANGED <<run, queries, disturbed>>

Init ==
    /\ rule = "none" /\ late = FALSE /\ observed = {} /\ qd = <<>>
    /\ oof = {} /\ ensembles = {} /\ told = 0 /\ loop = "planning" /\ answer = NoAnswer
    /\ queries = 0
    /\ todo = [p \in Procs |-> <<>>]
    /\ fresh = [p \in Procs |-> FALSE] /\ disturbed = {}

Call(p) ==
    \/ \E policy \in Policies : RegisterFinalSelectionRule(p, policy)
    \/ \E e \in Experiments : Import(p, e)
    \/ \E e \in Experiments : Finalize(p, e)
    \/ \E c \in Candidates : ArchiveCandidate(p, c)
    \/ \E c \in Candidates : RecordOofArtifact(p, c)
    \/ \E i, j \in DOMAIN Made, measured \in 0..MaxDiversity :
            i < j /\ RecordOofAnalysis(p, Made[i], Made[j], measured)
    \/ \E e \in Ensembles : RecordOofEnsemble(p, e)
    \/ KaggleFeedback(p)

Step(p) ==
    \/ todo[p] = <<>> /\ Call(p)
    \/ Offer(p)
    \/ AppendRecord(p) \/ AppendQuery(p)
    \/ Crash(p)

Next == \E p \in Procs : Step(p)

Spec == Init /\ [][Next]_vars
-----------------------------------------------------------------------------
\* Properties.

RecordSet ==
    [kind : {"rule"}, of : Policies] \cup [kind : {"observed"}, of : Experiments]
    \cup [kind : {"offer", "oof"}, of : Candidates] \cup [kind : {"ensemble"}, of : Ensembles]
    \cup [kind : {"evaluated"}, of : Candidates, diversity : 0..MaxDiversity]
    \cup [kind : {"violation", "finalizing", "completed", "query", "told"}]
    \cup [kind : {"finalized"}, candidates : SUBSET Candidates, queries : 0..MaxQueries]

\* Every recorded candidate was observed, out-of-fold evidence and ensembles are about
\* recorded candidates, and what the calls hold are records.
TypeOK ==
    /\ rule \in Policies \cup {"none"} /\ late \in BOOLEAN
    /\ observed \subseteq Experiments
    /\ qd \in [DOMAIN qd -> 0..MaxDiversity]
    /\ \A c \in DOMAIN qd : Makes(c) \in observed
    /\ oof \subseteq DOMAIN qd /\ ensembles \subseteq Ensembles
    /\ \A e \in ensembles : Members[e] \subseteq oof
    /\ {told, queries} \subseteq Nat
    /\ loop \in {"planning", "finalizing", "completed"}
    /\ answer \in [candidates : SUBSET Candidates, queries : 0..MaxQueries]
    /\ \A p \in Procs : \A i \in DOMAIN todo[p] : todo[p][i] \in RecordSet
    /\ fresh \in [Procs -> BOOLEAN] /\ disturbed \subseteq {"rule", "finalized"}

\* What a finalized run locked: every candidate of the answer is replicated,
\* reproducible and has out-of-fold evidence, however the calls interleaved, under a
\* rule that is in the log.  If nobody appended during finalize, the answer is also the
\* best one: under the utility policy no candidate that ever got a cell has a better
\* quality than the utility of the answer, which the archive may have dropped from all
\* four slots of its cell; under the ensemble policy no ensemble gains more.  And a rule
\* registered by an undisturbed call precedes every result.
LockedAnswerStands ==
    /\ answer # NoAnswer =>
        /\ rule # "none" /\ answer.candidates # {}
        /\ \A c \in answer.candidates : Validated(c)
        /\ "finalized" \notin disturbed =>
            /\ loop = "completed"
            /\ rule = "final_candidate_utility_v1" =>
                \A c \in answer.candidates, other \in DOMAIN qd :
                    Cell[other] \in DOMAIN Archive(qd) => Utility(c, qd) >= Quality[other]
            /\ rule = "cross_fitted_ensemble_v1" =>
                \E e \in ensembles : /\ answer.candidates = Members[e]
                                     /\ \A other \in ensembles : Gain[e] >= Gain[other]
    /\ "rule" \notin disturbed => ~late

\* The public leaderboard is read at most once per process beyond the cap, since the
\* gate counts before it appends; a run records no feedback it did not spend a query
\* on, and locks no more feedback than it recorded.
ReadsAreBudgeted ==
    /\ queries <= MaxQueries + Cardinality(Procs) - 1
    /\ told <= queries
    /\ answer.queries <= told

\* What a run knows is taken back only by a call that another process overtook since it
\* read the state: no other step lowers the measured diversity of a candidate, or replaces
\* the selection rule.
OnlyStaleCallsTakeBack ==
    [][ \/ \E c \in DOMAIN qd : c \notin DOMAIN qd' \/ qd'[c] < qd[c]
        \/ rule # "none" /\ rule' # rule
        => \E p \in Procs : todo'[p] # todo[p] /\ ~fresh[p] ]_vars
=============================================================================
