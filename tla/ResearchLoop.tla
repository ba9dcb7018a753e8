---------------------------- MODULE ResearchLoop ----------------------------
(***************************************************************************)
(* The unattended loop of one research run: AutonomousLoop (autoloop.py)   *)
(* driving ResearchController (research_graph.py) against an executor.     *)
(*                                                                         *)
(* A controller operation reads the state folded from the event log,       *)
(* validates against it and then appends its events ONE AT A TIME, so the  *)
(* process can die between any two of them.  Every append is therefore an  *)
(* action of its own, and pc says which append comes next.  The variables  *)
(* fall into three groups:                                                 *)
(*   - what load_run_state folds from the log: it survives a crash;        *)
(*   - the worker's side: tickets and result files, which survive too;     *)
(*   - the process: pc and its local variables, which a crash erases.      *)
(***************************************************************************)
EXTENDS LoopStates, Integers, FiniteSets

CONSTANTS
    Hyps,            \* hypotheses the generator can state
    MaxProposals,    \* bound: experiments recorded over the whole run
    Tests,           \* Tests[e]: the hypotheses experiment e was designed to test
    MaxActive,       \* loop.max_active_hypotheses
    PortfolioSize,   \* LoopSettings.portfolio_size
    MaxExperiments,  \* budget.max_experiments
    MaxCpu,          \* budget.max_cpu_hours
    Estimate,        \* cpu hours every proposal declares
    Charges,         \* cpu hours a worker can report for one attempt
    MaxRetries,      \* executor.retry_infrastructure_failures
    UpdatesBeliefs,  \* capabilities(mode).belief_posterior and .independent_falsifier
    Synchronous,     \* LocalExecutor (TRUE) or a ticket-filing executor (FALSE)
    MaxCrashes       \* bound: deaths of the process inside a round

Exps == 1..MaxProposals          \* an experiment is named by its place in the log
NoExp == 0

ASSUME BoundAssumption ==
    /\ MaxProposals \in Nat
    /\ MaxCrashes \in Nat
ASSUME ConfigAssumption ==
    /\ MaxActive \in Nat \ {0}
    /\ PortfolioSize \in Nat \ {0}
    /\ MaxExperiments \in Nat
    /\ MaxCpu \in Nat
    /\ MaxRetries \in Nat
    /\ UpdatesBeliefs \in BOOLEAN
    /\ Synchronous \in BOOLEAN
ASSUME DesignAssumption ==
    /\ Tests \in [1..MaxProposals -> (SUBSET Hyps) \ {{}}]
    /\ Estimate \in Nat
    /\ Charges \subseteq Nat

VARIABLES
    \* folded from the event log
    loopState,   \* the last StateChanged
    phase,       \* discovery, consolidation or exploitation
    brief,       \* whether a ResearchBrief is in force
    hyps,        \* hypotheses on record
    status,      \* ExperimentStatus of each experiment, "none" before it is proposed
    attempt,     \* the attempt each experiment was last started under, 0 if never
    retries,     \* ExperimentRetryScheduled records of each experiment
    obs,         \* how the Observation of each experiment ended, "none" before it
    judged,      \* pairs <<h, e>> a FalsificationRecord covers
    applied,     \* how often e's observation moved the confidence of h
    revised,     \* pairs <<h, e>> whose verdict reached h's status
    used,        \* usage.experiments
    cpu,         \* usage.cpu_hours
    \* the worker's side
    tickets,     \* pairs <<e, a>> a worker is still working on
    file,        \* the result.json of each experiment
    \* the process
    pc,
    cur,         \* the experiment being handed over
    fresh,       \* proposals of the batch still to be recorded
    batch,       \* hypotheses of the batch still to be recorded
    queue,       \* running experiments still to be collected this round
    held,        \* the result in hand
    pairs,       \* pairs still to be judged
    verdicts,    \* pairs judged in this round, belief still to be updated
    pending,     \* experiments the round gave up waiting for
    crashes      \* how often the process died inside a round

logVars == <<loopState, phase, brief, hyps, status, attempt, retries, obs,
             judged, applied, revised, used, cpu>>
workerVars == <<tickets, file>>
localVars == <<cur, fresh, batch, queue, held, pairs, verdicts, pending>>
vars == <<logVars, workerVars, pc, localVars, crashes>>

\* Groups of the log's variables that most steps leave alone together.
evidenceVars == <<obs, judged, applied, revised>>
phaseVars == <<phase, brief, hyps>>
budgetVars == <<used, cpu>>

----------------------------------------------------------------------------
Statuses == {"none", "proposed", "rejected", "selected", "running",
             "completed", "failed"}
Settled == {"selected", "running", "completed", "failed"}  \* SETTLED_STATUSES
Phases == {"discovery", "consolidation", "exploitation"}
Outcomes == {"completed", "infrastructure", "model"}

\* A result file: the attempt it answers, the attempt number it carries, how
\* the attempt ended and the cpu hours it reports.
Results == [answers: Nat, attempt: Nat, outcome: Outcomes, cost: Charges]
NoResult == [outcome |-> "none"]

PcValues ==
    {"idle", "begin", "hypotheses", "record_hypotheses", "plan", "record_proposals",
     "select", "enter_selecting", "enter_selecting_empty", "replan_empty",
     "dispatch", "submit", "collect", "triage", "redispatch",
     "import", "observe", "reconcile", "leave_executing",
     "interpret", "judge", "enter_falsifying", "update", "revise", "enter_updating",
     "decide", "change_phase", "leave_phase_decision",
     "handoff", "record_brief", "leave_handoff", "finish"}

IsFirst(e, S) == e \in S /\ \A f \in S : e <= f

WithStatus(s) == {e \in Exps : status[e] = s}

\* budget fields of should_stop; a cpu budget of zero is no budget at all
Exhausted == used >= MaxExperiments \/ (MaxCpu > 0 /\ cpu >= MaxCpu)

\* the budget checks of hard_gate for one more experiment
WithinBudget == used + 1 <= MaxExperiments /\ cpu + Estimate <= MaxCpu

\* Slip: every observation counts as unjudged.
UnjudgedIgnoringRecords == {e \in Exps : obs[e] # "none"}

\* unjudged_observations: no falsification record names the observation
Unjudged == {e \in Exps : obs[e] # "none" /\ ~\E h \in Hyps : <<h, e>> \in judged}

\* the unjudged observations a belief may be updated from
Interpretable == {e \in Unjudged : obs[e] = "completed"}

----------------------------------------------------------------------------
Init ==
    /\ loopState = "hypothesizing"      \* as ResearchController.start leaves it
    /\ phase = "discovery"
    /\ brief = "none"
    /\ hyps = {}
    /\ status = [e \in Exps |-> "none"]
    /\ attempt = [e \in Exps |-> 0]
    /\ retries = [e \in Exps |-> 0]
    /\ obs = [e \in Exps |-> "none"]
    /\ judged = {}
    /\ applied = [p \in Hyps \X Exps |-> 0]
    /\ revised = {}
    /\ used = 0
    /\ cpu = 0
    /\ tickets = {}
    /\ file = [e \in Exps |-> NoResult]
    /\ pc = "idle"
    /\ cur = NoExp
    /\ fresh = 0
    /\ batch = {}
    /\ queue = {}
    /\ held = NoResult
    /\ pairs = {}
    /\ verdicts = {}
    /\ pending = {}
    /\ crashes = 0

\* One StateChanged event: the only way _advance and replan move the loop.
MoveTo(target) == loopState' = target

\* The process ends, by returning or by an exception that reaches the CLI:
\* either way its local variables are gone and the log stays as it is.
ProcessEnds ==
    /\ pc' = "idle"
    /\ cur' = NoExp /\ fresh' = 0 /\ batch' = {} /\ queue' = {}
    /\ held' = NoResult /\ pairs' = {} /\ verdicts' = {} /\ pending' = {}

----------------------------------------------------------------------------
\* `erlctl run loop`: a new process on an existing run.
StartLoop ==
    /\ pc = "idle"
    /\ pc' = "begin"
    /\ UNCHANGED <<logVars, workerVars, localVars, crashes>>

\* Slip: a run left in `executing` is taken for one with nothing to dispatch
\* or to collect.
StageWithoutExecuting(s) ==
    CASE s = "hypothesizing" -> "hypotheses"
      [] s = "planning" -> "plan"
      [] s = "scoring" -> "select"
      [] s = "selecting" -> "dispatch"
      [] OTHER -> "interpret"

\* run_round's preflight, then the stage the recorded state asks for.
Stage(s) ==
    CASE s = "hypothesizing" -> "hypotheses"
      [] s = "planning" -> "plan"
      [] s = "scoring" -> "select"
      [] s \in {"selecting", "executing"} -> "dispatch"
      [] OTHER -> "interpret"

BeginRound ==
    /\ pc = "begin"
    /\ ~Exhausted
    /\ pc' = Stage(loopState)
    /\ UNCHANGED <<logVars, workerVars, localVars, crashes>>

\* _finish, as the preflight of a round and as the checkpoint before the
\* planning and the scoring stage.
StopForBudget ==
    /\ pc \in {"begin", "plan", "select"}
    /\ Exhausted
    /\ ProcessEnds
    /\ UNCHANGED <<logVars, workerVars, crashes>>

----------------------------------------------------------------------------
\* record_hypotheses validates the whole batch before it appends any of it.  A
\* batch is never empty, and a hypothesis it repeats takes its room again.
FitsBeside(S) == Cardinality(hyps) + Cardinality(S) <= MaxActive

AcceptHypotheses ==
    /\ pc = "hypotheses"
    /\ \E S \in (SUBSET Hyps) \ {{}} : FitsBeside(S) /\ batch' = S
    /\ pc' = "record_hypotheses"
    /\ UNCHANGED <<logVars, workerVars, cur, fresh, queue, held, pairs, verdicts,
                   pending, crashes>>

RefuseHypotheses ==
    /\ pc = "hypotheses"
    /\ \E S \in (SUBSET Hyps) \ {{}} : ~FitsBeside(S)
    /\ ProcessEnds
    /\ UNCHANGED <<logVars, workerVars, crashes>>

RecordHypothesis ==
    /\ pc = "record_hypotheses"
    /\ \E h \in batch :
        /\ hyps' = hyps \union {h}
        /\ batch' = batch \ {h}
    /\ UNCHANGED <<loopState, phase, brief, status, attempt, retries, evidenceVars,
                   budgetVars, workerVars, pc, cur, fresh, queue, held, pairs,
                   verdicts, pending, crashes>>

LeaveHypothesizing ==
    /\ pc = "record_hypotheses"
    /\ batch = {}
    /\ MoveTo("planning")
    /\ pc' = "plan"
    /\ UNCHANGED <<phaseVars, status, attempt, retries, evidenceVars, budgetVars,
                   workerVars, localVars, crashes>>

----------------------------------------------------------------------------
\* record_proposals drops the identifiers already taken and raises when none
\* of the batch is left.
AcceptProposals ==
    /\ pc = "plan"
    /\ ~Exhausted
    /\ \E n \in 1..Cardinality(WithStatus("none")) : fresh' = n
    /\ pc' = "record_proposals"
    /\ UNCHANGED <<logVars, workerVars, cur, batch, queue, held, pairs, verdicts,
                   pending, crashes>>

RefuseProposals ==
    /\ pc = "plan"
    /\ ~Exhausted
    /\ WithStatus("none") # Exps
    /\ ProcessEnds
    /\ UNCHANGED <<logVars, workerVars, crashes>>

RecordProposal ==
    /\ pc = "record_proposals"
    /\ fresh > 0
    /\ \E e \in Exps :
        /\ IsFirst(e, WithStatus("none"))
        /\ status' = [status EXCEPT ![e] = "proposed"]
    /\ fresh' = fresh - 1
    /\ UNCHANGED <<loopState, phaseVars, attempt, retries, evidenceVars, budgetVars,
                   workerVars, pc, cur, batch, queue, held, pairs, verdicts,
                   pending, crashes>>

LeavePlanning ==
    /\ pc = "record_proposals"
    /\ fresh = 0
    /\ MoveTo("scoring")
    /\ pc' = "select"
    /\ UNCHANGED <<phaseVars, status, attempt, retries, evidenceVars, budgetVars,
                   workerVars, localVars, crashes>>

----------------------------------------------------------------------------
\* hard_gate, as far as the model has its inputs; every candidate is checked
\* against the usage BEFORE the decision, whatever else the decision selects.
PassesGate(e) == WithinBudget /\ Tests[e] \subseteq hyps

\* Slip: the portfolio's size is not looked at.
DecisionWithoutCap(selected, rejected) ==
    LET open == WithStatus("proposed") IN
    /\ selected \subseteq open
    /\ rejected \subseteq open \ selected
    /\ \A e \in selected : PassesGate(e)
    /\ \A e \in open \ selected : ~PassesGate(e) => e \in rejected
    /\ selected = {} => rejected # {}

\* Slip: a selection still waiting for its dispatch is scored again.
DecisionOnSelected(selected, rejected) ==
    LET open == WithStatus("proposed") \union WithStatus("selected") IN
    /\ selected \subseteq open
    /\ rejected \subseteq open \ selected
    /\ Cardinality(selected) <= PortfolioSize
    /\ \A e \in selected : PassesGate(e)
    /\ \A e \in open \ selected : ~PassesGate(e) => e \in rejected
    /\ selected = {} => rejected # {}

\* A candidate that passed the gate can still be rejected for its utility, or
\* stay proposed because the portfolio is full or a neighbour is too similar.
\* Nothing is selected only when the best of the pool is below the threshold,
\* and that candidate is rejected.
IsDecision(selected, rejected) ==
    LET open == WithStatus("proposed") IN
    /\ selected \subseteq open
    /\ rejected \subseteq open \ selected
    /\ Cardinality(selected) <= PortfolioSize
    /\ \A e \in selected : PassesGate(e)
    /\ \A e \in open \ selected : ~PassesGate(e) => e \in rejected
    /\ selected = {} => rejected # {}

\* EXPERIMENT_SELECTED commits the decision and reserves the estimates at once.
Commit(selected, rejected) ==
    /\ IsDecision(selected, rejected)
    /\ status' = [e \in Exps |-> IF e \in selected THEN "selected"
                                 ELSE IF e \in rejected THEN "rejected"
                                 ELSE status[e]]
    /\ used' = used + Cardinality(selected)
    /\ cpu' = cpu + Estimate * Cardinality(selected)
    /\ pc' = IF selected = {} THEN "enter_selecting_empty" ELSE "enter_selecting"

SelectExperiments ==
    /\ pc = "select"
    /\ ~Exhausted
    /\ \E selected, rejected \in SUBSET Exps : Commit(selected, rejected)
    /\ UNCHANGED <<loopState, phaseVars, attempt, retries, evidenceVars, workerVars,
                   localVars, crashes>>

\* "no proposed experiments are available for selection"
RefuseSelection ==
    /\ pc = "select"
    /\ ~Exhausted
    /\ WithStatus("proposed") = {}
    /\ ProcessEnds
    /\ UNCHANGED <<logVars, workerVars, crashes>>

EnterSelecting ==
    /\ pc \in {"enter_selecting", "enter_selecting_empty"}
    /\ MoveTo("selecting")
    /\ pc' = IF pc = "enter_selecting" THEN "dispatch" ELSE "replan_empty"
    /\ UNCHANGED <<phaseVars, status, attempt, retries, evidenceVars, budgetVars,
                   workerVars, localVars, crashes>>

\* "no candidate passed selection": the round ends in planning.
ReplanEmpty ==
    /\ pc = "replan_empty"
    /\ MoveTo("planning")
    /\ pc' = "finish"
    /\ UNCHANGED <<phaseVars, status, attempt, retries, evidenceVars, budgetVars,
                   workerVars, localVars, crashes>>

----------------------------------------------------------------------------
\* dispatch enters `executing` before it records the attempt.
EnterExecuting ==
    /\ pc \in {"dispatch", "redispatch"}
    /\ pc = "dispatch" => WithStatus("selected") # {}
    /\ loopState = "selecting"
    /\ MoveTo("executing")
    /\ UNCHANGED <<phaseVars, status, attempt, retries, evidenceVars, budgetVars,
                   workerVars, pc, localVars, crashes>>

RecordStart ==
    /\ pc = "dispatch"
    /\ loopState = "executing"
    /\ \E e \in Exps :
        /\ IsFirst(e, WithStatus("selected"))
        /\ status' = [status EXCEPT ![e] = "running"]
        /\ attempt' = [attempt EXCEPT ![e] = 1]
        /\ cur' = e
    /\ pc' = "submit"
    /\ UNCHANGED <<loopState, phaseVars, retries, evidenceVars, budgetVars, workerVars,
                   fresh, batch, queue, held, pairs, verdicts, pending, crashes>>

\* Slip: the request is built for the attempt after the one on record.
SubmitNextAttempt ==
    /\ pc = "submit"
    /\ ~Synchronous
    /\ tickets' = tickets \union {<<cur, attempt[cur] + 1>>}
    /\ pc' = IF queue = {} THEN "dispatch" ELSE "collect"
    /\ cur' = NoExp
    /\ UNCHANGED <<logVars, file, fresh, batch, queue, held, pairs, verdicts, pending,
                   crashes>>

\* The local executor runs the command inside submit and overwrites the one
\* result file of the experiment; the others file a ticket for the attempt.
Submit ==
    /\ pc = "submit"
    /\ IF Synchronous
       THEN /\ \E outcome \in Outcomes, cost \in Charges :
                 file' = [file EXCEPT ![cur] =
                            [answers |-> attempt[cur], attempt |-> attempt[cur],
                             outcome |-> outcome, cost |-> cost]]
            /\ UNCHANGED tickets
       ELSE /\ tickets' = tickets \union {<<cur, attempt[cur]>>}
            /\ UNCHANGED file
    /\ pc' = IF queue = {} THEN "dispatch" ELSE "collect"
    /\ cur' = NoExp
    /\ UNCHANGED <<logVars, fresh, batch, queue, held, pairs, verdicts, pending,
                   crashes>>

BeginCollecting ==
    /\ pc = "dispatch"
    /\ WithStatus("selected") = {}
    /\ queue' = WithStatus("running")
    /\ pc' = "collect"
    /\ UNCHANGED <<logVars, workerVars, cur, fresh, batch, held, pairs, verdicts,
                   pending, crashes>>

----------------------------------------------------------------------------
\* _await_result: the file is read before the deadline is looked at.
TakeResult ==
    /\ pc = "collect"
    /\ \E e \in Exps :
        /\ IsFirst(e, queue)
        /\ file[e] # NoResult
        /\ held' = file[e]
        /\ cur' = e
    /\ pc' = "triage"
    /\ UNCHANGED <<logVars, workerVars, fresh, batch, queue, pairs, verdicts, pending,
                   crashes>>

GiveUpWaiting ==
    /\ pc = "collect"
    /\ \E e \in Exps :
        /\ IsFirst(e, queue)
        /\ file[e] = NoResult
        /\ queue' = queue \ {e}
        /\ pending' = pending \union {e}
    /\ UNCHANGED <<logVars, workerVars, pc, cur, fresh, batch, held, pairs, verdicts,
                   crashes>>

\* Slip: the retries already spent are not counted.
RetryAlwaysDue == held.outcome = "infrastructure"

\* The attempt number is checked against the log's only when a retry is due.
RetryDue == held.outcome = "infrastructure" /\ retries[cur] < MaxRetries
RetryAllowed == attempt[cur] = held.attempt /\ cpu + held.cost <= MaxCpu

ScheduleRetry ==
    /\ pc = "triage"
    /\ RetryDue
    /\ RetryAllowed
    /\ retries' = [retries EXCEPT ![cur] = @ + 1]
    /\ cpu' = cpu + held.cost
    /\ pc' = "redispatch"
    /\ UNCHANGED <<loopState, phaseVars, status, attempt, evidenceVars, used, workerVars,
                   localVars, crashes>>

KeepResult ==
    /\ pc = "triage"
    /\ ~(RetryDue /\ RetryAllowed)
    /\ pc' = "import"
    /\ UNCHANGED <<logVars, workerVars, localVars, crashes>>

\* Slip: the retry is dispatched, but the result in hand is imported.
RestartKeepingResult ==
    /\ pc = "redispatch"
    /\ loopState = "executing"
    /\ attempt' = [attempt EXCEPT ![cur] = held.attempt + 1]
    /\ pc' = "import"
    /\ UNCHANGED <<loopState, phaseVars, status, retries, evidenceVars, budgetVars,
                   workerVars, localVars, crashes>>

RestartAttempt ==
    /\ pc = "redispatch"
    /\ loopState = "executing"
    /\ attempt' = [attempt EXCEPT ![cur] = held.attempt + 1]
    /\ held' = NoResult
    /\ pc' = "submit"
    /\ UNCHANGED <<loopState, phaseVars, status, retries, evidenceVars, budgetVars,
                   workerVars, cur, fresh, batch, queue, pairs, verdicts, pending,
                   crashes>>

\* _advance refuses: the loop left `executing` when an earlier result of the
\* same portfolio was imported.  LoopStateError ends the process.
RefuseRetry ==
    /\ pc = "redispatch"
    /\ loopState \notin {"selecting", "executing"}
    /\ ProcessEnds
    /\ UNCHANGED <<logVars, workerVars, crashes>>

----------------------------------------------------------------------------
\* import_result, event by event.
ImportOutcome ==
    /\ pc = "import"
    /\ status[cur] = "running"
    /\ status' = [status EXCEPT ![cur] =
                    IF held.outcome = "completed" THEN "completed" ELSE "failed"]
    /\ pc' = "observe"
    /\ UNCHANGED <<loopState, phaseVars, attempt, retries, evidenceVars, budgetVars,
                   workerVars, localVars, crashes>>

RecordObservation ==
    /\ pc = "observe"
    /\ obs' = [obs EXCEPT ![cur] =
                 IF held.outcome = "completed" THEN "completed" ELSE "failed"]
    /\ pc' = "reconcile"
    /\ UNCHANGED <<loopState, phaseVars, status, attempt, retries, judged, applied,
                   revised, budgetVars, workerVars, localVars, crashes>>

\* Slip: the charge is subtracted too.
ReconciledWrongSign(usage, charged) == usage - Estimate - charged

\* The reservation is replaced by what the worker reported.
Reconciled(usage, charged) ==
    IF usage - Estimate + charged < 0 THEN 0 ELSE usage - Estimate + charged

ReconcileResources ==
    /\ pc = "reconcile"
    /\ cpu' = Reconciled(cpu, held.cost)
    /\ pc' = "leave_executing"
    /\ UNCHANGED <<loopState, phaseVars, status, attempt, retries, evidenceVars, used,
                   workerVars, localVars, crashes>>

\* Slip: a late result forces the loop back into `parsing`.
LeaveExecutingAlways ==
    /\ pc = "leave_executing"
    /\ MoveTo("parsing")
    /\ queue' = queue \ {cur}
    /\ cur' = NoExp
    /\ held' = NoResult
    /\ pc' = "collect"
    /\ UNCHANGED <<phaseVars, status, attempt, retries, evidenceVars, budgetVars,
                   workerVars, fresh, batch, pairs, verdicts, pending, crashes>>

\* A late result is recorded without moving a loop that has gone on.
LeaveExecuting ==
    /\ pc = "leave_executing"
    /\ MoveTo(IF loopState = "executing" THEN "parsing" ELSE loopState)
    /\ queue' = queue \ {cur}
    /\ cur' = NoExp
    /\ held' = NoResult
    /\ pc' = "collect"
    /\ UNCHANGED <<phaseVars, status, attempt, retries, evidenceVars, budgetVars,
                   workerVars, fresh, batch, pairs, verdicts, pending, crashes>>

FinishCollecting ==
    /\ pc = "collect"
    /\ queue = {}
    /\ pc' = "interpret"
    /\ UNCHANGED <<logVars, workerVars, localVars, crashes>>

----------------------------------------------------------------------------
\* What run_round does with the loop once nothing is left to collect.
BeginJudging ==
    /\ pc = "interpret"
    /\ loopState \in {"parsing", "falsifying"}
    /\ Interpretable # {}
    /\ UpdatesBeliefs
    /\ pairs' = {p \in Hyps \X Exps : p[2] \in Interpretable /\ p[1] \in Tests[p[2]] \cap hyps}
    /\ pc' = "judge"
    /\ UNCHANGED <<logVars, workerVars, cur, fresh, batch, queue, held, verdicts,
                   pending, crashes>>

\* Slip: a round whose observations are all failures is left where it is.
ReplanDueWithoutFailures ==
    loopState \in {"parsing", "falsifying"} /\ Interpretable # {} /\ ~UpdatesBeliefs

\* The mode keeps no beliefs, or every new observation is a failure.
ReplanDue ==
    \/ loopState \in {"parsing", "falsifying"} /\ Interpretable # {} /\ ~UpdatesBeliefs
    \/ loopState = "parsing" /\ Interpretable = {} /\ Unjudged # {}

Replan ==
    /\ pc = "interpret"
    /\ ReplanDue
    /\ loopState # "falsifying"         \* replan raises LoopStateError from there
    /\ MoveTo("planning")
    /\ pc' = "handoff"
    /\ UNCHANGED <<phaseVars, status, attempt, retries, evidenceVars, budgetVars,
                   workerVars, localVars, crashes>>

\* No branch of run_round applies, or the loop already stands in `updating`.
PassOver ==
    /\ pc = "interpret"
    /\ loopState \in {"parsing", "falsifying"} => Interpretable = {}
    /\ ~ReplanDue
    /\ pc' = IF loopState = "updating" THEN "decide" ELSE "handoff"
    /\ UNCHANGED <<logVars, workerVars, localVars, crashes>>

\* _interpret, first pass: record_falsification for every pair.
JudgePair ==
    /\ pc = "judge"
    /\ \E p \in pairs :
        /\ judged' = judged \union {p}
        /\ pairs' = pairs \ {p}
        /\ verdicts' = verdicts \union {p}
    /\ pc' = "enter_falsifying"
    /\ UNCHANGED <<loopState, phaseVars, status, attempt, retries, obs, applied, revised,
                   budgetVars, workerVars, cur, fresh, batch, queue, held, pending,
                   crashes>>

EnterFalsifying ==
    /\ pc = "enter_falsifying"
    /\ loopState \in {"parsing", "falsifying"}
    /\ MoveTo("falsifying")
    /\ pc' = "judge"
    /\ UNCHANGED <<phaseVars, status, attempt, retries, evidenceVars, budgetVars,
                   workerVars, localVars, crashes>>

BeginUpdating ==
    /\ pc = "judge"
    /\ pairs = {}
    /\ pc' = "update"
    /\ UNCHANGED <<logVars, workerVars, localVars, crashes>>

\* Second pass: record_belief_update appends BELIEF_UPDATED, which moves the
\* confidence, then HYPOTHESIS_REVISED, which carries the verdict's status.
\* From here on pairs holds the one pair being updated.
UpdateBelief ==
    /\ pc = "update"
    /\ \E p \in verdicts :
        /\ obs[p[2]] = "completed"      \* failed observations cannot update beliefs
        /\ applied' = [applied EXCEPT ![p] = @ + 1]
        /\ pairs' = {p}
    /\ pc' = "revise"
    /\ UNCHANGED <<loopState, phaseVars, status, attempt, retries, obs, judged, revised,
                   budgetVars, workerVars, cur, fresh, batch, queue, held, verdicts,
                   pending, crashes>>

ReviseHypothesis ==
    /\ pc = "revise"
    /\ revised' = revised \union pairs
    /\ pc' = "enter_updating"
    /\ UNCHANGED <<loopState, phaseVars, status, attempt, retries, obs, judged, applied,
                   budgetVars, workerVars, localVars, crashes>>

EnterUpdating ==
    /\ pc = "enter_updating"
    /\ loopState \in {"falsifying", "updating"}
    /\ MoveTo("updating")
    /\ verdicts' = verdicts \ pairs
    /\ pairs' = {}
    /\ pc' = "update"
    /\ UNCHANGED <<phaseVars, status, attempt, retries, evidenceVars, budgetVars,
                   workerVars, cur, fresh, batch, queue, held, pending, crashes>>

\* Slip: the second pass ends after its first pair.
FinishAfterFirstPair ==
    /\ pc = "update"
    /\ pc' = IF loopState = "updating" THEN "decide" ELSE "handoff"
    /\ verdicts' = {}
    /\ UNCHANGED <<logVars, workerVars, cur, fresh, batch, queue, held, pairs, pending,
                   crashes>>

FinishUpdating ==
    /\ pc = "update"
    /\ verdicts = {}
    /\ pc' = IF loopState = "updating" THEN "decide" ELSE "handoff"
    /\ UNCHANGED <<logVars, workerVars, localVars, crashes>>

----------------------------------------------------------------------------
\* advance_phase.  What the evidence says is left open: any phase decide_phase
\* can return from the current one.
NextPhases(p) ==
    CASE p = "discovery" -> {"discovery", "consolidation"}
      [] p = "consolidation" -> {"consolidation", "exploitation"}
      [] p = "exploitation" -> {"exploitation", "consolidation"}

EnterPhaseDecision ==
    /\ pc = "decide"
    /\ loopState = "updating"
    /\ MoveTo("phase_decision")
    /\ pc' = "change_phase"
    /\ UNCHANGED <<phaseVars, status, attempt, retries, evidenceVars, budgetVars,
                   workerVars, localVars, crashes>>

\* Slip: the brief stays in force when the phase goes back.
ChangePhaseKeepingBrief ==
    /\ pc = "change_phase"
    /\ \E decided \in NextPhases(phase) :
        /\ phase' = decided
        /\ pc' = IF decided = "exploitation" /\ brief = "none"
                 THEN "handoff" ELSE "leave_phase_decision"
    /\ UNCHANGED <<loopState, brief, hyps, status, attempt, retries, evidenceVars,
                   budgetVars, workerVars, localVars, crashes>>

\* PHASE_CHANGED, when the phase does change; leaving exploitation retires the
\* brief.  Exploitation without a brief parks the run in phase_decision.
ChangePhase ==
    /\ pc = "change_phase"
    /\ \E decided \in NextPhases(phase) :
        /\ phase' = decided
        /\ brief' = IF decided # phase /\ decided # "exploitation" THEN "none" ELSE brief
        /\ pc' = IF decided = "exploitation" /\ brief = "none"
                 THEN "handoff" ELSE "leave_phase_decision"
    /\ UNCHANGED <<loopState, hyps, status, attempt, retries, evidenceVars, budgetVars,
                   workerVars, localVars, crashes>>

LeavePhaseDecision ==
    /\ pc = "leave_phase_decision"
    /\ MoveTo(IF hyps # {} THEN "planning" ELSE "hypothesizing")
    /\ pc' = "handoff"
    /\ UNCHANGED <<phaseVars, status, attempt, retries, evidenceVars, budgetVars,
                   workerVars, localVars, crashes>>

----------------------------------------------------------------------------
\* _handoff_if_due and handoff_to_exploiter
HandoffDue == phase = "exploitation" /\ brief = "none" /\ loopState = "phase_decision"

EnterHandoff ==
    /\ pc = "handoff"
    /\ HandoffDue
    /\ MoveTo("exploiter_handoff")
    /\ pc' = "record_brief"
    /\ UNCHANGED <<phaseVars, status, attempt, retries, evidenceVars, budgetVars,
                   workerVars, localVars, crashes>>

\* derive_brief found no completed experiment that supports a validation scheme.
RefuseBrief ==
    /\ pc = "handoff"
    /\ HandoffDue
    /\ ProcessEnds
    /\ UNCHANGED <<logVars, workerVars, crashes>>

RecordBrief ==
    /\ pc = "record_brief"
    /\ brief' = "published"
    /\ pc' = "leave_handoff"
    /\ UNCHANGED <<loopState, phase, hyps, status, attempt, retries, evidenceVars,
                   budgetVars, workerVars, localVars, crashes>>

LeaveHandoff ==
    /\ pc = "leave_handoff"
    /\ MoveTo("planning")
    /\ pc' = "finish"
    /\ UNCHANGED <<phaseVars, status, attempt, retries, evidenceVars, budgetVars,
                   workerVars, localVars, crashes>>

NoHandoff ==
    /\ pc = "handoff"
    /\ ~HandoffDue
    /\ pc' = "finish"
    /\ UNCHANGED <<logVars, workerVars, localVars, crashes>>

----------------------------------------------------------------------------
\* run goes on to the next round unless a stop reason or a pending experiment
\* ends it; the rounds asked for, the quiet-round limit and the utility floor
\* can end it anywhere.
NextRound ==
    /\ pc = "finish"
    /\ pending = {}
    /\ ~Exhausted
    /\ pc' = "begin"
    /\ UNCHANGED <<logVars, workerVars, localVars, crashes>>

EndLoop ==
    /\ pc = "finish"
    /\ ProcessEnds
    /\ UNCHANGED <<logVars, workerVars, crashes>>

\* A kill, a reboot, or an exception out of the executor or the language model.
Crash ==
    /\ pc # "idle"
    /\ crashes < MaxCrashes
    /\ crashes' = crashes + 1
    /\ ProcessEnds
    /\ UNCHANGED <<logVars, workerVars>>

\* A worker answers a ticket, however late.  The ticket's result template
\* always says attempt 1.
WorkerAnswers(e) ==
    /\ \E ticket \in tickets, outcome \in Outcomes, cost \in Charges :
        /\ ticket[1] = e
        /\ tickets' = tickets \ {ticket}
        /\ file' = [file EXCEPT ![e] = [answers |-> ticket[2], attempt |-> 1,
                                        outcome |-> outcome, cost |-> cost]]
    /\ UNCHANGED <<logVars, pc, localVars, crashes>>

----------------------------------------------------------------------------
HypothesisStage ==
    AcceptHypotheses \/ RefuseHypotheses \/ RecordHypothesis \/ LeaveHypothesizing
PlanningStage ==
    AcceptProposals \/ RefuseProposals \/ RecordProposal \/ LeavePlanning
SelectionStage ==
    SelectExperiments \/ RefuseSelection \/ EnterSelecting \/ ReplanEmpty
DispatchStage == EnterExecuting \/ RecordStart \/ Submit \/ BeginCollecting
CollectStage ==
    \/ TakeResult \/ GiveUpWaiting \/ ScheduleRetry \/ KeepResult
    \/ RestartAttempt \/ RefuseRetry \/ FinishCollecting
ImportStage ==
    ImportOutcome \/ RecordObservation \/ ReconcileResources \/ LeaveExecuting
InterpretStage ==
    \/ BeginJudging \/ Replan \/ PassOver \/ JudgePair \/ EnterFalsifying
    \/ BeginUpdating \/ UpdateBelief \/ ReviseHypothesis \/ EnterUpdating
    \/ FinishUpdating
PhaseStage ==
    \/ EnterPhaseDecision \/ ChangePhase \/ LeavePhaseDecision
    \/ EnterHandoff \/ RefuseBrief \/ RecordBrief \/ LeaveHandoff \/ NoHandoff

\* Every step of the loop's process except its death.
LoopStep ==
    \/ StartLoop \/ BeginRound \/ StopForBudget \/ NextRound \/ EndLoop
    \/ HypothesisStage \/ PlanningStage \/ SelectionStage \/ DispatchStage
    \/ CollectStage \/ ImportStage \/ InterpretStage \/ PhaseStage

Next == LoopStep \/ Crash \/ \E e \in Exps : WorkerAnswers(e)

\* The process runs while it has a step to take, its operator starts it again
\* when it has ended, and a worker answers every ticket in the end.  Nothing is
\* promised about crashes.
Fairness ==
    /\ WF_vars(LoopStep)
    /\ \A e \in Exps : WF_vars(WorkerAnswers(e))

Spec == Init /\ [][Next]_vars
FairSpec == Spec /\ Fairness

----------------------------------------------------------------------------
(***************************************************************************)
(* Properties.  The ones a crash cannot break are checked with crashes; the *)
(* ones that need an undisturbed process say so.                           *)
(***************************************************************************)

\* Every variable keeps the type its comment gives it.
TypeOK ==
    /\ loopState \in LoopStates
    /\ phase \in Phases
    /\ brief \in {"none", "published"}
    /\ hyps \subseteq Hyps
    /\ status \in [Exps -> Statuses]
    /\ attempt \in [Exps -> Nat]
    /\ retries \in [Exps -> Nat]
    /\ obs \in [Exps -> {"none", "completed", "failed"}]
    /\ judged \subseteq Hyps \X Exps
    /\ applied \in [Hyps \X Exps -> Nat]
    /\ revised \subseteq Hyps \X Exps
    /\ used \in Nat /\ cpu \in Nat
    /\ tickets \subseteq Exps \X Nat
    /\ file \in [Exps -> Results \union {NoResult}]
    /\ pc \in PcValues
    /\ cur \in Exps \union {NoExp}
    /\ fresh \in Nat
    /\ batch \subseteq Hyps
    /\ queue \subseteq Exps
    /\ held \in Results \union {NoResult}
    /\ pairs \subseteq Hyps \X Exps
    /\ verdicts \subseteq Hyps \X Exps
    /\ pending \subseteq Exps
    /\ crashes \in Nat

\* The loop never moves outside the table of state_machine.py.  Only _advance
\* and replan consult the table, on the state they read before their first
\* append; the moves of the other events, and of a process resuming another's
\* round, are legal only because of what happened before them.
LegalMoves == [][loopState' # loopState => MayFollow(loopState, loopState')]_vars

\* An observation moves the confidence of a hypothesis at most once, however
\* often the round that judges it is interrupted and resumed; and only a
\* completed experiment designed to test that hypothesis moves it, after the
\* falsifier has spoken.
EvidenceCountedOnce ==
    \A p \in Hyps \X Exps :
        /\ applied[p] <= 1
        /\ applied[p] = 1 => /\ p \in judged
                             /\ p[1] \in Tests[p[2]]
                             /\ status[p[2]] = "completed"
                             /\ obs[p[2]] = "completed"

\* A round nothing interrupts leaves no verdict behind: every pair judged has
\* moved its hypothesis' confidence and its status when the round is over,
\* although the two passes of _interpret are separated by reads of the log.
UninterruptedRoundLosesNothing ==
    (crashes = 0 /\ pc \in {"idle", "begin", "finish"}) =>
        \A p \in judged : applied[p] = 1 /\ p \in revised

\* Exploitation is opened by a brief: until one is in force the run can do
\* nothing but hand off, across any number of restarts; and a brief never
\* outlives the exploitation it was written for.
ExploitationNeedsBrief ==
    /\ brief = "published" => phase = "exploitation"
    /\ (phase = "exploitation" /\ brief = "none")
          => loopState \in {"phase_decision", "exploiter_handoff"}

\* The gate looks at one candidate at a time, so a portfolio can overrun the
\* experiment budget, but by less than one portfolio; and no commitment is
\* counted twice or lost, whatever order rounds are resumed in.
BudgetOvershoot ==
    /\ used = Cardinality({e \in Exps : status[e] \in Settled})
    /\ used <= MaxExperiments + PortfolioSize - 1

\* A hand-over is on record before its side effect: no worker holds a ticket,
\* and no result answers an attempt, that the log does not know of.
LoggedBeforeSideEffect ==
    /\ \A ticket \in tickets : ticket[2] <= attempt[ticket[1]]
    /\ \A e \in Exps :
        /\ file[e] # NoResult => file[e].answers <= attempt[e]
        /\ attempt[e] > 0 => status[e] \in {"running", "completed", "failed"}

\* A second attempt is always paid for first, and retries never exceed what
\* the executor's configuration allows over the whole run.
ChargedBeforeRetry ==
    \A e \in Exps : attempt[e] <= retries[e] + 1 /\ retries[e] <= MaxRetries

\* An experiment has one outcome.  Late answers, answers of earlier attempts
\* and repeated collection never replace an outcome, an observation or a
\* rejection, and a selection is never taken back.
OneOutcome ==
    \A e \in Exps :
        /\ status[e] \in {"completed", "failed", "rejected"} => status'[e] = status[e]
        /\ status[e] \in Settled => status'[e] \in Settled
        /\ obs[e] # "none" => obs'[e] = obs[e]
        /\ obs'[e] # obs[e] => status[e] = obs'[e]

OneOutcomePerExperiment == [][OneOutcome]_vars

\* With a synchronous executor and no interruption the outcome of an
\* experiment is the one of its latest attempt.
ImportedAttemptIsCurrent ==
    [][\A e \in Exps :
         status[e] = "running" /\ status'[e] # "running"
            => held.answers = attempt[e] /\ held.attempt = attempt[e]]_vars

\* A round left to itself comes back: from every state the loop reaches
\* planning again, unless a budget stops it or no brief can be derived.
EveryRoundComesBack ==
    (loopState # "planning") ~> (loopState = "planning" \/ Exhausted \/ HandoffDue)

\* Nobody works on e and there is no result of it: the process died between
\* EXPERIMENT_STARTED and the hand-over.
Unanswerable(e) == file[e] = NoResult /\ \A ticket \in tickets : ticket[1] # e

\* The states no round can resume: run_round has no branch for what an
\* interrupted round left behind, or (in `hypothesizing`) what is on record
\* may leave no room for the batch the generator states next.
Wedged ==
    \/ loopState = "hypothesizing" /\ hyps # {}
    \/ loopState = "scoring" /\ WithStatus("proposed") = {}
    \/ loopState = "selecting" /\ WithStatus("selected") = {}
    \/ loopState = "executing" /\ WithStatus("selected") = {}
         /\ \A e \in WithStatus("running") : Unanswerable(e)
    \/ loopState = "parsing" /\ Unjudged = {}
    \/ loopState = "falsifying" /\ Interpretable = {}
    \/ loopState = "phase_decision" /\ ~HandoffDue
    \/ loopState = "exploiter_handoff"

\* From every state that is not one of those a run is picked up again, after
\* any number of interruptions, until the next one: work in flight, a late
\* worker, a selection not yet dispatched and a half-judged round included.
InterruptedRunComesBack ==
    \A n \in 0..MaxCrashes :
        (crashes = n /\ pc = "idle" /\ ~Wedged)
            ~> (loopState = "planning" \/ Exhausted \/ HandoffDue \/ crashes > n)

\* What autoloop.py claims of an interrupted round, for every state it can be
\* interrupted in.
EveryInterruptedRoundComesBack ==
    (crashes = MaxCrashes /\ pc = "idle")
        ~> (loopState = "planning" \/ Exhausted \/ HandoffDue)

\* A retry that was scheduled, and charged, is started before the process
\* rests: the refusal of a dispatch costs nothing.
RefusedRetryCostsNothing ==
    pc = "idle" => \A e \in Exps : retries[e] > 0 => retries[e] < attempt[e]

\* The result of an experiment the run paid for is collected, however late.
LateResultCollected ==
    \A e \in Exps :
        (status[e] = "running" /\ file[e] # NoResult) ~> (status[e] # "running")

=============================================================================
