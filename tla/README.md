# Verification of the epistemic research loop

TLA+ models, TLC configurations and TLAPS proofs for the research controller in
`src/src/epistemic_loop`. Paths below are relative to that package unless they
start with `src/`.

## 1. The system

A *research run* is one append-only log of events (`events.jsonl`). Nothing else
is authoritative: every operation folds the log into a `RunState`
(`controller/run_state.py`), validates against it, and appends events. The run's
*loop state* is the last `StateChanged` event. `erlctl run loop` drives a run
unattended: it asks a language model for hypotheses and experiments, gates and
selects them, hands them to an executor, collects results, falsifies, updates
beliefs, and decides the phase.

| Component | State | Operations | Status |
|---|---|---|---|
| loop state machine (`controller/state_machine.py`) | none | `transition` | modelled |
| unattended loop (`controller/autoloop.py`, `stop_policy.py`) | local variables of one process | `run`, `run_round`, dispatch and collect, interpret, hand-off | modelled |
| research controller (`controller/research_graph.py`) | the log | `record_*`, `select_experiments`, `dispatch`, `import_result`, `schedule_infrastructure_retry`, `advance_phase`, `handoff_to_exploiter`, `replan`, `finalize` | partly |
| fold of the log (`controller/run_state.py`) | `RunState` | one case per event type | partly |
| phase policy | none | `decide_phase` | partly |
| hard gate and portfolio (`domain/validation.py`, `scoring/selector.py`) | none | `hard_gate`, `select_portfolio` | partly |
| executors (`adapters/executor`) | tickets, result files | `submit`, `result` | partly |
| event store, repository, projection (`storage`) | log files, SQLite tables | `append`, `read_all`, `replay`, `apply`, `rebuild` | partly |
| resource scheduler (`controller/resource_scheduler.py`) with its worker (`adapters/executor/local.py`) | reservations in a locked file | `reserve`, `release`, `reservation`, `can_schedule`, `pressure`, stale removal | partly |
| multi-island control plane, evidence vault, candidate archive | `global_control.json`, evidence files; proposals, reservations and archive in memory | `propose`, `start`, `execute`, `complete`, `promote` | partly |
| structure maturation, validation debts | one JSON file per hypothesis, debt, fork and assessment | `register`, `advance`, `preregister_test`, `create_fork`, `open_debt`, `resolve_requirement`, `assess_promotion` | partly |
| leaderboard gate (`holdout/leaderboard.py`) | query ledger | `evaluate` | partly |
| submission ledger (`adapters/kaggle`, `cli.py`), sealed store | ledger file, sealed scores | `kaggle submit`, `reconcile`, `seal` | partly |
| quality-diversity archive (`qd`), OOF records, finalize | records in the log | `archive_candidate`, `record_oof_*`, `register_final_selection_rule`, `finalize` | partly |
| stagnation and diversity detectors, phase gate | counters in memory | `assess`, `evaluate`, `record` | not modelled |
| scoring, belief arithmetic, benchmark, evaluation, reporting, contamination | none | pure functions | not modelled |

**How they interact.** The loop calls the controller in process; the controller
and the executor meet only through the request the controller builds and the
result file (or ticket) the executor leaves. Nothing is called back. What makes
the system hard is not concurrency inside the process but *resumption*: an
operation appends several events, the process can die between any two of them,
and the next process re-enters the round "from the recorded state rather than
from the assumption that this process started the round" (`autoloop.py:324`).
Workers are concurrent with the loop, answer late, and answer attempts that have
since been retried.

Around that process other `erlctl` processes work on the same files: the logs of
the runs (under a file lock taken per append), the projection over all of them
(no lock), the scheduler's state file (a lock per access), and the submission and
query ledgers (no lock). There each hazard is of one shape: something is read,
decided upon, and written later. The islands are one process, but its operations
are rows of writes to separate files, and what it keeps in memory is lost with it.

**What makes each part correct.**

- *state machine and controller*: every recorded move is in the table, although
  `_advance` checks it against a state read before the operation's first append;
- *evidence*: an observation moves a belief at most once, after its verdict, and
  in a round nothing interrupts it does move it;
- *executor hand-over*: recorded before its side effect, charged before a retry,
  one outcome per experiment;
- *budget*: the gate looks at candidates one at a time; the overrun is bounded;
- *phase and hand-off*: exploitation waits for its brief;
- *progress*: a round comes back to planning, and an interrupted run is resumed;
- *event log*: the chain is never broken; a finalized run takes no events but those
  already admitted; the projection can always be put right;
- *scheduler*: the limits hold together, a reservation stays while it is needed and
  no longer;
- *islands and structures*: a candidate owes for what it uses, a debt blocks what it
  should, the control state agrees with the process;
- *closing a run*: the locked answer is validated and the best; the leaderboard and
  Kaggle are read and used within their budgets, every spend is on record.

The hazards behind these, with the line each bites at, are in `PROJECT.json`.

## 2. Modules

| Module | What it is |
|---|---|
| `LoopStates` | the states of the loop and the table `TRANSITIONS`, as the relation `MayFollow` |
| `ResearchLoop` | the unattended loop, the controller operations it calls, the fold of the log, the executor and its workers |
| `MCResearchLoop` | instances for TLC: hypotheses, which experiment tests what, charges, symmetry |
| `ResearchLoop_proofs` | the inductive invariant and the theorems |
| `History` | abstract: what the repository promises about the history of a run |
| `EventLog` | the logs of several runs and the projection, called by several processes; implements `History` |
| `EventLog_proofs` | its inductive invariant, the refinement, and the projection |
| `Submissions` | `kaggle submit` and `reconcile` over the ledger, the sealed store and Kaggle |
| `Bookings` | abstract: a table of bookings within the limits, each made and given back in one step |
| `ResourceScheduler` | reservations of several controllers and the workers they start; implements `Bookings` |
| `ResourceScheduler_proofs` | its inductive invariant, the theorems, and the refinement |
| `StructureMaturation` | hypotheses, debts, forks and assessments as their files hold them |
| `MultiIsland` | the control plane over `StructureMaturation`, the evidence vault and the candidate archive |
| `Closing` | the calls that end a run, made by several processes: rule, import, archive, OOF, leaderboard, finalize |
| `MultiIsland_proofs`, `Closing_proofs`, `Submissions_proofs` | their inductive invariants and the theorems |
| `Sums` | lemmas: what the fold `SumFunctionOnSet` computes |
| `MCEventLog`, `MCSubmissions`, `MCResourceScheduler`, `MCMultiIsland`, `MCClosing` | instances for TLC |

`ResearchLoop`, `EventLog` and `Closing` are three views of one log. `ResearchLoop`
takes an append for one step, as does `Closing`; `EventLog` shows what that step is
made of, and its refinement of `History` is what the other two rely on.

### 2.1 `ResearchLoop`: state

Three groups of variables, by who keeps them when the process dies.

- **The log** (`loopState`, `phase`, `brief`, `hyps`, `status`, `attempt`,
  `retries`, `obs`, `judged`, `applied`, `revised`, `used`, `cpu`): the fields of
  `RunState` the loop reads. The log itself is not a variable: each append is one
  action that does to these variables what `load_run_state` does for that event.
  `applied` counts the `BELIEF_UPDATED` events of a pair of hypothesis and
  experiment; the code keeps no such count, the confidence moves each time.
- **The workers** (`tickets`, `file`): what the control plane has open, and the
  one result file of each experiment. `file[e].answers` is the attempt the worker
  really worked on, `file[e].attempt` the number written in the file; a ticket's
  template always says 1 (`adapters/executor/ai_dev_control_plane.py:120`).
- **The process** (`pc`, `cur`, `fresh`, `batch`, `queue`, `held`, `pairs`,
  `verdicts`, `pending`): local variables of `run_round` and of the operation it
  is in. `Crash`, like every exception that ends the command, erases them.

### 2.2 `ResearchLoop`: actions

`pc` says which append comes next. An operation's validation and its first append
are one action, since only this process writes to the run; each later append is
an action of its own, and `Crash` is possible before every one.

| Stage | Code | Actions |
|---|---|---|
| start, budget checks | `run`, `_finish` | `StartLoop`, `BeginRound`, `StopForBudget`, `NextRound`, `EndLoop` |
| hypotheses | `record_hypotheses` | `AcceptHypotheses`, `RefuseHypotheses`, `RecordHypothesis`, `LeaveHypothesizing` |
| planning | `record_proposals` | `AcceptProposals`, `RefuseProposals`, `RecordProposal`, `LeavePlanning` |
| selection | `select_experiments`, `replan` | `SelectExperiments`, `RefuseSelection`, `EnterSelecting`, `ReplanEmpty` |
| dispatch | `dispatch`, `submit` | `EnterExecuting`, `RecordStart`, `Submit`, `BeginCollecting` |
| collect and retry | `_await_result`, `schedule_infrastructure_retry`, `dispatch` | `TakeResult`, `GiveUpWaiting`, `ScheduleRetry`, `KeepResult`, `RestartAttempt`, `RefuseRetry`, `FinishCollecting` |
| import | `import_result` | `ImportOutcome`, `RecordObservation`, `ReconcileResources`, `LeaveExecuting` |
| interpret | `_interpret`, `record_falsification`, `record_belief_update`, `replan` | `BeginJudging`, `JudgePair`, `EnterFalsifying`, `BeginUpdating`, `UpdateBelief`, `ReviseHypothesis`, `EnterUpdating`, `FinishUpdating`, `Replan`, `PassOver` |
| phase, hand-off | `advance_phase`, `_handoff_if_due`, `handoff_to_exploiter` | `EnterPhaseDecision`, `ChangePhase`, `LeavePhaseDecision`, `EnterHandoff`, `RefuseBrief`, `RecordBrief`, `LeaveHandoff`, `NoHandoff` |
| environment | | `Crash`, `WorkerAnswers` |

A run starts as `ResearchController.start` leaves it, in `hypothesizing`.

### 2.3 What is abstracted

- What a language model proposes or judges, what a worker reports and what the
  phase evidence says are nondeterministic choices. A batch of hypotheses or
  experiments is never empty: its schema says so (`agents/proposal_bridge.py:28`).
- Which candidates are selected is any choice the gate, the portfolio size and
  `_rejected_reasons` allow; utilities are not computed. `cpu` stands for all the
  resources that are reserved, charged and reconciled alike.
- Experiments are named in the order they are recorded, which is the order of
  the `for` loops over them; hypotheses have no order.
- The round limit, the quiet-round limit and the utility floor can end the loop
  after any round (`EndLoop`). A failing executor or model call is a `Crash`.
- Left out because nothing the loop decides here depends on them: language-model
  token usage, calibration records, QD candidates, validation-world posteriors,
  and the counter-proposals of System C. With the validation worlds go the two
  refusals of `import_result` (`research_graph.py:510-517`): a result whose outcome was
  not preregistered is refused again in every later round, a dead end of the code that
  is outside `Wedged`.

### 2.4 `EventLog`

The log of each run is a sequence of envelopes; `ending` says how its last line ends
on disk, since a process that dies in `Write` leaves nothing, part of a line
(`torn`), or a line without its newline (`bare`), onto which the next envelope is
written. An operation is the list `todo` of the events it appends. Each append goes
through `CheckOpen` or `Refuse` (`repositories.py:22`, shared lock), `Lock` and
`Write` (`event_store.py:53`, exclusive lock), and `Apply` (the projection, no lock).
`Replay`, `Wipe` and `Apply` are `ResearchRepository.replay`. Hashes are injective:
the digest of an envelope is its fields.

`History` has two variables, the entries of each run and who is admitted to add one.
The refinement mapping forgets sequence numbers and hashes, and takes a process
between `CheckOpen` and the end of `Write` for admitted.

### 2.5 `Submissions`

`Check`, `Upload`, `Record`, `Collect` or `TimeOut` are the parts of one submission;
`ReadKnown`, `Fetch`, and one `Repair` per row are one reconciliation. A row of
Kaggle is its place in the list. The client prints the reference of the new row, or
nothing that looks like one, or one of `Strays`: the number of another row, of a row
still to come, or of none. A list may be read before it shows the newest rows. Whether
Kaggle has scored a row when it is looked at is a nondeterministic choice.
`OutsideUpload` is someone using the web site. The existence check and the replacement
in `seal` are one step.

Three variables are there for the properties only: `lost`, the rows whose process died
before it recorded them; `reconciled`, the rows listed to a reconciliation that ran to
its end; `doubtful`, the numbers printed for another row than their own, or waited for
on a list that did not show them.

### 2.6 `ResourceScheduler`

An access is `Enter` (lock, read, drop the dead), one of `Looked`, `Grant`, `Deny`,
`Release` (replace the file, unlock). Between them other processes can only wait,
but may die; `Reuse` gives the number of a dead process to a new controller, which
is how a stale reservation comes to look alive. `workers` are the processes that run,
by the token they were started under: `Die` and `Interrupt` leave them running.
Quantities are naturals.

`Bookings` knows no file, lock or process number. What is booked is within the limits
after each booking; what nobody holds any more may still count, and is cleared some time,
in the step of another booking or of none. The refinement mapping takes the estimates in
the file for the bookings, and a controller holds its booking from the step in which
`reserve` replaces the file to the one in which `release` does.

### 2.7 `StructureMaturation` and `MultiIsland`

`StructureMaturation` has the files and one operator per operation of the
controller; `MultiIsland` composes them with the control plane. An operation does its
checks and its first write in one action and leaves the writes that follow in `todo`,
one action each; `Restart` may come between any two, loses `proposals`,
`reservations` and `archive`, and resets `control` as the constructor does. The
`finally` of `complete` is the `release` at the end of `todo`.

The scheduler is used here only as a place that may have room; its denials are
`ResourceScheduler`'s. The phase gate, duplicate detection, belief islands, leverage
and the critic only restrict which calls succeed; leaving them out allows more.

A structural hypothesis is registered as an observation or as provisional. `register`
takes any lifecycle state for which the contract's fields are filled in; the other
states are reached here through `advance`. An experiment stands for one execution and
has one observation; the code keys evidence by run, experiment and attempt, or by the id
its caller gives, and a second attempt would be another experiment here.

### 2.8 `Closing`

A call reads the state and leaves in `todo` the records it will append, as the code
builds payloads from the state it read at the start. `AppendRecord` is
`ResearchRepository.append` as one step, `Fold` what `load_run_state` does with the
record. `fresh[p]` says whether anyone else has appended since `p` read.

Left out: the record of an OOF analysis and of a revealed score (nothing here reads
them), the contents of artifacts, manifests and submission files (a candidate is
`Reproducible` or not), validation-world weights, calls that begin on a finalized
run, and deaths before the first record of a call. The archive takes candidates in the
order `Made` they were made; `Before` makes experiments finish in a sensible order;
`MaxDiversity` bounds what an analysis measures. `observed` holds completed
observations, while `register_final_selection_rule` is refused after a failed one too
(`research_graph.py:702`), so the model lets a rule in a little later than the code. A
candidate enters the archive with diversity 0, the default of the command, which takes
any value; only analyses raise it here.

## 3. Runs

| Run | Instance | Question |
|---|---|---|
| `resume` | tickets, 2 hypotheses, 3 experiments, portfolios of 2, 1 retry, 2 crashes | what no interruption breaks: `EvidenceCountedOnce`, `ExploitationNeedsBrief`, `LoggedBeforeSideEffect`, `ChargedBeforeRetry`, `LegalMoves`, `OneOutcomePerExperiment` |
| `comes_back` | tickets, 2 hypotheses, 2 experiments, 2 crashes, fair | `InterruptedRunComesBack`: outside the listed dead ends a run is resumed |
| `undisturbed` | synchronous, 2 hypotheses, 3 experiments, 2 retries, charges of 1 or 2, no crash, fair | `UninterruptedRoundLosesNothing`, `ImportedAttemptIsCurrent`, `EveryRoundComesBack` |
| `baseline_arms` | no beliefs, tickets, 4 experiments on a budget of 2, fair | `BudgetOvershoot` with the bound reached, `EveryRoundComesBack` |
| `interrupted_round` | synchronous, 1 experiment, 1 crash, fair | violated: see 3.2 |
| `refused_retry` | synchronous, portfolio of 2, no crash | violated: see 3.2 |
| `late_result` | tickets, no crash, fair | violated: see 3.2 |
| `event_log` | 2 processes, 2 runs, at most 2 events in one before the last call begins, 1 replay, 1 crash, fair | `ChainIntact`, `TerminalUpToRaces`, `PosteriorMovedOnce`, `ReplayPutsRight`, `EveryCallEnds`, `ImplementsHistory` |
| `submissions` | 2 processes, one of them also reconciles, cap 1, 2 files, 3 rows, 1 stray number, 2 days, 1 crash | `SpendRecorded`, `DailyAllowance`, `SameBytesOnce`, `RepairedInFull`, `ScoresMeetTheirArtifacts` |
| `scheduler` | 3 controllers, 3 estimates, 3 reservations, 1 death with a reservation | `WithinLimits`, `ReservationsAreExact`, `SerializedUpToOrphans`, `ImplementsBookings` |
| `islands` | 1 agent, 2 hypotheses, 2 experiments, 1 restart | `CandidatesOwe`, `SharedFactsOweNothing`, `AssessedValidOwesNothing`, `ControlIsTrue` |
| `closing` | 2 processes, 2 candidates in one cell, 1 ensemble, 1 query | `LockedAnswerStands`, `ReadsAreBudgeted`, `OnlyStaleCallsTakeBack` |

`TypeOK` is checked in the first run of each module (`resume`, `event_log`,
`submissions`, `scheduler`, `islands`, `closing`).

**Bounds.** `MaxProposals` bounds the experiments ever proposed and `MaxCrashes`
the deaths inside a round; every other limit is a parameter of the program. Two
hypotheses give the two passes of `_interpret` something to be interrupted
between. Two experiments in a portfolio let the first result move the loop before
the second is collected, and a third lets a later round meet the leftovers. Two
crashes let a resumed round be interrupted again. The runs with crashes have
three experiments or two; one more of either adds interleavings of the same
pairs of experiments.

When `MaxProposals` is used up the designer has nothing new to offer: the loop
then dies of `RefuseProposals` and is started again, so the bound leads to no
deadlock and `planning` is where the liveness properties end.

`MaxActive` is at least the number of hypotheses, so a batch is refused only
next to the remains of an interrupted one.

In `event_log` the first run may still be finalized with two events in its log, three
more, while the other process appends between them; the second run is there so that a
replay of either empties the rows of the other. Two processes are enough for every
race the code has between a check and a write: a third would only repeat one of them.
In `submissions` two uploads race for a cap of one and the third row is the one after a
death, or from outside; two days let a row be recorded on another day than it arrived.
The stray number is 2: printed for the first row it is the number of a row still to
come, or of none, and for the third that of another row. `MaxReconciled = 0`: no
reconciliation starts once one was shown rows and ran to its end, while one cut short by
a death is started again.
In `scheduler` the limits are such that memory, cores, the heavy and the light limit
each refuse something the others admit; three controllers let one hold, one die and one
clean up. In `islands` both experiments are about the first hypothesis, so that a debt
gains a second candidate, and a candidate may use the second hypothesis, about which
nothing else is ever done (`Followed`). In `closing` the second candidate is worse, within
the tolerance, and cheaper, so the two share the slots of one cell.

The runs of these five modules say `CHECK_DEADLOCK FALSE`: with the bounds used up the
system rests.

**Symmetry** (exchanging the two hypotheses in `resume`, files in `submissions`,
controllers in `scheduler`, processes in `closing`) is used in runs without liveness
properties only.

**Fairness** (`FairSpec`). `WF(LoopStep)`: a process that has a step to take
takes it, and an operator (or a supervisor) starts `run loop` again after it
ended. `_await_result` always returns, at the latest at its deadline
(`autoloop.py:160`), so no step waits for ever. `WF(WorkerAnswers(e))`: a worker
answers its ticket in the end. There is no fairness on crashes, on the choice
between outcomes, or on the phase decision.

For `EventLog` fairness is `SF(Step(p))` per process: a process with a call under way
takes its next step again and again possible. Weak fairness would let two processes
starve a third of the lock for ever; the kernel hands a released `flock` to somebody
who waits. No fairness is assumed of `Begin`, `Replay` or `Crash`. The other four
modules have safety properties only.

### 3.1 What passes, and its limits

`InterruptedRunComesBack` speaks of every state except those of `Wedged`, in
which no round has a branch to take. Most dead ends have a way out by hand
(`experiments dispatch --attempt`, `beliefs update`, `run advance`,
`brief create`, because `_advance` does nothing when the loop already stands at
its target); the property is about the unattended loop.

`ImportedAttemptIsCurrent` is about a synchronous executor. With tickets it does
not hold, and the code does not say it should: a result file is named for the
experiment, so the answer of attempt 1 is still there when attempt 2 is awaited.

`EvidenceCountedOnce` says *at most* once. A crash between the two passes of
`_interpret` does lose the evidence of the pairs already judged, as the
observation then counts as judged; `UninterruptedRoundLosesNothing` is therefore
stated without crashes.

Several properties say how far a promise holds, because the code checks in one step
and acts in another:

- `TerminalUpToRaces`: an event may follow `RUN_FINALIZED` if its process was past the
  check, at most one per process. `src/README.md` calls the history terminal.
- `ReplayPutsRight`: the projection of a run may show the status of an earlier event,
  or nothing, until the run is replayed undisturbed; a replay of one run empties the
  rows of all.
- `DailyAllowance`, `SameBytesOnce`: one submission more per racing process and per
  process that died between the upload and the record.
- `ReadsAreBudgeted`: the query ledger can exceed its cap by one per racing process. A
  query made after the run was finalized is in the query ledger and not in the log.
- `RepairedInFull` is about the rows Kaggle showed to the reconciliation. A record that
  carries the number of another row makes that row look known, although its own spend
  may be on no record.
- `ScoresMeetTheirArtifacts` promises nothing for a number in doubt, nor for a score
  sealed under the artifact's own id: without a number the wait takes the newest row,
  whoever submitted it. The comment at `adapters/kaggle/cli.py:90` explains the fallback
  by "an id that will never appear"; the row may only not be listed yet. The score
  sealed then is never replaced, as `seal` refuses an id it has.
- `SerializedUpToOrphans`: `src/docs/capability_matrix.md:115` says heavy and full-scan
  experiments are serialized across controllers. A worker survives its controller,
  and its reservation does not, so a second heavy experiment may run beside it.
- `SharedFactsOweNothing`: `src/docs/capability_matrix.md:128` says an open debt blocks
  promotion to a confirmed fact. The vault goes by the mark the evidence was stored
  with, so an observation stored before its structure had a debt can still be shared.
- `AssessedValidOwesNothing` is about assessments: `advance` lets the owner of a
  hypothesis hand it in as validated without one.
- `LockedAnswerStands`: the winner is the best among the elites of the archive, and
  the archive may have dropped a recorded candidate with a higher utility; what holds
  is that none has a better quality than the winner's utility.
- `OnlyStaleCallsTakeBack`: a call that read the state before another one's record may
  overwrite what that one measured. Any call overtaken since its read is excused, whether
  or not the record it missed is the one it takes back.

### 3.2 Where the code and its documentation part

- `interrupted_round`. `autoloop.py:323` promises that a round survives an
  interruption. If the process dies after `EXPERIMENT_SELECTED` and before the
  move to `selecting`, the run is in `scoring` with no open candidate; every
  later round raises "no proposed experiments are available for selection".
- `refused_retry`. `src/README.md:152` says a refused dispatch costs nothing. The
  loop charges a retry first; when another result of the portfolio has moved the
  loop to `parsing`, the retry's dispatch is refused, and the charge stays.
- `late_result`. `research_graph.py:582` says discarding a late observation would
  lose evidence the run paid for. Selection uses up the experiment budget, so the
  preflight of the next round stops before it looks at results.

### 3.3 Mutants

Operators commented `Slip:` are variants of a definition with a
plausible bug; `PROJECT.json` names, for each property, the slip that breaks it.

## 4. Proofs

Every invariant and every action property of a passing run is also a theorem: the run
shows it on a small instance, the theorem for every value of the constants that the
named assumptions admit. The assumptions are these.

- Sizes, limits and charges are naturals, `MaxActive`, `PortfolioSize`, `DailyCap` and
  `MaximumSize` positive ones; qualities and gains are integers. Every experiment tests
  some hypothesis, every ensemble has a member, and an experiment about a hypothesis is
  proposed by its owner.
- `Hypotheses` is finite, as is `Procs` in `Closing` and `Submissions`, where it is not
  empty either: the bounds there count processes.
- `MaxDays` is at least 1. `Submissions` starts on day 1, and the proof of its type
  invariant failed on the instance that has no days.
- The numbers a Kaggle client may print (`Strays`) are positive.
- Values that stand for "nothing" (`Nobody`, `NoFile`, `NoDebt`) are none of the others.

No proof uses fairness.

### 4.1 `ResearchLoop`

`ResearchLoop_proofs` proves, for every value of the constants that satisfies the
named assumptions of `ResearchLoop` (sizes are naturals, charges are naturals,
every experiment tests some hypothesis):

| Theorem | States |
|---|---|
| `Invariance` | `Spec => []IInv` |
| `TypeCorrect` | `Spec => []TypeOK` |
| `EvidenceIsCountedOnce` | `Spec => []EvidenceCountedOnce` |
| `BudgetIsBounded` | `Spec => []BudgetOvershoot` |
| `BriefOpensExploitation` | `Spec => []ExploitationNeedsBrief` |
| `HandOversAreLogged` | `Spec => []LoggedBeforeSideEffect` |
| `RetriesAreCharged` | `Spec => []ChargedBeforeRetry` |
| `MovesAreLegal` | `Spec => LegalMoves` |
| `OutcomesAreFinal` | `Spec => OneOutcomePerExperiment` |
| `NoVerdictIsLost` | `Spec => []UninterruptedRoundLosesNothing` |
| `LatestAttemptCounts` | `Spec => ImportedAttemptIsCurrent`, assuming `Synchronous` and `MaxCrashes = 0` |

None of these is inductive alone. A step is right because of what the process
read *before* its earlier appends, which the log no longer shows, so `IInv` adds
what holds at each program counter:

- `ControlOK`, where the loop stands. It is what makes the appends after the
  first one legal, for a resumed round too.
- `HandOK`, what is in hand: the experiment handed over or collected is running
  until its outcome is appended; everything still queued is running; an
  observation agrees with its outcome; a retry about to be started is charged.
- `EvidenceOK`, which pairs are before the two passes: those to be judged are not
  judged, those to be applied are not applied, except the one being applied.
- `HandoffOK`, which half of the hand-off is done.

There is one lemma per conjunct, with one step per action. The type lemma is in
two parts, control variables first. Evidence is counted once because
`Unjudged` excludes an observation as soon as one of its pairs is judged, so a
resumed round cannot put a pair back; the budget bound needs the cardinality of
the settled experiments to grow by exactly the portfolio, for which the finite-set
theorems are cited.

The last two theorems have a small invariant of their own beside `IInv`. `VerdictsOK`:
verdicts exist only within the two passes, and until the process dies a judged pair is
in them or done with. `CurrentOK`: until then, with a synchronous executor, the file of a
running experiment answers the attempt on record, but for the one being handed over.

### 4.2 `EventLog`

`EventLog_proofs` proves, for every set of processes and runs and every bound:

| Theorem | States |
|---|---|
| `Invariance` | `Spec => []IInv` |
| `TypeCorrect` | `Spec => []TypeOK` |
| `ChainNeverBreaks` | `Spec => []ChainIntact` |
| `TerminalHistory` | `Spec => []TerminalUpToRaces` |
| `Implements` | `Spec => ImplementsHistory` |
| `PosteriorMovesOnce` | `Spec => []PosteriorMovedOnce` |
| `ReplayRepairs` | `Spec => ReplayPutsRight` |

The chain is safe because of what holds at `write` (`WriterOK`): the process has the
lock, so the line it read is still the last one, and the envelope it built continues
the chain, whether or not the log it verified before is still the same. `Verified` is
then preserved by each of the two ways a log grows, the write and the write cut short.
That a finalized run is terminal up to races needs `AdmittedOK`: a process past the
check has appended nothing since the first `RUN_FINALIZED`, because it passes the check
again for its next event. `Implements` maps each action: `CheckOpen` is an admission,
`Write` and a write cut short are commits, a refused tail and other deaths withdraw,
everything else is a stutter.

The last two are about the projection and have invariants beside `IInv`. `DueOK`: what a
process is about to project is in the log, whoever has appended since it was read.
A posterior moves once, although several processes may project the same event, because
the version grows only with an event that was not yet among the rows and is from then on
(`MovedAt`, whose cardinality bounds the version); a wipe empties both. `SoloOK` is about a replay
that nobody disturbs. After *k* projections it has shown exactly the first *k* events
and its status is the one these give (`Halfway`); the first event of a log is its
creation (`LogStarts`), so there is a status from the first projection on. The last
projection then has to agree with the log as it is, which nobody has changed.

### 4.3 `ResourceScheduler`

`ResourceScheduler_proofs` proves, for every set of controllers, every set of estimates,
every capacity and every bound:

| Theorem | States |
|---|---|
| `Invariance` | `Spec => []IInv` |
| `TypeCorrect` | `Spec => []TypeOK` |
| `FileIsExact` | `Spec => []ReservationsAreExact` |
| `CapacityIsNotExceeded` | `Spec => []WithinLimits` |
| `Serialized` | `Spec => []SerializedUpToOrphans` |
| `Implements` | `Spec => ImplementsBookings` |

A controller decides on the copy it read and then replaces the whole file. `SeenOK` says
why that loses nothing: while it is inside, its copy is part of the file and contains
every reservation somebody holds, because it alone has the lock (`CtlOK`) and because a
controller that holds something is alive, so its entry was not dropped as stale. Tokens
are new (`FreshOK`), so a grant overwrites nothing. `KeptOK` then ties what a controller
holds to the file entry and to the estimate its worker was started with; `Serialized`
follows by mapping the awaited workers into the entries of the file, and counting. The
counts go by the finite-set theorems, the sums of memory, cores and GPU memory by
`Sums`: a part of a state has no higher count or sum, and one more reservation raises
only what `Fits` looked at, by what it looked at.

`Implements` maps each action: a grant is a booking, a release gives one back, a look
clears, a death abandons, and the rest, refusals included, is a stutter. What a controller
has read is what is left when some bookings that nobody holds are cleared, again by
`SeenOK`, and that the bookings are within the limits afterwards is `WithinLimits`.

### 4.4 `MultiIsland`

`MultiIsland_proofs` proves, for every set of agents and experiments, every finite set of
hypotheses, every owner, proposer and number of restarts:

| Theorem | States |
|---|---|
| `Invariance` | `Spec => []IInv` |
| `TypeCorrect` | `Spec => []TypeOK` |
| `EveryCandidateOwes` | `Spec => []CandidatesOwe` |
| `NoDebtorIsShared` | `Spec => []SharedFactsOweNothing` |
| `ValidityIsPaidFor` | `Spec => []AssessedValidOwesNothing` |
| `ControlStateIsTrue` | `Spec => []ControlIsTrue` |

The properties hold between operations, and a restart may come between two writes. The
invariant says what the writes in `todo` still owe: a candidate's debt is on disk or about
to be written (`OwedOK`), the control state is right, has never been told, or is about to
be synchronized (`ControlOK`), and an assessment about to be written has settled its debt
(`AssessedOK`). `TodoOK` has the one fact about order: a debt is written before the
control state is told. `MarksOK` is why the mark of an observation, taken when it is
stored, is good later: a structure whose debt was settled then cannot come into debt
again, and one that had no debt is in `early`, the exception the property names.

### 4.5 `Closing`

`Closing_proofs` proves, for every nonempty finite set of processes, every list of
candidates with whatever traits, every set of ensembles, tolerance and cap:

| Theorem | States |
|---|---|
| `Invariance` | `Spec => []IInv` |
| `TypeCorrect` | `Spec => []TypeOK` |
| `TheAnswerStands` | `Spec => []LockedAnswerStands` |
| `BudgetIsKept` | `Spec => []ReadsAreBudgeted` |
| `OnlyTheOvertakenTakeBack` | `Spec => OnlyStaleCallsTakeBack` |

A call decides once and then appends without looking. Of what it saw, some stays true
whoever appends meanwhile (`RecordOK`: a validated candidate stays so, the queries told
of only grow), the rest while nobody does (`FreshRow`, under `fresh[p]`). `BudgetOK`
counts the reads that have passed the gate as if they were spent. That the winner is the
best needs the archive itself: what `rebuild` keeps, offer by offer. The claim carried along the offers is that
a cell which has had a candidate keeps one whose quality is at least that of every
candidate offered to it.

### 4.6 `Submissions`

`Submissions_proofs` proves, for every nonempty finite set of processes, every set of
files, every cap and every bound:

| Theorem | States |
|---|---|
| `Invariance` | `Spec => []IInv` |
| `TypeCorrect` | `Spec => []TypeOK` |
| `SpendsAreRecorded` | `Spec => []SpendRecorded` |
| `TheCapHolds` | `Spec => []DailyAllowance` |
| `BytesAreGuarded` | `Spec => []SameBytesOnce` |
| `ReconciliationIsComplete` | `Spec => []RepairedInFull` |
| `ScoresAreTheirOwn` | `Spec => []ScoresMeetTheirArtifacts` |

The two bounds are not inductive, since several processes can have passed the same check.
`RoomOnDay` and `RoomForBytes` count them in: the rows that are not lost, with the
processes between the check and the upload. A check restores the bound, because what the
ledger does not say yet is in the hands of the *other* processes, of which there are one
fewer than all (`TodayRecorded`, `OwnRows`, `SpendRecorded`). An upload turns a process
into a row; a death makes the row a lost one, which the properties count separately.
`JobOK` is what a command knows at each step: the row it uploaded is there and under its
own bytes.

A row a reconciliation has passed is on the ledger, so that after row 1 all it was shown is;
records are only ever added, so what was `reconciled` stays so (`PassesOK`). For the
scores, `SealedOK` says what is sealed under each number, and `RecordsOK` that a record
whose number is in no doubt has the bytes of that row. A number becomes doubtful in the
step that prints it for another row, before any record carries it there, or in the one
that seals under it from a list without it; one whose score is sealed already stays out
of that doubt, as `seal` keeps the first.

### 4.7 `Sums`, and induction over data

What a fold computes is defined by recursion, and the library's induction theorems take
an operator the provers cannot instantiate. `Sums` gets there by the smallest
counterexample instead: `WFMin` and the well-founded order of the subsets of a finite set
give `SmallestSubset`, and a set for which the claim fails while it holds for all smaller
ones is refuted by ordinary steps. The fold itself is expanded to the choice it is
defined by. So the sum over a finite set is shown to be the number of units its elements
stand for, and monotonicity and the growth by one element are facts about cardinalities.
`Closing_proofs` takes the candidates in the order they were made in the same way.

### 4.8 Checked by TLC only

The liveness properties `InterruptedRunComesBack`, `EveryRoundComesBack` and
`EveryCallEnds`: their proofs would go through fairness, that is `ENABLED`, which the
provers cannot handle. And the three runs of 3.2, which are counterexamples.

## 5. Not modelled, and what is left

Not modelled: the phase gate's streaks, duplicate and collapse detection, stagnation
counters (detectors of one process, over values a caller hands in); belief islands and
evidence routing (copies of files to their owner); validation-world arithmetic, scoring
and belief updates on floating-point numbers; prompts and parsing of model answers; the
encryption of the sealed store; benchmark and evaluation statistics, reporting,
contamination filters, plug-ins and the scripts that drive them. Most of the lines of
the repository are of this last kind: batch computations over data frames, without state
that outlives them and without concurrency.

Left for later, in this order:

1. the operations of `research_graph.py` called by hand in any loop state: refused calls
   and the events they leave behind;
2. two control planes on one directory;
3. an abstract specification of the submission ledger, as `History` is for the event log
   and `Bookings` for the scheduler.
