------------------------- MODULE ResearchLoop_proofs -------------------------
(***************************************************************************)
(* Proofs about ResearchLoop, for every value of its constants.            *)
(*                                                                         *)
(* None of the safety properties is inductive: what a step may do depends  *)
(* on what the process had read before its earlier appends.  The invariant *)
(* below adds what is known at each program counter: where the loop stands *)
(* (ControlOK), what the process holds in its hand (HandOK), which pairs   *)
(* it may still judge or update (EvidenceOK) and which half of the         *)
(* hand-off is done (HandoffOK).                                           *)
(***************************************************************************)
EXTENDS ResearchLoop, FiniteSetTheorems, TLAPS

HandPcs == {"submit", "triage", "redispatch", "import", "observe", "reconcile",
            "leave_executing"}

\* Where the loop stands whenever the process stands at pc.
ControlOK ==
    /\ pc \in {"hypotheses", "record_hypotheses"} => loopState = "hypothesizing"
    /\ pc \in {"plan", "record_proposals"} => loopState = "planning"
    /\ pc \in {"select", "enter_selecting", "enter_selecting_empty"}
         => loopState = "scoring"
    /\ pc = "replan_empty" => loopState = "selecting"
    /\ pc = "dispatch" => loopState \in {"selecting", "executing"}
    /\ pc = "submit" => loopState = "executing"
    /\ pc \in {"collect", "triage", "redispatch", "import", "observe", "reconcile",
               "leave_executing"} => loopState \in {"selecting", "executing", "parsing"}
    /\ pc \in {"judge", "enter_falsifying"} => loopState \in {"parsing", "falsifying"}
    /\ pc \in {"update", "revise", "enter_updating"}
         => loopState \in {"parsing", "falsifying", "updating"}
    /\ pc \in {"change_phase", "leave_phase_decision"} => loopState = "phase_decision"
    /\ pc \in {"record_brief", "leave_handoff"} => loopState = "exploiter_handoff"

\* What the process holds while it hands an experiment over or collects it.
HandOK ==
    /\ pc \in HandPcs => cur \in Exps
    /\ pc \notin HandPcs => cur = NoExp
    /\ pc \in HandPcs \ {"submit"} => held \in Results
    /\ pc \in {"submit", "triage", "redispatch", "import"} => status[cur] = "running"
    /\ \A e \in queue \ {cur} : status[e] = "running"
    /\ \A e \in Exps : obs[e] # "none" => status[e] = obs[e]
    /\ pc = "observe" =>
         /\ obs[cur] = "none"
         /\ status[cur] = IF held.outcome = "completed" THEN "completed" ELSE "failed"
    /\ pc = "redispatch" => held.attempt = attempt[cur] /\ attempt[cur] <= retries[cur]

\* Which pairs the two passes of _interpret still have before them.
EvidenceOK ==
    /\ EvidenceCountedOnce
    /\ pc \in {"judge", "enter_falsifying"} =>
         \A p \in pairs : /\ p \notin judged
                          /\ p[1] \in Tests[p[2]]
                          /\ obs[p[2]] = "completed"
    /\ \A p \in verdicts :
         /\ p \in judged
         /\ p[1] \in Tests[p[2]]
         /\ applied[p] = 0 \/ (p \in pairs /\ pc \in {"revise", "enter_updating"})

\* Which half of the hand-off is done.
HandoffOK ==
    /\ ExploitationNeedsBrief
    /\ pc \in {"record_brief", "leave_handoff"} => phase = "exploitation"
    /\ pc = "leave_handoff" => brief = "published"
    /\ pc = "leave_phase_decision" => (phase = "exploitation" => brief = "published")

IInv ==
    /\ TypeOK
    /\ ControlOK
    /\ HandOK
    /\ EvidenceOK
    /\ HandoffOK
    /\ LoggedBeforeSideEffect
    /\ ChargedBeforeRetry
    /\ BudgetOvershoot

\* A set of experiments is finite.
LEMMA SubsetsAreFinite ==
    ASSUME NEW S \in SUBSET Exps
    PROVE  IsFiniteSet(S)
<1>1. 1 \in Int /\ MaxProposals \in Int
    BY BoundAssumption
<1>2. IsFiniteSet(1..MaxProposals)
    BY <1>1, FS_Interval
<1>3. QED
    BY <1>2, FS_Subset DEF Exps

\* The control variables keep their types.
LEMMA ControlTypeStep ==
    ASSUME TypeOK, [Next]_vars
    PROVE  /\ pc' \in PcValues
           /\ loopState' \in LoopStates
           /\ phase' \in Phases
<1> USE DEF TypeOK, logVars, localVars, phaseVars, LoopStates, Phases, PcValues
<1>1. CASE StartLoop
    BY <1>1 DEF StartLoop
<1>2. CASE BeginRound
    BY <1>2 DEF BeginRound, Stage
<1>3. CASE StopForBudget
    BY <1>3 DEF StopForBudget, ProcessEnds
<1>4. CASE AcceptHypotheses
    BY <1>4 DEF AcceptHypotheses
<1>5. CASE RefuseHypotheses
    BY <1>5 DEF RefuseHypotheses, ProcessEnds
<1>6. CASE RecordHypothesis
    BY <1>6 DEF RecordHypothesis
<1>7. CASE LeaveHypothesizing
    BY <1>7 DEF LeaveHypothesizing, MoveTo
<1>8. CASE AcceptProposals
    BY <1>8 DEF AcceptProposals
<1>9. CASE RefuseProposals
    BY <1>9 DEF RefuseProposals, ProcessEnds
<1>10. CASE RecordProposal
    BY <1>10 DEF RecordProposal
<1>11. CASE LeavePlanning
    BY <1>11 DEF LeavePlanning, MoveTo
<1>12. CASE SelectExperiments
    BY <1>12 DEF SelectExperiments, Commit
<1>13. CASE RefuseSelection
    BY <1>13 DEF RefuseSelection, ProcessEnds
<1>14. CASE EnterSelecting
    BY <1>14 DEF EnterSelecting, MoveTo
<1>15. CASE ReplanEmpty
    BY <1>15 DEF ReplanEmpty, MoveTo
<1>16. CASE EnterExecuting
    BY <1>16 DEF EnterExecuting, MoveTo
<1>17. CASE RecordStart
    BY <1>17 DEF RecordStart
<1>18. CASE Submit
    BY <1>18 DEF Submit
<1>19. CASE BeginCollecting
    BY <1>19 DEF BeginCollecting
<1>20. CASE TakeResult
    BY <1>20 DEF TakeResult
<1>21. CASE GiveUpWaiting
    BY <1>21 DEF GiveUpWaiting
<1>22. CASE ScheduleRetry
    BY <1>22 DEF ScheduleRetry
<1>23. CASE KeepResult
    BY <1>23 DEF KeepResult
<1>24. CASE RestartAttempt
    BY <1>24 DEF RestartAttempt
<1>25. CASE RefuseRetry
    BY <1>25 DEF RefuseRetry, ProcessEnds
<1>26. CASE FinishCollecting
    BY <1>26 DEF FinishCollecting
<1>27. CASE ImportOutcome
    BY <1>27 DEF ImportOutcome
<1>28. CASE RecordObservation
    BY <1>28 DEF RecordObservation
<1>29. CASE ReconcileResources
    BY <1>29 DEF ReconcileResources
<1>30. CASE LeaveExecuting
    BY <1>30 DEF LeaveExecuting, MoveTo
<1>31. CASE BeginJudging
    BY <1>31 DEF BeginJudging
<1>32. CASE Replan
    BY <1>32 DEF Replan, MoveTo
<1>33. CASE PassOver
    BY <1>33 DEF PassOver
<1>34. CASE JudgePair
    BY <1>34 DEF JudgePair
<1>35. CASE EnterFalsifying
    BY <1>35 DEF EnterFalsifying, MoveTo
<1>36. CASE BeginUpdating
    BY <1>36 DEF BeginUpdating
<1>37. CASE UpdateBelief
    BY <1>37 DEF UpdateBelief
<1>38. CASE ReviseHypothesis
    BY <1>38 DEF ReviseHypothesis
<1>39. CASE EnterUpdating
    BY <1>39 DEF EnterUpdating, MoveTo
<1>40. CASE FinishUpdating
    BY <1>40 DEF FinishUpdating
<1>41. CASE EnterPhaseDecision
    BY <1>41 DEF EnterPhaseDecision, MoveTo
<1>42. CASE ChangePhase
    BY <1>42 DEF ChangePhase, NextPhases
<1>43. CASE LeavePhaseDecision
    BY <1>43 DEF LeavePhaseDecision, MoveTo
<1>44. CASE EnterHandoff
    BY <1>44 DEF EnterHandoff, MoveTo
<1>45. CASE RefuseBrief
    BY <1>45 DEF RefuseBrief, ProcessEnds
<1>46. CASE RecordBrief
    BY <1>46 DEF RecordBrief
<1>47. CASE LeaveHandoff
    BY <1>47 DEF LeaveHandoff, MoveTo
<1>48. CASE NoHandoff
    BY <1>48 DEF NoHandoff
<1>49. CASE NextRound
    BY <1>49 DEF NextRound
<1>50. CASE EndLoop
    BY <1>50 DEF EndLoop, ProcessEnds
<1>51. CASE Crash
    BY <1>51 DEF Crash, ProcessEnds
<1>52. CASE \E e \in Exps : WorkerAnswers(e)
    BY <1>52 DEF WorkerAnswers
<1>53. CASE UNCHANGED vars
    BY <1>53, SMTT(20) DEF vars
<1> QED
    BY <1>1, <1>2, <1>3, <1>4, <1>5, <1>6, <1>7, <1>8, <1>9, <1>10, <1>11,
       <1>12, <1>13, <1>14, <1>15, <1>16, <1>17, <1>18, <1>19, <1>20, <1>21,
       <1>22, <1>23, <1>24, <1>25, <1>26, <1>27, <1>28, <1>29, <1>30, <1>31,
       <1>32, <1>33, <1>34, <1>35, <1>36, <1>37, <1>38, <1>39, <1>40, <1>41,
       <1>42, <1>43, <1>44, <1>45, <1>46, <1>47, <1>48, <1>49, <1>50, <1>51,
       <1>52, <1>53 DEF Next, LoopStep, HypothesisStage, PlanningStage,
       SelectionStage, DispatchStage, CollectStage, ImportStage,
       InterpretStage, PhaseStage

\* Every step keeps the type invariant.
LEMMA TypeStep ==
    ASSUME TypeOK, HandOK, [Next]_vars
    PROVE  TypeOK'
<1>1. pc' \in PcValues /\ loopState' \in LoopStates /\ phase' \in Phases
    BY ControlTypeStep
<1> USE <1>1, ConfigAssumption, BoundAssumption, DesignAssumption
       DEF TypeOK, logVars, workerVars, localVars, evidenceVars, phaseVars, budgetVars
<1>2. CASE StartLoop
    BY <1>2 DEF StartLoop
<1>3. CASE BeginRound
    BY <1>3 DEF BeginRound
<1>4. CASE StopForBudget
    BY <1>4 DEF StopForBudget, ProcessEnds
<1>5. CASE AcceptHypotheses
    BY <1>5 DEF AcceptHypotheses
<1>6. CASE RefuseHypotheses
    BY <1>6 DEF RefuseHypotheses, ProcessEnds
<1>7. CASE RecordHypothesis
    <2>1. hyps' \subseteq Hyps /\ batch' \subseteq Hyps
        BY <1>7 DEF RecordHypothesis
    <2>2. QED
        BY <1>7, <2>1 DEF RecordHypothesis
<1>8. CASE LeaveHypothesizing
    BY <1>8 DEF LeaveHypothesizing, MoveTo
<1>9. CASE AcceptProposals
    <2>1. fresh' \in Nat
        BY <1>9 DEF AcceptProposals
    <2>2. QED
        BY <1>9, <2>1 DEF AcceptProposals
<1>10. CASE RefuseProposals
    BY <1>10 DEF RefuseProposals, ProcessEnds
<1>11. CASE RecordProposal
    BY <1>11 DEF RecordProposal, IsFirst, WithStatus, Statuses
<1>12. CASE LeavePlanning
    BY <1>12 DEF LeavePlanning, MoveTo
<1>13. CASE SelectExperiments
    <2>1. PICK selected \in SUBSET Exps, rejected \in SUBSET Exps :
                 Commit(selected, rejected)
        BY <1>13 DEF SelectExperiments
    <2>2. Cardinality(selected) \in Nat
        BY SubsetsAreFinite, FS_CardinalityType
    <2>3. Estimate * Cardinality(selected) \in Nat
        BY <2>2
    <2> DEFINE reserved == Estimate * Cardinality(selected)
    <2>4. used' = used + Cardinality(selected) /\ cpu' = cpu + reserved
        BY <2>1 DEF Commit
    <2> HIDE DEF reserved
    <2>5. used' \in Nat /\ cpu' \in Nat
        BY <2>2, <2>3, <2>4, SMTT(20) DEF reserved
    <2>6. status' \in [Exps -> Statuses] 
        BY <2>1 DEF Commit, Statuses
    <2>7. QED
        BY <1>13, <2>6, <2>5 DEF SelectExperiments
<1>14. CASE RefuseSelection
    BY <1>14 DEF RefuseSelection, ProcessEnds
<1>15. CASE EnterSelecting
    BY <1>15 DEF EnterSelecting, MoveTo
<1>16. CASE ReplanEmpty
    BY <1>16 DEF ReplanEmpty, MoveTo
<1>17. CASE EnterExecuting
    BY <1>17 DEF EnterExecuting, MoveTo
<1>18. CASE RecordStart
    <2>1. /\ status' \in [Exps -> Statuses]
          /\ attempt' \in [Exps -> Nat]
          /\ cur' \in Exps
        BY <1>18 DEF RecordStart, IsFirst, WithStatus, Statuses
    <2>2. QED
        BY <1>18, <2>1 DEF RecordStart
<1>19. CASE Submit
    <2>1. cur \in Exps /\ attempt[cur] \in Nat
        BY <1>19 DEF Submit, HandOK, HandPcs
    <2>2. \A outcome \in Outcomes, cost \in Charges :
             [answers |-> attempt[cur], attempt |-> attempt[cur],
              outcome |-> outcome, cost |-> cost] \in Results
        BY <2>1 DEF Results
    <2>3. \/ file' = file
          \/ \E result \in Results : file' = [file EXCEPT ![cur] = result]
        BY <1>19, <2>2 DEF Submit
    <2>4. file' \in [Exps -> Results \union {NoResult}]
        BY <2>3
    <2>5. tickets' \subseteq Exps \X Nat
        BY <1>19, <2>1 DEF Submit
    <2>6. QED
        BY <1>19, <2>5, <2>4 DEF Submit
<1>20. CASE BeginCollecting
    BY <1>20 DEF BeginCollecting, WithStatus
<1>21. CASE TakeResult
    BY <1>21 DEF TakeResult, IsFirst
<1>22. CASE GiveUpWaiting
    <2>1. queue' \subseteq Exps /\ pending' \subseteq Exps
        BY <1>22 DEF GiveUpWaiting, IsFirst
    <2>2. QED
        BY <1>22, <2>1 DEF GiveUpWaiting
<1>23. CASE ScheduleRetry
    <2>1. held.cost \in Nat /\ cur \in Exps
        BY <1>23 DEF ScheduleRetry, Results, HandOK, HandPcs
    <2>2. retries[cur] + 1 \in Nat
        BY <2>1
    <2>3. cpu' = cpu + held.cost /\ retries' = [retries EXCEPT ![cur] = retries[cur] + 1]
        BY <1>23 DEF ScheduleRetry
    <2>4. cpu' \in Nat
        BY <2>1, <2>3
    <2>5. retries' \in [Exps -> Nat]
        BY <2>2, <2>3
    <2>6. QED
        BY <1>23, <2>4, <2>5 DEF ScheduleRetry
<1>24. CASE KeepResult
    BY <1>24 DEF KeepResult
<1>25. CASE RestartAttempt
    <2>1. held.attempt \in Nat
        BY <1>25 DEF RestartAttempt, Results, HandOK, HandPcs
    <2>2. held.attempt + 1 \in Nat
        BY <2>1
    <2>3. attempt' = [attempt EXCEPT ![cur] = held.attempt + 1]
        BY <1>25 DEF RestartAttempt
    <2>4. attempt' \in [Exps -> Nat]
        BY <2>2, <2>3
    <2>5. QED
        BY <1>25, <2>4 DEF RestartAttempt
<1>26. CASE RefuseRetry
    BY <1>26 DEF RefuseRetry, ProcessEnds
<1>27. CASE FinishCollecting
    BY <1>27 DEF FinishCollecting
<1>28. CASE ImportOutcome
    BY <1>28 DEF ImportOutcome, Statuses
<1>29. CASE RecordObservation
    BY <1>29 DEF RecordObservation
<1>30. CASE ReconcileResources
    <2>1. held.cost \in Nat
        BY <1>30 DEF ReconcileResources, Results, HandOK, HandPcs
    <2>2. cpu' \in Nat
        BY <1>30, <2>1 DEF ReconcileResources, Reconciled
    <2>3. QED
        BY <1>30, <2>2 DEF ReconcileResources
<1>31. CASE LeaveExecuting
    BY <1>31 DEF LeaveExecuting, MoveTo
<1>32. CASE BeginJudging
    BY <1>32 DEF BeginJudging
<1>33. CASE Replan
    BY <1>33 DEF Replan, MoveTo
<1>34. CASE PassOver
    BY <1>34 DEF PassOver
<1>35. CASE JudgePair
    BY <1>35 DEF JudgePair
<1>36. CASE EnterFalsifying
    BY <1>36 DEF EnterFalsifying, MoveTo
<1>37. CASE BeginUpdating
    BY <1>37 DEF BeginUpdating
<1>38. CASE UpdateBelief
    <2>1. /\ applied' \in [Hyps \X Exps -> Nat]
          /\ pairs' \subseteq Hyps \X Exps
        BY <1>38 DEF UpdateBelief
    <2>2. QED
        BY <1>38, <2>1 DEF UpdateBelief
<1>39. CASE ReviseHypothesis
    BY <1>39 DEF ReviseHypothesis
<1>40. CASE EnterUpdating
    BY <1>40 DEF EnterUpdating, MoveTo
<1>41. CASE FinishUpdating
    BY <1>41 DEF FinishUpdating
<1>42. CASE EnterPhaseDecision
    BY <1>42 DEF EnterPhaseDecision, MoveTo
<1>43. CASE ChangePhase
    BY <1>43 DEF ChangePhase
<1>44. CASE LeavePhaseDecision
    BY <1>44 DEF LeavePhaseDecision, MoveTo
<1>45. CASE EnterHandoff
    BY <1>45 DEF EnterHandoff, MoveTo
<1>46. CASE RefuseBrief
    BY <1>46 DEF RefuseBrief, ProcessEnds
<1>47. CASE RecordBrief
    BY <1>47 DEF RecordBrief
<1>48. CASE LeaveHandoff
    BY <1>48 DEF LeaveHandoff, MoveTo
<1>49. CASE NoHandoff
    BY <1>49 DEF NoHandoff
<1>50. CASE NextRound
    BY <1>50 DEF NextRound
<1>51. CASE EndLoop
    BY <1>51 DEF EndLoop, ProcessEnds
<1>52. CASE Crash
    BY <1>52 DEF Crash, ProcessEnds
<1>53. CASE \E e \in Exps : WorkerAnswers(e)
    <2>1. PICK e \in Exps, ticket \in tickets, outcome \in Outcomes, cost \in Charges :
              /\ tickets' = tickets \ {ticket}
              /\ file' = [file EXCEPT ![e] = [answers |-> ticket[2], attempt |-> 1,
                                              outcome |-> outcome, cost |-> cost]]
              /\ UNCHANGED <<logVars, pc, localVars, crashes>>
        BY <1>53 DEF WorkerAnswers
    <2>2. ticket[2] \in Nat
        OBVIOUS
    <2>3. [answers |-> ticket[2], attempt |-> 1, outcome |-> outcome, cost |-> cost]
             \in Results
        BY <2>2 DEF Results
    <2>4. file' \in [Exps -> Results \union {NoResult}] /\ tickets' \subseteq Exps \X Nat
        BY <2>1, <2>3
    <2>5. QED
        BY <2>1, <2>4
<1>54. CASE UNCHANGED vars
    BY <1>54, SMTT(20) DEF vars
<1> QED
    BY <1>2, <1>3, <1>4, <1>5, <1>6, <1>7, <1>8, <1>9, <1>10, <1>11, <1>12,
       <1>13, <1>14, <1>15, <1>16, <1>17, <1>18, <1>19, <1>20, <1>21, <1>22,
       <1>23, <1>24, <1>25, <1>26, <1>27, <1>28, <1>29, <1>30, <1>31, <1>32,
       <1>33, <1>34, <1>35, <1>36, <1>37, <1>38, <1>39, <1>40, <1>41, <1>42,
       <1>43, <1>44, <1>45, <1>46, <1>47, <1>48, <1>49, <1>50, <1>51, <1>52,
       <1>53, <1>54 DEF Next, LoopStep, HypothesisStage, PlanningStage,
       SelectionStage, DispatchStage, CollectStage, ImportStage,
       InterpretStage, PhaseStage

\* Wherever the process goes, the loop stands where ControlOK says.
LEMMA ControlStep ==
    ASSUME TypeOK, ControlOK, [Next]_vars
    PROVE  ControlOK'
<1> USE DEF ControlOK, logVars, localVars
<1>1. CASE StartLoop
    BY <1>1 DEF StartLoop
<1>2. CASE BeginRound
    BY <1>2 DEF BeginRound, TypeOK, LoopStates, Stage
<1>3. CASE StopForBudget
    BY <1>3 DEF StopForBudget, ProcessEnds
<1>4. CASE AcceptHypotheses
    BY <1>4 DEF AcceptHypotheses
<1>5. CASE RefuseHypotheses
    BY <1>5 DEF RefuseHypotheses, ProcessEnds
<1>6. CASE RecordHypothesis
    BY <1>6 DEF RecordHypothesis
<1>7. CASE LeaveHypothesizing
    BY <1>7 DEF LeaveHypothesizing, MoveTo
<1>8. CASE AcceptProposals
    BY <1>8 DEF AcceptProposals
<1>9. CASE RefuseProposals
    BY <1>9 DEF RefuseProposals, ProcessEnds
<1>10. CASE RecordProposal
    BY <1>10 DEF RecordProposal
<1>11. CASE LeavePlanning
    BY <1>11 DEF LeavePlanning, MoveTo
<1>12. CASE SelectExperiments
    BY <1>12 DEF SelectExperiments, Commit
<1>13. CASE RefuseSelection
    BY <1>13 DEF RefuseSelection, ProcessEnds
<1>14. CASE EnterSelecting
    BY <1>14 DEF EnterSelecting, MoveTo
<1>15. CASE ReplanEmpty
    BY <1>15 DEF ReplanEmpty, MoveTo
<1>16. CASE EnterExecuting
    BY <1>16 DEF EnterExecuting, MoveTo
<1>17. CASE RecordStart
    BY <1>17 DEF RecordStart
<1>18. CASE Submit
    BY <1>18 DEF Submit
<1>19. CASE BeginCollecting
    BY <1>19 DEF BeginCollecting
<1>20. CASE TakeResult
    BY <1>20 DEF TakeResult
<1>21. CASE GiveUpWaiting
    BY <1>21 DEF GiveUpWaiting
<1>22. CASE ScheduleRetry
    BY <1>22 DEF ScheduleRetry
<1>23. CASE KeepResult
    BY <1>23 DEF KeepResult
<1>24. CASE RestartAttempt
    BY <1>24 DEF RestartAttempt
<1>25. CASE RefuseRetry
    BY <1>25 DEF RefuseRetry, ProcessEnds
<1>26. CASE FinishCollecting
    BY <1>26 DEF FinishCollecting
<1>27. CASE ImportOutcome
    BY <1>27 DEF ImportOutcome
<1>28. CASE RecordObservation
    BY <1>28 DEF RecordObservation
<1>29. CASE ReconcileResources
    BY <1>29 DEF ReconcileResources
<1>30. CASE LeaveExecuting
    BY <1>30 DEF LeaveExecuting, MoveTo
<1>31. CASE BeginJudging
    BY <1>31 DEF BeginJudging
<1>32. CASE Replan
    BY <1>32 DEF Replan, MoveTo, ReplanDue
<1>33. CASE PassOver
    BY <1>33 DEF PassOver
<1>34. CASE JudgePair
    BY <1>34 DEF JudgePair
<1>35. CASE EnterFalsifying
    BY <1>35 DEF EnterFalsifying, MoveTo
<1>36. CASE BeginUpdating
    BY <1>36 DEF BeginUpdating
<1>37. CASE UpdateBelief
    BY <1>37 DEF UpdateBelief
<1>38. CASE ReviseHypothesis
    BY <1>38 DEF ReviseHypothesis
<1>39. CASE EnterUpdating
    BY <1>39 DEF EnterUpdating, MoveTo
<1>40. CASE FinishUpdating
    BY <1>40 DEF FinishUpdating
<1>41. CASE EnterPhaseDecision
    BY <1>41 DEF EnterPhaseDecision, MoveTo
<1>42. CASE ChangePhase
    BY <1>42 DEF ChangePhase
<1>43. CASE LeavePhaseDecision
    BY <1>43 DEF LeavePhaseDecision, MoveTo
<1>44. CASE EnterHandoff
    BY <1>44 DEF EnterHandoff, MoveTo
<1>45. CASE RefuseBrief
    BY <1>45 DEF RefuseBrief, ProcessEnds
<1>46. CASE RecordBrief
    BY <1>46 DEF RecordBrief
<1>47. CASE LeaveHandoff
    BY <1>47 DEF LeaveHandoff, MoveTo
<1>48. CASE NoHandoff
    BY <1>48 DEF NoHandoff
<1>49. CASE NextRound
    BY <1>49 DEF NextRound
<1>50. CASE EndLoop
    BY <1>50 DEF EndLoop, ProcessEnds
<1>51. CASE Crash
    BY <1>51 DEF Crash, ProcessEnds
<1>52. CASE \E e \in Exps : WorkerAnswers(e)
    BY <1>52 DEF WorkerAnswers
<1>53. CASE UNCHANGED vars
    BY <1>53, SMTT(20) DEF vars
<1> QED
    BY <1>1, <1>2, <1>3, <1>4, <1>5, <1>6, <1>7, <1>8, <1>9, <1>10, <1>11,
       <1>12, <1>13, <1>14, <1>15, <1>16, <1>17, <1>18, <1>19, <1>20, <1>21,
       <1>22, <1>23, <1>24, <1>25, <1>26, <1>27, <1>28, <1>29, <1>30, <1>31,
       <1>32, <1>33, <1>34, <1>35, <1>36, <1>37, <1>38, <1>39, <1>40, <1>41,
       <1>42, <1>43, <1>44, <1>45, <1>46, <1>47, <1>48, <1>49, <1>50, <1>51,
       <1>52, <1>53 DEF Next, LoopStep, HypothesisStage, PlanningStage,
       SelectionStage, DispatchStage, CollectStage, ImportStage,
       InterpretStage, PhaseStage

\* What the process holds stays what HandOK says, whatever it appends.
LEMMA HandStep ==
    ASSUME TypeOK, HandOK, ChargedBeforeRetry, [Next]_vars
    PROVE  HandOK'
<1>1. /\ NoExp \notin Exps /\ queue \subseteq Exps
      /\ status \in [Exps -> Statuses] /\ attempt \in [Exps -> Nat]
      /\ retries \in [Exps -> Nat] /\ obs \in [Exps -> {"none", "completed", "failed"}]
      /\ file \in [Exps -> Results \union {NoResult}]
    BY DEF TypeOK, Exps, NoExp
<1> USE <1>1 DEF HandOK, HandPcs, logVars, localVars, evidenceVars
<1>2. CASE StartLoop
    BY <1>2 DEF StartLoop
<1>3. CASE BeginRound
    BY <1>3 DEF BeginRound, Stage
<1>4. CASE StopForBudget
    BY <1>4 DEF StopForBudget, ProcessEnds
<1>5. CASE AcceptHypotheses
    BY <1>5 DEF AcceptHypotheses
<1>6. CASE RefuseHypotheses
    BY <1>6 DEF RefuseHypotheses, ProcessEnds
<1>7. CASE RecordHypothesis
    BY <1>7 DEF RecordHypothesis
<1>8. CASE LeaveHypothesizing
    BY <1>8 DEF LeaveHypothesizing, MoveTo
<1>9. CASE AcceptProposals
    BY <1>9 DEF AcceptProposals
<1>10. CASE RefuseProposals
    BY <1>10 DEF RefuseProposals, ProcessEnds
<1>11. CASE RecordProposal
    BY <1>11 DEF RecordProposal, IsFirst, WithStatus
<1>12. CASE LeavePlanning
    BY <1>12 DEF LeavePlanning, MoveTo
<1>13. CASE SelectExperiments
    BY <1>13 DEF SelectExperiments, Commit, IsDecision, WithStatus
<1>14. CASE RefuseSelection
    BY <1>14 DEF RefuseSelection, ProcessEnds
<1>15. CASE EnterSelecting
    BY <1>15 DEF EnterSelecting, MoveTo
<1>16. CASE ReplanEmpty
    BY <1>16 DEF ReplanEmpty, MoveTo
<1>17. CASE EnterExecuting
    BY <1>17 DEF EnterExecuting, MoveTo
<1>18. CASE RecordStart
    BY <1>18 DEF RecordStart, IsFirst, WithStatus
<1>19. CASE Submit
    BY <1>19 DEF Submit
<1>20. CASE BeginCollecting
    BY <1>20 DEF BeginCollecting, WithStatus
<1>21. CASE TakeResult
    BY <1>21 DEF TakeResult, IsFirst
<1>22. CASE GiveUpWaiting
    BY <1>22 DEF GiveUpWaiting, IsFirst
<1>23. CASE ScheduleRetry
    BY <1>23 DEF ScheduleRetry, ChargedBeforeRetry, RetryAllowed
<1>24. CASE KeepResult
    BY <1>24 DEF KeepResult
<1>25. CASE RestartAttempt
    BY <1>25 DEF RestartAttempt
<1>26. CASE RefuseRetry
    BY <1>26 DEF RefuseRetry, ProcessEnds
<1>27. CASE FinishCollecting
    BY <1>27 DEF FinishCollecting
<1>28. CASE ImportOutcome
    BY <1>28 DEF ImportOutcome
<1>29. CASE RecordObservation
    BY <1>29 DEF RecordObservation
<1>30. CASE ReconcileResources
    BY <1>30 DEF ReconcileResources
<1>31. CASE LeaveExecuting
    BY <1>31 DEF LeaveExecuting, MoveTo
<1>32. CASE BeginJudging
    BY <1>32 DEF BeginJudging
<1>33. CASE Replan
    BY <1>33 DEF Replan, MoveTo
<1>34. CASE PassOver
    BY <1>34 DEF PassOver
<1>35. CASE JudgePair
    BY <1>35 DEF JudgePair
<1>36. CASE EnterFalsifying
    BY <1>36 DEF EnterFalsifying, MoveTo
<1>37. CASE BeginUpdating
    BY <1>37 DEF BeginUpdating
<1>38. CASE UpdateBelief
    BY <1>38 DEF UpdateBelief
<1>39. CASE ReviseHypothesis
    BY <1>39 DEF ReviseHypothesis
<1>40. CASE EnterUpdating
    BY <1>40 DEF EnterUpdating, MoveTo
<1>41. CASE FinishUpdating
    BY <1>41 DEF FinishUpdating
<1>42. CASE EnterPhaseDecision
    BY <1>42 DEF EnterPhaseDecision, MoveTo
<1>43. CASE ChangePhase
    BY <1>43 DEF ChangePhase
<1>44. CASE LeavePhaseDecision
    BY <1>44 DEF LeavePhaseDecision, MoveTo
<1>45. CASE EnterHandoff
    BY <1>45 DEF EnterHandoff, MoveTo
<1>46. CASE RefuseBrief
    BY <1>46 DEF RefuseBrief, ProcessEnds
<1>47. CASE RecordBrief
    BY <1>47 DEF RecordBrief
<1>48. CASE LeaveHandoff
    BY <1>48 DEF LeaveHandoff, MoveTo
<1>49. CASE NoHandoff
    BY <1>49 DEF NoHandoff
<1>50. CASE NextRound
    BY <1>50 DEF NextRound
<1>51. CASE EndLoop
    BY <1>51 DEF EndLoop, ProcessEnds
<1>52. CASE Crash
    BY <1>52 DEF Crash, ProcessEnds
<1>53. CASE \E e \in Exps : WorkerAnswers(e)
    BY <1>53 DEF WorkerAnswers
<1>54. CASE UNCHANGED vars
    BY <1>54, SMTT(20) DEF vars
<1> QED
    BY <1>2, <1>3, <1>4, <1>5, <1>6, <1>7, <1>8, <1>9, <1>10, <1>11, <1>12,
       <1>13, <1>14, <1>15, <1>16, <1>17, <1>18, <1>19, <1>20, <1>21, <1>22,
       <1>23, <1>24, <1>25, <1>26, <1>27, <1>28, <1>29, <1>30, <1>31, <1>32,
       <1>33, <1>34, <1>35, <1>36, <1>37, <1>38, <1>39, <1>40, <1>41, <1>42,
       <1>43, <1>44, <1>45, <1>46, <1>47, <1>48, <1>49, <1>50, <1>51, <1>52,
       <1>53, <1>54 DEF Next, LoopStep, HypothesisStage, PlanningStage,
       SelectionStage, DispatchStage, CollectStage, ImportStage,
       InterpretStage, PhaseStage

\* The pairs still to be judged are unjudged, the verdicts still to be applied unapplied.
LEMMA EvidenceStep ==
    ASSUME TypeOK, HandOK, EvidenceOK, [Next]_vars
    PROVE  EvidenceOK'
<1>1. /\ status \in [Exps -> Statuses] /\ obs \in [Exps -> {"none", "completed", "failed"}]
      /\ judged \subseteq Hyps \X Exps /\ applied \in [Hyps \X Exps -> Nat]
      /\ pairs \subseteq Hyps \X Exps /\ verdicts \subseteq Hyps \X Exps
    BY DEF TypeOK
<1>2. \A e \in Exps : obs[e] # "none" => status[e] = obs[e]
    BY DEF HandOK
<1> USE <1>1, <1>2 DEF EvidenceOK, EvidenceCountedOnce, logVars, localVars, evidenceVars
<1>3. CASE StartLoop
    BY <1>3 DEF StartLoop
<1>4. CASE BeginRound
    BY <1>4 DEF BeginRound, Stage
<1>5. CASE StopForBudget
    BY <1>5 DEF StopForBudget, ProcessEnds
<1>6. CASE AcceptHypotheses
    BY <1>6 DEF AcceptHypotheses
<1>7. CASE RefuseHypotheses
    BY <1>7 DEF RefuseHypotheses, ProcessEnds
<1>8. CASE RecordHypothesis
    BY <1>8 DEF RecordHypothesis
<1>9. CASE LeaveHypothesizing
    BY <1>9 DEF LeaveHypothesizing, MoveTo
<1>10. CASE AcceptProposals
    BY <1>10 DEF AcceptProposals
<1>11. CASE RefuseProposals
    BY <1>11 DEF RefuseProposals, ProcessEnds
<1>12. CASE RecordProposal
    BY <1>12 DEF RecordProposal, IsFirst, WithStatus
<1>13. CASE LeavePlanning
    BY <1>13 DEF LeavePlanning, MoveTo
<1>14. CASE SelectExperiments
    BY <1>14 DEF SelectExperiments, Commit, IsDecision, WithStatus
<1>15. CASE RefuseSelection
    BY <1>15 DEF RefuseSelection, ProcessEnds
<1>16. CASE EnterSelecting
    BY <1>16 DEF EnterSelecting, MoveTo
<1>17. CASE ReplanEmpty
    BY <1>17 DEF ReplanEmpty, MoveTo
<1>18. CASE EnterExecuting
    BY <1>18 DEF EnterExecuting, MoveTo
<1>19. CASE RecordStart
    BY <1>19 DEF RecordStart, IsFirst, WithStatus
<1>20. CASE Submit
    BY <1>20 DEF Submit
<1>21. CASE BeginCollecting
    BY <1>21 DEF BeginCollecting
<1>22. CASE TakeResult
    BY <1>22 DEF TakeResult
<1>23. CASE GiveUpWaiting
    BY <1>23 DEF GiveUpWaiting
<1>24. CASE ScheduleRetry
    BY <1>24 DEF ScheduleRetry
<1>25. CASE KeepResult
    BY <1>25 DEF KeepResult
<1>26. CASE RestartAttempt
    BY <1>26 DEF RestartAttempt
<1>27. CASE RefuseRetry
    BY <1>27 DEF RefuseRetry, ProcessEnds
<1>28. CASE FinishCollecting
    BY <1>28 DEF FinishCollecting
<1>29. CASE ImportOutcome
    BY <1>29 DEF ImportOutcome, HandOK, HandPcs
<1>30. CASE RecordObservation
    BY <1>30 DEF RecordObservation, HandOK, HandPcs
<1>31. CASE ReconcileResources
    BY <1>31 DEF ReconcileResources
<1>32. CASE LeaveExecuting
    BY <1>32 DEF LeaveExecuting, MoveTo
<1>33. CASE BeginJudging
    <2>1. ASSUME NEW p \in pairs'
          PROVE  p \notin judged' /\ p[1] \in Tests[p[2]] /\ obs'[p[2]] = "completed"
        <3>1. /\ p \in Hyps \X Exps /\ p[2] \in Interpretable /\ p[1] \in Tests[p[2]]
              /\ judged' = judged /\ obs' = obs
            BY <1>33 DEF BeginJudging
        <3>2. p[1] \in Hyps /\ p = <<p[1], p[2]>>
            BY <3>1
        <3>3. p[2] \in Unjudged /\ obs[p[2]] = "completed"
            BY <3>1 DEF Interpretable
        <3>4. <<p[1], p[2]>> \notin judged
            BY <3>2, <3>3 DEF Unjudged
        <3>5. QED
            BY <3>1, <3>2, <3>3, <3>4
    <2>2. EvidenceCountedOnce'
        BY <1>33 DEF BeginJudging
    <2>3. \A p \in verdicts' : /\ p \in judged' /\ p[1] \in Tests[p[2]]
                             /\ applied'[p] = 0
        BY <1>33 DEF BeginJudging
    <2>4. QED
        BY <2>1, <2>2, <2>3
<1>34. CASE Replan
    BY <1>34 DEF Replan, MoveTo
<1>35. CASE PassOver
    BY <1>35 DEF PassOver
<1>36. CASE JudgePair
    BY <1>36 DEF JudgePair
<1>37. CASE EnterFalsifying
    BY <1>37 DEF EnterFalsifying, MoveTo
<1>38. CASE BeginUpdating
    BY <1>38 DEF BeginUpdating
<1>39. CASE UpdateBelief
    BY <1>39 DEF UpdateBelief
<1>40. CASE ReviseHypothesis
    BY <1>40 DEF ReviseHypothesis
<1>41. CASE EnterUpdating
    BY <1>41 DEF EnterUpdating, MoveTo
<1>42. CASE FinishUpdating
    BY <1>42 DEF FinishUpdating
<1>43. CASE EnterPhaseDecision
    BY <1>43 DEF EnterPhaseDecision, MoveTo
<1>44. CASE ChangePhase
    BY <1>44 DEF ChangePhase
<1>45. CASE LeavePhaseDecision
    BY <1>45 DEF LeavePhaseDecision, MoveTo
<1>46. CASE EnterHandoff
    BY <1>46 DEF EnterHandoff, MoveTo
<1>47. CASE RefuseBrief
    BY <1>47 DEF RefuseBrief, ProcessEnds
<1>48. CASE RecordBrief
    BY <1>48 DEF RecordBrief
<1>49. CASE LeaveHandoff
    BY <1>49 DEF LeaveHandoff, MoveTo
<1>50. CASE NoHandoff
    BY <1>50 DEF NoHandoff
<1>51. CASE NextRound
    BY <1>51 DEF NextRound
<1>52. CASE EndLoop
    BY <1>52 DEF EndLoop, ProcessEnds
<1>53. CASE Crash
    BY <1>53 DEF Crash, ProcessEnds
<1>54. CASE \E e \in Exps : WorkerAnswers(e)
    BY <1>54 DEF WorkerAnswers
<1>55. CASE UNCHANGED vars
    BY <1>55, SMTT(20) DEF vars
<1> QED
    BY <1>3, <1>4, <1>5, <1>6, <1>7, <1>8, <1>9, <1>10, <1>11, <1>12, <1>13,
       <1>14, <1>15, <1>16, <1>17, <1>18, <1>19, <1>20, <1>21, <1>22, <1>23,
       <1>24, <1>25, <1>26, <1>27, <1>28, <1>29, <1>30, <1>31, <1>32, <1>33,
       <1>34, <1>35, <1>36, <1>37, <1>38, <1>39, <1>40, <1>41, <1>42, <1>43,
       <1>44, <1>45, <1>46, <1>47, <1>48, <1>49, <1>50, <1>51, <1>52, <1>53,
       <1>54, <1>55 DEF Next, LoopStep, HypothesisStage, PlanningStage,
       SelectionStage, DispatchStage, CollectStage, ImportStage,
       InterpretStage, PhaseStage

\* A brief is published before exploitation goes on and retired when it ends.
LEMMA HandoffStep ==
    ASSUME TypeOK, ControlOK, HandoffOK, [Next]_vars
    PROVE  HandoffOK'
<1>1. brief \in {"none", "published"} /\ phase \in Phases
    BY DEF TypeOK
<1> USE <1>1 DEF HandoffOK, ExploitationNeedsBrief, ControlOK, Phases, logVars, localVars, phaseVars
<1>2. CASE StartLoop
    BY <1>2 DEF StartLoop
<1>3. CASE BeginRound
    BY <1>3 DEF BeginRound, Stage
<1>4. CASE StopForBudget
    BY <1>4 DEF StopForBudget, ProcessEnds
<1>5. CASE AcceptHypotheses
    BY <1>5 DEF AcceptHypotheses
<1>6. CASE RefuseHypotheses
    BY <1>6 DEF RefuseHypotheses, ProcessEnds
<1>7. CASE RecordHypothesis
    BY <1>7 DEF RecordHypothesis
<1>8. CASE LeaveHypothesizing
    BY <1>8 DEF LeaveHypothesizing, MoveTo
<1>9. CASE AcceptProposals
    BY <1>9 DEF AcceptProposals
<1>10. CASE RefuseProposals
    BY <1>10 DEF RefuseProposals, ProcessEnds
<1>11. CASE RecordProposal
    BY <1>11 DEF RecordProposal
<1>12. CASE LeavePlanning
    BY <1>12 DEF LeavePlanning, MoveTo
<1>13. CASE SelectExperiments
    BY <1>13 DEF SelectExperiments, Commit
<1>14. CASE RefuseSelection
    BY <1>14 DEF RefuseSelection, ProcessEnds
<1>15. CASE EnterSelecting
    BY <1>15 DEF EnterSelecting, MoveTo
<1>16. CASE ReplanEmpty
    BY <1>16 DEF ReplanEmpty, MoveTo
<1>17. CASE EnterExecuting
    BY <1>17 DEF EnterExecuting, MoveTo
<1>18. CASE RecordStart
    BY <1>18 DEF RecordStart
<1>19. CASE Submit
    BY <1>19 DEF Submit
<1>20. CASE BeginCollecting
    BY <1>20 DEF BeginCollecting
<1>21. CASE TakeResult
    BY <1>21 DEF TakeResult
<1>22. CASE GiveUpWaiting
    BY <1>22 DEF GiveUpWaiting
<1>23. CASE ScheduleRetry
    BY <1>23 DEF ScheduleRetry
<1>24. CASE KeepResult
    BY <1>24 DEF KeepResult
<1>25. CASE RestartAttempt
    BY <1>25 DEF RestartAttempt
<1>26. CASE RefuseRetry
    BY <1>26 DEF RefuseRetry, ProcessEnds
<1>27. CASE FinishCollecting
    BY <1>27 DEF FinishCollecting
<1>28. CASE ImportOutcome
    BY <1>28 DEF ImportOutcome
<1>29. CASE RecordObservation
    BY <1>29 DEF RecordObservation
<1>30. CASE ReconcileResources
    BY <1>30 DEF ReconcileResources
<1>31. CASE LeaveExecuting
    BY <1>31 DEF LeaveExecuting, MoveTo
<1>32. CASE BeginJudging
    BY <1>32 DEF BeginJudging
<1>33. CASE Replan
    BY <1>33 DEF Replan, MoveTo, ReplanDue
<1>34. CASE PassOver
    BY <1>34 DEF PassOver
<1>35. CASE JudgePair
    BY <1>35 DEF JudgePair
<1>36. CASE EnterFalsifying
    BY <1>36 DEF EnterFalsifying, MoveTo
<1>37. CASE BeginUpdating
    BY <1>37 DEF BeginUpdating
<1>38. CASE UpdateBelief
    BY <1>38 DEF UpdateBelief
<1>39. CASE ReviseHypothesis
    BY <1>39 DEF ReviseHypothesis
<1>40. CASE EnterUpdating
    BY <1>40 DEF EnterUpdating, MoveTo
<1>41. CASE FinishUpdating
    BY <1>41 DEF FinishUpdating
<1>42. CASE EnterPhaseDecision
    BY <1>42 DEF EnterPhaseDecision, MoveTo
<1>43. CASE ChangePhase
    BY <1>43 DEF ChangePhase, NextPhases
<1>44. CASE LeavePhaseDecision
    BY <1>44 DEF LeavePhaseDecision, MoveTo
<1>45. CASE EnterHandoff
    BY <1>45 DEF EnterHandoff, MoveTo, HandoffDue
<1>46. CASE RefuseBrief
    BY <1>46 DEF RefuseBrief, ProcessEnds
<1>47. CASE RecordBrief
    BY <1>47 DEF RecordBrief
<1>48. CASE LeaveHandoff
    BY <1>48 DEF LeaveHandoff, MoveTo
<1>49. CASE NoHandoff
    BY <1>49 DEF NoHandoff
<1>50. CASE NextRound
    BY <1>50 DEF NextRound
<1>51. CASE EndLoop
    BY <1>51 DEF EndLoop, ProcessEnds
<1>52. CASE Crash
    BY <1>52 DEF Crash, ProcessEnds
<1>53. CASE \E e \in Exps : WorkerAnswers(e)
    BY <1>53 DEF WorkerAnswers
<1>54. CASE UNCHANGED vars
    BY <1>54, SMTT(20) DEF vars
<1> QED
    BY <1>2, <1>3, <1>4, <1>5, <1>6, <1>7, <1>8, <1>9, <1>10, <1>11, <1>12,
       <1>13, <1>14, <1>15, <1>16, <1>17, <1>18, <1>19, <1>20, <1>21, <1>22,
       <1>23, <1>24, <1>25, <1>26, <1>27, <1>28, <1>29, <1>30, <1>31, <1>32,
       <1>33, <1>34, <1>35, <1>36, <1>37, <1>38, <1>39, <1>40, <1>41, <1>42,
       <1>43, <1>44, <1>45, <1>46, <1>47, <1>48, <1>49, <1>50, <1>51, <1>52,
       <1>53, <1>54 DEF Next, LoopStep, HypothesisStage, PlanningStage,
       SelectionStage, DispatchStage, CollectStage, ImportStage,
       InterpretStage, PhaseStage

\* Nothing reaches a worker before the log knows of it.
LEMMA LoggedStep ==
    ASSUME TypeOK, HandOK, LoggedBeforeSideEffect, [Next]_vars
    PROVE  LoggedBeforeSideEffect'
<1>1. /\ status \in [Exps -> Statuses] /\ attempt \in [Exps -> Nat]
      /\ file \in [Exps -> Results \union {NoResult}]
      /\ tickets \subseteq Exps \X Nat
    BY DEF TypeOK
<1> USE <1>1 DEF LoggedBeforeSideEffect, logVars, workerVars
<1>2. CASE StartLoop
    BY <1>2 DEF StartLoop
<1>3. CASE BeginRound
    BY <1>3 DEF BeginRound, Stage
<1>4. CASE StopForBudget
    BY <1>4 DEF StopForBudget, ProcessEnds
<1>5. CASE AcceptHypotheses
    BY <1>5 DEF AcceptHypotheses
<1>6. CASE RefuseHypotheses
    BY <1>6 DEF RefuseHypotheses, ProcessEnds
<1>7. CASE RecordHypothesis
    BY <1>7 DEF RecordHypothesis
<1>8. CASE LeaveHypothesizing
    BY <1>8 DEF LeaveHypothesizing, MoveTo
<1>9. CASE AcceptProposals
    BY <1>9 DEF AcceptProposals
<1>10. CASE RefuseProposals
    BY <1>10 DEF RefuseProposals, ProcessEnds
<1>11. CASE RecordProposal
    BY <1>11 DEF RecordProposal, IsFirst, WithStatus
<1>12. CASE LeavePlanning
    BY <1>12 DEF LeavePlanning, MoveTo
<1>13. CASE SelectExperiments
    BY <1>13 DEF SelectExperiments, Commit, IsDecision, WithStatus
<1>14. CASE RefuseSelection
    BY <1>14 DEF RefuseSelection, ProcessEnds
<1>15. CASE EnterSelecting
    BY <1>15 DEF EnterSelecting, MoveTo
<1>16. CASE ReplanEmpty
    BY <1>16 DEF ReplanEmpty, MoveTo
<1>17. CASE EnterExecuting
    BY <1>17 DEF EnterExecuting, MoveTo
<1>18. CASE RecordStart
    <2>1. PICK e \in Exps : /\ status[e] = "selected"
                             /\ status' = [status EXCEPT ![e] = "running"]
                             /\ attempt' = [attempt EXCEPT ![e] = 1]
        BY <1>18 DEF RecordStart, IsFirst, WithStatus
    <2>2. attempt[e] = 0
        BY <2>1
    <2>3. \A f \in Exps : /\ attempt[f] \in Nat /\ attempt'[f] \in Nat
                        /\ attempt[f] <= attempt'[f]
        BY <2>1, <2>2
    <2>4. ASSUME NEW f \in Exps, file[f] # NoResult
          PROVE  file[f].answers <= attempt'[f]
        <3>1. file[f].answers \in Nat /\ file[f].answers <= attempt[f]
            BY <2>4 DEF Results
        <3>2. QED
            BY <2>3, <3>1
    <2>5. ASSUME NEW ticket \in tickets
          PROVE  ticket[2] <= attempt'[ticket[1]]
        <3>1. /\ ticket[1] \in Exps /\ ticket[2] \in Nat
              /\ ticket[2] <= attempt[ticket[1]]
            OBVIOUS
        <3>2. QED
            BY <2>3, <3>1
    <2>6. QED
        BY <1>18, <2>1, <2>4, <2>5 DEF RecordStart
<1>19. CASE Submit
    BY <1>19 DEF Submit, HandOK, HandPcs
<1>20. CASE BeginCollecting
    BY <1>20 DEF BeginCollecting
<1>21. CASE TakeResult
    BY <1>21 DEF TakeResult
<1>22. CASE GiveUpWaiting
    BY <1>22 DEF GiveUpWaiting
<1>23. CASE ScheduleRetry
    BY <1>23 DEF ScheduleRetry
<1>24. CASE KeepResult
    BY <1>24 DEF KeepResult
<1>25. CASE RestartAttempt
    BY <1>25 DEF RestartAttempt, HandOK, HandPcs, Results
<1>26. CASE RefuseRetry
    BY <1>26 DEF RefuseRetry, ProcessEnds
<1>27. CASE FinishCollecting
    BY <1>27 DEF FinishCollecting
<1>28. CASE ImportOutcome
    BY <1>28 DEF ImportOutcome, HandOK, HandPcs
<1>29. CASE RecordObservation
    BY <1>29 DEF RecordObservation
<1>30. CASE ReconcileResources
    BY <1>30 DEF ReconcileResources
<1>31. CASE LeaveExecuting
    BY <1>31 DEF LeaveExecuting, MoveTo
<1>32. CASE BeginJudging
    BY <1>32 DEF BeginJudging
<1>33. CASE Replan
    BY <1>33 DEF Replan, MoveTo
<1>34. CASE PassOver
    BY <1>34 DEF PassOver
<1>35. CASE JudgePair
    BY <1>35 DEF JudgePair
<1>36. CASE EnterFalsifying
    BY <1>36 DEF EnterFalsifying, MoveTo
<1>37. CASE BeginUpdating
    BY <1>37 DEF BeginUpdating
<1>38. CASE UpdateBelief
    BY <1>38 DEF UpdateBelief
<1>39. CASE ReviseHypothesis
    BY <1>39 DEF ReviseHypothesis
<1>40. CASE EnterUpdating
    BY <1>40 DEF EnterUpdating, MoveTo
<1>41. CASE FinishUpdating
    BY <1>41 DEF FinishUpdating
<1>42. CASE EnterPhaseDecision
    BY <1>42 DEF EnterPhaseDecision, MoveTo
<1>43. CASE ChangePhase
    BY <1>43 DEF ChangePhase
<1>44. CASE LeavePhaseDecision
    BY <1>44 DEF LeavePhaseDecision, MoveTo
<1>45. CASE EnterHandoff
    BY <1>45 DEF EnterHandoff, MoveTo
<1>46. CASE RefuseBrief
    BY <1>46 DEF RefuseBrief, ProcessEnds
<1>47. CASE RecordBrief
    BY <1>47 DEF RecordBrief
<1>48. CASE LeaveHandoff
    BY <1>48 DEF LeaveHandoff, MoveTo
<1>49. CASE NoHandoff
    BY <1>49 DEF NoHandoff
<1>50. CASE NextRound
    BY <1>50 DEF NextRound
<1>51. CASE EndLoop
    BY <1>51 DEF EndLoop, ProcessEnds
<1>52. CASE Crash
    BY <1>52 DEF Crash, ProcessEnds
<1>53. CASE \E e \in Exps : WorkerAnswers(e)
    BY <1>53 DEF WorkerAnswers
<1>54. CASE UNCHANGED vars
    BY <1>54, SMTT(20) DEF vars
<1> QED
    BY <1>2, <1>3, <1>4, <1>5, <1>6, <1>7, <1>8, <1>9, <1>10, <1>11, <1>12,
       <1>13, <1>14, <1>15, <1>16, <1>17, <1>18, <1>19, <1>20, <1>21, <1>22,
       <1>23, <1>24, <1>25, <1>26, <1>27, <1>28, <1>29, <1>30, <1>31, <1>32,
       <1>33, <1>34, <1>35, <1>36, <1>37, <1>38, <1>39, <1>40, <1>41, <1>42,
       <1>43, <1>44, <1>45, <1>46, <1>47, <1>48, <1>49, <1>50, <1>51, <1>52,
       <1>53, <1>54 DEF Next, LoopStep, HypothesisStage, PlanningStage,
       SelectionStage, DispatchStage, CollectStage, ImportStage,
       InterpretStage, PhaseStage

\* A second attempt is started only after a retry was charged.
LEMMA ChargedStep ==
    ASSUME TypeOK, HandOK, ChargedBeforeRetry, [Next]_vars
    PROVE  ChargedBeforeRetry'
<1>1. retries \in [Exps -> Nat] /\ attempt \in [Exps -> Nat] /\ MaxRetries \in Nat
    BY ConfigAssumption DEF TypeOK
<1> USE <1>1 DEF ChargedBeforeRetry, logVars
<1>2. CASE StartLoop
    BY <1>2 DEF StartLoop
<1>3. CASE BeginRound
    BY <1>3 DEF BeginRound
<1>4. CASE StopForBudget
    BY <1>4 DEF StopForBudget, ProcessEnds
<1>5. CASE AcceptHypotheses
    BY <1>5 DEF AcceptHypotheses
<1>6. CASE RefuseHypotheses
    BY <1>6 DEF RefuseHypotheses, ProcessEnds
<1>7. CASE RecordHypothesis
    BY <1>7 DEF RecordHypothesis
<1>8. CASE LeaveHypothesizing
    BY <1>8 DEF LeaveHypothesizing, MoveTo
<1>9. CASE AcceptProposals
    BY <1>9 DEF AcceptProposals
<1>10. CASE RefuseProposals
    BY <1>10 DEF RefuseProposals, ProcessEnds
<1>11. CASE RecordProposal
    BY <1>11 DEF RecordProposal
<1>12. CASE LeavePlanning
    BY <1>12 DEF LeavePlanning, MoveTo
<1>13. CASE SelectExperiments
    BY <1>13 DEF SelectExperiments, Commit
<1>14. CASE RefuseSelection
    BY <1>14 DEF RefuseSelection, ProcessEnds
<1>15. CASE EnterSelecting
    BY <1>15 DEF EnterSelecting, MoveTo
<1>16. CASE ReplanEmpty
    BY <1>16 DEF ReplanEmpty, MoveTo
<1>17. CASE EnterExecuting
    BY <1>17 DEF EnterExecuting, MoveTo
<1>18. CASE RecordStart
    BY <1>18 DEF RecordStart
<1>19. CASE Submit
    BY <1>19 DEF Submit
<1>20. CASE BeginCollecting
    BY <1>20 DEF BeginCollecting
<1>21. CASE TakeResult
    BY <1>21 DEF TakeResult
<1>22. CASE GiveUpWaiting
    BY <1>22 DEF GiveUpWaiting
<1>23. CASE ScheduleRetry
    BY <1>23 DEF ScheduleRetry, HandOK, HandPcs, RetryDue
<1>24. CASE KeepResult
    BY <1>24 DEF KeepResult
<1>25. CASE RestartAttempt
    BY <1>25 DEF RestartAttempt, HandOK, HandPcs, Results
<1>26. CASE RefuseRetry
    BY <1>26 DEF RefuseRetry, ProcessEnds
<1>27. CASE FinishCollecting
    BY <1>27 DEF FinishCollecting
<1>28. CASE ImportOutcome
    BY <1>28 DEF ImportOutcome
<1>29. CASE RecordObservation
    BY <1>29 DEF RecordObservation
<1>30. CASE ReconcileResources
    BY <1>30 DEF ReconcileResources
<1>31. CASE LeaveExecuting
    BY <1>31 DEF LeaveExecuting, MoveTo
<1>32. CASE BeginJudging
    BY <1>32 DEF BeginJudging
<1>33. CASE Replan
    BY <1>33 DEF Replan, MoveTo
<1>34. CASE PassOver
    BY <1>34 DEF PassOver
<1>35. CASE JudgePair
    BY <1>35 DEF JudgePair
<1>36. CASE EnterFalsifying
    BY <1>36 DEF EnterFalsifying, MoveTo
<1>37. CASE BeginUpdating
    BY <1>37 DEF BeginUpdating
<1>38. CASE UpdateBelief
    BY <1>38 DEF UpdateBelief
<1>39. CASE ReviseHypothesis
    BY <1>39 DEF ReviseHypothesis
<1>40. CASE EnterUpdating
    BY <1>40 DEF EnterUpdating, MoveTo
<1>41. CASE FinishUpdating
    BY <1>41 DEF FinishUpdating
<1>42. CASE EnterPhaseDecision
    BY <1>42 DEF EnterPhaseDecision, MoveTo
<1>43. CASE ChangePhase
    BY <1>43 DEF ChangePhase
<1>44. CASE LeavePhaseDecision
    BY <1>44 DEF LeavePhaseDecision, MoveTo
<1>45. CASE EnterHandoff
    BY <1>45 DEF EnterHandoff, MoveTo
<1>46. CASE RefuseBrief
    BY <1>46 DEF RefuseBrief, ProcessEnds
<1>47. CASE RecordBrief
    BY <1>47 DEF RecordBrief
<1>48. CASE LeaveHandoff
    BY <1>48 DEF LeaveHandoff, MoveTo
<1>49. CASE NoHandoff
    BY <1>49 DEF NoHandoff
<1>50. CASE NextRound
    BY <1>50 DEF NextRound
<1>51. CASE EndLoop
    BY <1>51 DEF EndLoop, ProcessEnds
<1>52. CASE Crash
    BY <1>52 DEF Crash, ProcessEnds
<1>53. CASE \E e \in Exps : WorkerAnswers(e)
    BY <1>53 DEF WorkerAnswers
<1>54. CASE UNCHANGED vars
    BY <1>54, SMTT(20) DEF vars
<1> QED
    BY <1>2, <1>3, <1>4, <1>5, <1>6, <1>7, <1>8, <1>9, <1>10, <1>11, <1>12,
       <1>13, <1>14, <1>15, <1>16, <1>17, <1>18, <1>19, <1>20, <1>21, <1>22,
       <1>23, <1>24, <1>25, <1>26, <1>27, <1>28, <1>29, <1>30, <1>31, <1>32,
       <1>33, <1>34, <1>35, <1>36, <1>37, <1>38, <1>39, <1>40, <1>41, <1>42,
       <1>43, <1>44, <1>45, <1>46, <1>47, <1>48, <1>49, <1>50, <1>51, <1>52,
       <1>53, <1>54 DEF Next, LoopStep, HypothesisStage, PlanningStage,
       SelectionStage, DispatchStage, CollectStage, ImportStage,
       InterpretStage, PhaseStage

\* Every commitment is counted once, and a portfolio is the most that can overrun.
LEMMA BudgetStep ==
    ASSUME TypeOK, HandOK, BudgetOvershoot, [Next]_vars
    PROVE  BudgetOvershoot'
<1> DEFINE committed == {e \in Exps : status[e] \in Settled}
<1>1. /\ status \in [Exps -> Statuses] /\ used \in Nat
      /\ MaxExperiments \in Nat /\ PortfolioSize \in Nat \ {0}
    BY ConfigAssumption DEF TypeOK
<1> USE <1>1 DEF BudgetOvershoot, Settled, logVars, budgetVars
<1>2. CASE StartLoop
    BY <1>2 DEF StartLoop
<1>3. CASE BeginRound
    BY <1>3 DEF BeginRound
<1>4. CASE StopForBudget
    BY <1>4 DEF StopForBudget, ProcessEnds
<1>5. CASE AcceptHypotheses
    BY <1>5 DEF AcceptHypotheses
<1>6. CASE RefuseHypotheses
    BY <1>6 DEF RefuseHypotheses, ProcessEnds
<1>7. CASE RecordHypothesis
    BY <1>7 DEF RecordHypothesis
<1>8. CASE LeaveHypothesizing
    BY <1>8 DEF LeaveHypothesizing, MoveTo
<1>9. CASE AcceptProposals
    BY <1>9 DEF AcceptProposals
<1>10. CASE RefuseProposals
    BY <1>10 DEF RefuseProposals, ProcessEnds
<1>11. CASE RecordProposal
    BY <1>11 DEF RecordProposal, IsFirst, WithStatus
<1>12. CASE LeavePlanning
    BY <1>12 DEF LeavePlanning, MoveTo
<1>13. CASE SelectExperiments
    <2>1. PICK selected \in SUBSET Exps, rejected \in SUBSET Exps :
                 Commit(selected, rejected)
        BY <1>13 DEF SelectExperiments
    <2>2. /\ committed' = committed \union selected
          /\ committed \intersect selected = {}
        BY <2>1 DEF Commit, IsDecision, WithStatus
    <2>3. IsFiniteSet(committed) /\ IsFiniteSet(selected)
        BY SubsetsAreFinite
    <2> DEFINE n == Cardinality(committed)
               m == Cardinality(selected)
    <2>4. n \in Nat /\ m \in Nat
        BY <2>3, FS_CardinalityType
    <2>5. Cardinality(committed \union selected)
             = n + m - Cardinality(committed \intersect selected)
        BY <2>3, FS_Union
    <2>6. Cardinality(committed \intersect selected) = 0
        BY <2>2, FS_EmptySet
    <2>7. Cardinality(committed') = n + m
        BY <2>2, <2>4, <2>5, <2>6
    <2>8. used' = used + Cardinality(selected) /\ Cardinality(selected) <= PortfolioSize
        BY <2>1 DEF Commit, IsDecision
    <2>9. selected = {} \/ used + 1 <= MaxExperiments
        BY <2>1 DEF Commit, IsDecision, PassesGate, WithinBudget
    <2>10. used' <= MaxExperiments + PortfolioSize - 1
        BY <2>8, <2>9, <2>4, FS_EmptySet
    <2>11. QED
        BY <2>7, <2>8, <2>10, <2>4
<1>14. CASE RefuseSelection
    BY <1>14 DEF RefuseSelection, ProcessEnds
<1>15. CASE EnterSelecting
    BY <1>15 DEF EnterSelecting, MoveTo
<1>16. CASE ReplanEmpty
    BY <1>16 DEF ReplanEmpty, MoveTo
<1>17. CASE EnterExecuting
    BY <1>17 DEF EnterExecuting, MoveTo
<1>18. CASE RecordStart
    BY <1>18 DEF RecordStart, IsFirst, WithStatus
<1>19. CASE Submit
    BY <1>19 DEF Submit
<1>20. CASE BeginCollecting
    BY <1>20 DEF BeginCollecting
<1>21. CASE TakeResult
    BY <1>21 DEF TakeResult
<1>22. CASE GiveUpWaiting
    BY <1>22 DEF GiveUpWaiting
<1>23. CASE ScheduleRetry
    BY <1>23 DEF ScheduleRetry
<1>24. CASE KeepResult
    BY <1>24 DEF KeepResult
<1>25. CASE RestartAttempt
    BY <1>25 DEF RestartAttempt
<1>26. CASE RefuseRetry
    BY <1>26 DEF RefuseRetry, ProcessEnds
<1>27. CASE FinishCollecting
    BY <1>27 DEF FinishCollecting
<1>28. CASE ImportOutcome
    BY <1>28 DEF ImportOutcome, HandOK, HandPcs
<1>29. CASE RecordObservation
    BY <1>29 DEF RecordObservation
<1>30. CASE ReconcileResources
    BY <1>30 DEF ReconcileResources
<1>31. CASE LeaveExecuting
    BY <1>31 DEF LeaveExecuting, MoveTo
<1>32. CASE BeginJudging
    BY <1>32 DEF BeginJudging
<1>33. CASE Replan
    BY <1>33 DEF Replan, MoveTo
<1>34. CASE PassOver
    BY <1>34 DEF PassOver
<1>35. CASE JudgePair
    BY <1>35 DEF JudgePair
<1>36. CASE EnterFalsifying
    BY <1>36 DEF EnterFalsifying, MoveTo
<1>37. CASE BeginUpdating
    BY <1>37 DEF BeginUpdating
<1>38. CASE UpdateBelief
    BY <1>38 DEF UpdateBelief
<1>39. CASE ReviseHypothesis
    BY <1>39 DEF ReviseHypothesis
<1>40. CASE EnterUpdating
    BY <1>40 DEF EnterUpdating, MoveTo
<1>41. CASE FinishUpdating
    BY <1>41 DEF FinishUpdating
<1>42. CASE EnterPhaseDecision
    BY <1>42 DEF EnterPhaseDecision, MoveTo
<1>43. CASE ChangePhase
    BY <1>43 DEF ChangePhase
<1>44. CASE LeavePhaseDecision
    BY <1>44 DEF LeavePhaseDecision, MoveTo
<1>45. CASE EnterHandoff
    BY <1>45 DEF EnterHandoff, MoveTo
<1>46. CASE RefuseBrief
    BY <1>46 DEF RefuseBrief, ProcessEnds
<1>47. CASE RecordBrief
    BY <1>47 DEF RecordBrief
<1>48. CASE LeaveHandoff
    BY <1>48 DEF LeaveHandoff, MoveTo
<1>49. CASE NoHandoff
    BY <1>49 DEF NoHandoff
<1>50. CASE NextRound
    BY <1>50 DEF NextRound
<1>51. CASE EndLoop
    BY <1>51 DEF EndLoop, ProcessEnds
<1>52. CASE Crash
    BY <1>52 DEF Crash, ProcessEnds
<1>53. CASE \E e \in Exps : WorkerAnswers(e)
    BY <1>53 DEF WorkerAnswers
<1>54. CASE UNCHANGED vars
    BY <1>54, SMTT(20) DEF vars
<1> QED
    BY <1>2, <1>3, <1>4, <1>5, <1>6, <1>7, <1>8, <1>9, <1>10, <1>11, <1>12,
       <1>13, <1>14, <1>15, <1>16, <1>17, <1>18, <1>19, <1>20, <1>21, <1>22,
       <1>23, <1>24, <1>25, <1>26, <1>27, <1>28, <1>29, <1>30, <1>31, <1>32,
       <1>33, <1>34, <1>35, <1>36, <1>37, <1>38, <1>39, <1>40, <1>41, <1>42,
       <1>43, <1>44, <1>45, <1>46, <1>47, <1>48, <1>49, <1>50, <1>51, <1>52,
       <1>53, <1>54 DEF Next, LoopStep, HypothesisStage, PlanningStage,
       SelectionStage, DispatchStage, CollectStage, ImportStage,
       InterpretStage, PhaseStage

\* Every move of the loop is in the table.
LEMMA MoveStep ==
    ASSUME TypeOK, ControlOK, [Next]_vars
    PROVE  loopState' # loopState => MayFollow(loopState, loopState')
<1> USE DEF ControlOK, MayFollow, logVars
<1>1. CASE StartLoop
    BY <1>1 DEF StartLoop
<1>2. CASE BeginRound
    BY <1>2 DEF BeginRound
<1>3. CASE StopForBudget
    BY <1>3 DEF StopForBudget, ProcessEnds
<1>4. CASE AcceptHypotheses
    BY <1>4 DEF AcceptHypotheses
<1>5. CASE RefuseHypotheses
    BY <1>5 DEF RefuseHypotheses, ProcessEnds
<1>6. CASE RecordHypothesis
    BY <1>6 DEF RecordHypothesis
<1>7. CASE LeaveHypothesizing
    BY <1>7 DEF LeaveHypothesizing, MoveTo
<1>8. CASE AcceptProposals
    BY <1>8 DEF AcceptProposals
<1>9. CASE RefuseProposals
    BY <1>9 DEF RefuseProposals, ProcessEnds
<1>10. CASE RecordProposal
    BY <1>10 DEF RecordProposal
<1>11. CASE LeavePlanning
    BY <1>11 DEF LeavePlanning, MoveTo
<1>12. CASE SelectExperiments
    BY <1>12 DEF SelectExperiments, Commit
<1>13. CASE RefuseSelection
    BY <1>13 DEF RefuseSelection, ProcessEnds
<1>14. CASE EnterSelecting
    BY <1>14 DEF EnterSelecting, MoveTo
<1>15. CASE ReplanEmpty
    BY <1>15 DEF ReplanEmpty, MoveTo
<1>16. CASE EnterExecuting
    BY <1>16 DEF EnterExecuting, MoveTo
<1>17. CASE RecordStart
    BY <1>17 DEF RecordStart
<1>18. CASE Submit
    BY <1>18 DEF Submit
<1>19. CASE BeginCollecting
    BY <1>19 DEF BeginCollecting
<1>20. CASE TakeResult
    BY <1>20 DEF TakeResult
<1>21. CASE GiveUpWaiting
    BY <1>21 DEF GiveUpWaiting
<1>22. CASE ScheduleRetry
    BY <1>22 DEF ScheduleRetry
<1>23. CASE KeepResult
    BY <1>23 DEF KeepResult
<1>24. CASE RestartAttempt
    BY <1>24 DEF RestartAttempt
<1>25. CASE RefuseRetry
    BY <1>25 DEF RefuseRetry, ProcessEnds
<1>26. CASE FinishCollecting
    BY <1>26 DEF FinishCollecting
<1>27. CASE ImportOutcome
    BY <1>27 DEF ImportOutcome
<1>28. CASE RecordObservation
    BY <1>28 DEF RecordObservation
<1>29. CASE ReconcileResources
    BY <1>29 DEF ReconcileResources
<1>30. CASE LeaveExecuting
    BY <1>30 DEF LeaveExecuting, MoveTo
<1>31. CASE BeginJudging
    BY <1>31 DEF BeginJudging
<1>32. CASE Replan
    BY <1>32 DEF Replan, MoveTo, ReplanDue
<1>33. CASE PassOver
    BY <1>33 DEF PassOver
<1>34. CASE JudgePair
    BY <1>34 DEF JudgePair
<1>35. CASE EnterFalsifying
    BY <1>35 DEF EnterFalsifying, MoveTo
<1>36. CASE BeginUpdating
    BY <1>36 DEF BeginUpdating
<1>37. CASE UpdateBelief
    BY <1>37 DEF UpdateBelief
<1>38. CASE ReviseHypothesis
    BY <1>38 DEF ReviseHypothesis
<1>39. CASE EnterUpdating
    BY <1>39 DEF EnterUpdating, MoveTo
<1>40. CASE FinishUpdating
    BY <1>40 DEF FinishUpdating
<1>41. CASE EnterPhaseDecision
    BY <1>41 DEF EnterPhaseDecision, MoveTo
<1>42. CASE ChangePhase
    BY <1>42 DEF ChangePhase
<1>43. CASE LeavePhaseDecision
    BY <1>43 DEF LeavePhaseDecision, MoveTo
<1>44. CASE EnterHandoff
    BY <1>44 DEF EnterHandoff, MoveTo, HandoffDue
<1>45. CASE RefuseBrief
    BY <1>45 DEF RefuseBrief, ProcessEnds
<1>46. CASE RecordBrief
    BY <1>46 DEF RecordBrief
<1>47. CASE LeaveHandoff
    BY <1>47 DEF LeaveHandoff, MoveTo
<1>48. CASE NoHandoff
    BY <1>48 DEF NoHandoff
<1>49. CASE NextRound
    BY <1>49 DEF NextRound
<1>50. CASE EndLoop
    BY <1>50 DEF EndLoop, ProcessEnds
<1>51. CASE Crash
    BY <1>51 DEF Crash, ProcessEnds
<1>52. CASE \E e \in Exps : WorkerAnswers(e)
    BY <1>52 DEF WorkerAnswers
<1>53. CASE UNCHANGED vars
    BY <1>53, SMTT(20) DEF vars
<1> QED
    BY <1>1, <1>2, <1>3, <1>4, <1>5, <1>6, <1>7, <1>8, <1>9, <1>10, <1>11,
       <1>12, <1>13, <1>14, <1>15, <1>16, <1>17, <1>18, <1>19, <1>20, <1>21,
       <1>22, <1>23, <1>24, <1>25, <1>26, <1>27, <1>28, <1>29, <1>30, <1>31,
       <1>32, <1>33, <1>34, <1>35, <1>36, <1>37, <1>38, <1>39, <1>40, <1>41,
       <1>42, <1>43, <1>44, <1>45, <1>46, <1>47, <1>48, <1>49, <1>50, <1>51,
       <1>52, <1>53 DEF Next, LoopStep, HypothesisStage, PlanningStage,
       SelectionStage, DispatchStage, CollectStage, ImportStage,
       InterpretStage, PhaseStage

\* No step replaces an outcome, an observation, a rejection or a selection.
LEMMA OutcomeStep ==
    ASSUME TypeOK, HandOK, [Next]_vars
    PROVE  OneOutcome
<1>1. status \in [Exps -> Statuses] /\ obs \in [Exps -> {"none", "completed", "failed"}]
    BY DEF TypeOK
<1> USE <1>1 DEF OneOutcome, Settled, logVars, evidenceVars
<1>2. CASE StartLoop
    BY <1>2 DEF StartLoop
<1>3. CASE BeginRound
    BY <1>3 DEF BeginRound
<1>4. CASE StopForBudget
    BY <1>4 DEF StopForBudget, ProcessEnds
<1>5. CASE AcceptHypotheses
    BY <1>5 DEF AcceptHypotheses
<1>6. CASE RefuseHypotheses
    BY <1>6 DEF RefuseHypotheses, ProcessEnds
<1>7. CASE RecordHypothesis
    BY <1>7 DEF RecordHypothesis
<1>8. CASE LeaveHypothesizing
    BY <1>8 DEF LeaveHypothesizing, MoveTo
<1>9. CASE AcceptProposals
    BY <1>9 DEF AcceptProposals
<1>10. CASE RefuseProposals
    BY <1>10 DEF RefuseProposals, ProcessEnds
<1>11. CASE RecordProposal
    BY <1>11 DEF RecordProposal, IsFirst, WithStatus
<1>12. CASE LeavePlanning
    BY <1>12 DEF LeavePlanning, MoveTo
<1>13. CASE SelectExperiments
    BY <1>13 DEF SelectExperiments, Commit, IsDecision, WithStatus
<1>14. CASE RefuseSelection
    BY <1>14 DEF RefuseSelection, ProcessEnds
<1>15. CASE EnterSelecting
    BY <1>15 DEF EnterSelecting, MoveTo
<1>16. CASE ReplanEmpty
    BY <1>16 DEF ReplanEmpty, MoveTo
<1>17. CASE EnterExecuting
    BY <1>17 DEF EnterExecuting, MoveTo
<1>18. CASE RecordStart
    BY <1>18 DEF RecordStart, IsFirst, WithStatus
<1>19. CASE Submit
    BY <1>19 DEF Submit
<1>20. CASE BeginCollecting
    BY <1>20 DEF BeginCollecting
<1>21. CASE TakeResult
    BY <1>21 DEF TakeResult
<1>22. CASE GiveUpWaiting
    BY <1>22 DEF GiveUpWaiting
<1>23. CASE ScheduleRetry
    BY <1>23 DEF ScheduleRetry
<1>24. CASE KeepResult
    BY <1>24 DEF KeepResult
<1>25. CASE RestartAttempt
    BY <1>25 DEF RestartAttempt
<1>26. CASE RefuseRetry
    BY <1>26 DEF RefuseRetry, ProcessEnds
<1>27. CASE FinishCollecting
    BY <1>27 DEF FinishCollecting
<1>28. CASE ImportOutcome
    BY <1>28 DEF ImportOutcome, HandOK, HandPcs
<1>29. CASE RecordObservation
    BY <1>29 DEF RecordObservation, HandOK, HandPcs
<1>30. CASE ReconcileResources
    BY <1>30 DEF ReconcileResources
<1>31. CASE LeaveExecuting
    BY <1>31 DEF LeaveExecuting, MoveTo
<1>32. CASE BeginJudging
    BY <1>32 DEF BeginJudging
<1>33. CASE Replan
    BY <1>33 DEF Replan, MoveTo
<1>34. CASE PassOver
    BY <1>34 DEF PassOver
<1>35. CASE JudgePair
    BY <1>35 DEF JudgePair
<1>36. CASE EnterFalsifying
    BY <1>36 DEF EnterFalsifying, MoveTo
<1>37. CASE BeginUpdating
    BY <1>37 DEF BeginUpdating
<1>38. CASE UpdateBelief
    BY <1>38 DEF UpdateBelief
<1>39. CASE ReviseHypothesis
    BY <1>39 DEF ReviseHypothesis
<1>40. CASE EnterUpdating
    BY <1>40 DEF EnterUpdating, MoveTo
<1>41. CASE FinishUpdating
    BY <1>41 DEF FinishUpdating
<1>42. CASE EnterPhaseDecision
    BY <1>42 DEF EnterPhaseDecision, MoveTo
<1>43. CASE ChangePhase
    BY <1>43 DEF ChangePhase
<1>44. CASE LeavePhaseDecision
    BY <1>44 DEF LeavePhaseDecision, MoveTo
<1>45. CASE EnterHandoff
    BY <1>45 DEF EnterHandoff, MoveTo
<1>46. CASE RefuseBrief
    BY <1>46 DEF RefuseBrief, ProcessEnds
<1>47. CASE RecordBrief
    BY <1>47 DEF RecordBrief
<1>48. CASE LeaveHandoff
    BY <1>48 DEF LeaveHandoff, MoveTo
<1>49. CASE NoHandoff
    BY <1>49 DEF NoHandoff
<1>50. CASE NextRound
    BY <1>50 DEF NextRound
<1>51. CASE EndLoop
    BY <1>51 DEF EndLoop, ProcessEnds
<1>52. CASE Crash
    BY <1>52 DEF Crash, ProcessEnds
<1>53. CASE \E e \in Exps : WorkerAnswers(e)
    BY <1>53 DEF WorkerAnswers
<1>54. CASE UNCHANGED vars
    BY <1>54, SMTT(20) DEF vars
<1> QED
    BY <1>2, <1>3, <1>4, <1>5, <1>6, <1>7, <1>8, <1>9, <1>10, <1>11, <1>12,
       <1>13, <1>14, <1>15, <1>16, <1>17, <1>18, <1>19, <1>20, <1>21, <1>22,
       <1>23, <1>24, <1>25, <1>26, <1>27, <1>28, <1>29, <1>30, <1>31, <1>32,
       <1>33, <1>34, <1>35, <1>36, <1>37, <1>38, <1>39, <1>40, <1>41, <1>42,
       <1>43, <1>44, <1>45, <1>46, <1>47, <1>48, <1>49, <1>50, <1>51, <1>52,
       <1>53, <1>54 DEF Next, LoopStep, HypothesisStage, PlanningStage,
       SelectionStage, DispatchStage, CollectStage, ImportStage,
       InterpretStage, PhaseStage

\* The places at which a round has verdicts in hand.
InterpretPcs == {"judge", "enter_falsifying", "update", "revise", "enter_updating"}

\* Verdicts live only within the two passes; and as long as the process has not died,
\* a pair judged is either done with or among the verdicts still to be applied.
VerdictsOK ==
    /\ pc \notin InterpretPcs => verdicts = {}
    /\ crashes = 0 => \A p \in judged : p \in verdicts \/ (applied[p] = 1 /\ p \in revised)
    /\ pc \in {"revise", "enter_updating"} => \A p \in pairs : applied[p] = 1
    /\ pc = "enter_updating" => \A p \in pairs : p \in revised

\* No step but a death takes a verdict out of hand before it is applied.
LEMMA VerdictStep ==
    ASSUME TypeOK, EvidenceOK, VerdictsOK, [Next]_vars
    PROVE  VerdictsOK'
<1>1. /\ judged \subseteq Hyps \X Exps /\ applied \in [Hyps \X Exps -> Nat]
      /\ pairs \subseteq Hyps \X Exps /\ verdicts \subseteq Hyps \X Exps
      /\ crashes \in Nat
    BY DEF TypeOK
<1> USE <1>1 DEF VerdictsOK, InterpretPcs, logVars, localVars, evidenceVars
<1>3. CASE StartLoop
    BY <1>3 DEF StartLoop
<1>4. CASE BeginRound
    BY <1>4 DEF BeginRound, Stage
<1>5. CASE StopForBudget
    BY <1>5 DEF StopForBudget, ProcessEnds
<1>6. CASE AcceptHypotheses
    BY <1>6 DEF AcceptHypotheses
<1>7. CASE RefuseHypotheses
    BY <1>7 DEF RefuseHypotheses, ProcessEnds
<1>8. CASE RecordHypothesis
    BY <1>8 DEF RecordHypothesis
<1>9. CASE LeaveHypothesizing
    BY <1>9 DEF LeaveHypothesizing, MoveTo
<1>10. CASE AcceptProposals
    BY <1>10 DEF AcceptProposals
<1>11. CASE RefuseProposals
    BY <1>11 DEF RefuseProposals, ProcessEnds
<1>12. CASE RecordProposal
    BY <1>12 DEF RecordProposal, IsFirst, WithStatus
<1>13. CASE LeavePlanning
    BY <1>13 DEF LeavePlanning, MoveTo
<1>14. CASE SelectExperiments
    BY <1>14 DEF SelectExperiments, Commit, IsDecision, WithStatus
<1>15. CASE RefuseSelection
    BY <1>15 DEF RefuseSelection, ProcessEnds
<1>16. CASE EnterSelecting
    BY <1>16 DEF EnterSelecting, MoveTo
<1>17. CASE ReplanEmpty
    BY <1>17 DEF ReplanEmpty, MoveTo
<1>18. CASE EnterExecuting
    BY <1>18 DEF EnterExecuting, MoveTo
<1>19. CASE RecordStart
    BY <1>19 DEF RecordStart, IsFirst, WithStatus
<1>20. CASE Submit
    BY <1>20 DEF Submit
<1>21. CASE BeginCollecting
    BY <1>21 DEF BeginCollecting
<1>22. CASE TakeResult
    BY <1>22 DEF TakeResult
<1>23. CASE GiveUpWaiting
    BY <1>23 DEF GiveUpWaiting
<1>24. CASE ScheduleRetry
    BY <1>24 DEF ScheduleRetry
<1>25. CASE KeepResult
    BY <1>25 DEF KeepResult
<1>26. CASE RestartAttempt
    BY <1>26 DEF RestartAttempt
<1>27. CASE RefuseRetry
    BY <1>27 DEF RefuseRetry, ProcessEnds
<1>28. CASE FinishCollecting
    BY <1>28 DEF FinishCollecting
<1>29. CASE ImportOutcome
    BY <1>29 DEF ImportOutcome, HandOK, HandPcs
<1>30. CASE RecordObservation
    BY <1>30 DEF RecordObservation, HandOK, HandPcs
<1>31. CASE ReconcileResources
    BY <1>31 DEF ReconcileResources
<1>32. CASE LeaveExecuting
    BY <1>32 DEF LeaveExecuting, MoveTo
<1>33. CASE BeginJudging
    BY <1>33 DEF BeginJudging
<1>34. CASE Replan
    BY <1>34 DEF Replan, MoveTo
<1>35. CASE PassOver
    BY <1>35 DEF PassOver
<1>36. CASE JudgePair
    BY <1>36 DEF JudgePair
<1>37. CASE EnterFalsifying
    BY <1>37 DEF EnterFalsifying, MoveTo
<1>38. CASE BeginUpdating
    BY <1>38 DEF BeginUpdating
<1>39. CASE UpdateBelief
    <2>1. PICK p \in verdicts : /\ applied' = [applied EXCEPT ![p] = applied[p] + 1]
                                /\ pairs' = {p}
        BY <1>39 DEF UpdateBelief
    <2>2. applied[p] = 0 /\ p \in Hyps \X Exps
        BY <1>39 DEF UpdateBelief, EvidenceOK
    <2>3. applied'[p] = 1 /\ \A r \in Hyps \X Exps : r # p => applied'[r] = applied[r]
        BY <2>1, <2>2
    <2>4. QED
        BY <1>39, <2>1, <2>3 DEF UpdateBelief
<1>40. CASE ReviseHypothesis
    BY <1>40 DEF ReviseHypothesis
<1>41. CASE EnterUpdating
    BY <1>41 DEF EnterUpdating, MoveTo
<1>42. CASE FinishUpdating
    BY <1>42 DEF FinishUpdating
<1>43. CASE EnterPhaseDecision
    BY <1>43 DEF EnterPhaseDecision, MoveTo
<1>44. CASE ChangePhase
    BY <1>44 DEF ChangePhase
<1>45. CASE LeavePhaseDecision
    BY <1>45 DEF LeavePhaseDecision, MoveTo
<1>46. CASE EnterHandoff
    BY <1>46 DEF EnterHandoff, MoveTo
<1>47. CASE RefuseBrief
    BY <1>47 DEF RefuseBrief, ProcessEnds
<1>48. CASE RecordBrief
    BY <1>48 DEF RecordBrief
<1>49. CASE LeaveHandoff
    BY <1>49 DEF LeaveHandoff, MoveTo
<1>50. CASE NoHandoff
    BY <1>50 DEF NoHandoff
<1>51. CASE NextRound
    BY <1>51 DEF NextRound
<1>52. CASE EndLoop
    BY <1>52 DEF EndLoop, ProcessEnds
<1>53. CASE Crash
    BY <1>53 DEF Crash, ProcessEnds
<1>54. CASE \E e \in Exps : WorkerAnswers(e)
    BY <1>54 DEF WorkerAnswers
<1>55. CASE UNCHANGED vars
    BY <1>55, SMTT(20) DEF vars
<1> QED
    BY <1>3, <1>4, <1>5, <1>6, <1>7, <1>8, <1>9, <1>10, <1>11, <1>12, <1>13,
       <1>14, <1>15, <1>16, <1>17, <1>18, <1>19, <1>20, <1>21, <1>22, <1>23,
       <1>24, <1>25, <1>26, <1>27, <1>28, <1>29, <1>30, <1>31, <1>32, <1>33,
       <1>34, <1>35, <1>36, <1>37, <1>38, <1>39, <1>40, <1>41, <1>42, <1>43,
       <1>44, <1>45, <1>46, <1>47, <1>48, <1>49, <1>50, <1>51, <1>52, <1>53,
       <1>54, <1>55 DEF Next, LoopStep, HypothesisStage, PlanningStage,
       SelectionStage, DispatchStage, CollectStage, ImportStage,
       InterpretStage, PhaseStage

\* What the rounds have read is the latest there is, as long as the process has not
\* died and the executor runs an attempt before submit returns: nothing answers late,
\* and the file of a running experiment answers the attempt on record, but for the one
\* experiment whose attempt is being handed over.
CurrentOK ==
    /\ crashes <= MaxCrashes
    /\ (Synchronous /\ crashes = 0) =>
          /\ tickets = {}
          /\ \A e \in Exps : status[e] = "running" =>
                \/ pc = "submit" /\ cur = e
                \/ file[e].answers = attempt[e] /\ file[e].attempt = attempt[e]
          /\ pc \in {"triage", "redispatch", "import"} =>
                held.answers = attempt[cur] /\ held.attempt = attempt[cur]

\* A new attempt is handed over before anything else is read.
LEMMA CurrentStep ==
    ASSUME TypeOK, HandOK, CurrentOK, [Next]_vars
    PROVE  CurrentOK'
<1>1. /\ status \in [Exps -> Statuses] /\ attempt \in [Exps -> Nat]
      /\ file \in [Exps -> Results \union {NoResult}]
      /\ queue \subseteq Exps /\ crashes \in Nat /\ MaxCrashes \in Nat
    BY BoundAssumption DEF TypeOK
<1>2. /\ pc \in HandPcs => cur \in Exps
      /\ pc \notin HandPcs => cur = NoExp
      /\ \A e \in queue \ {cur} : status[e] = "running"
      /\ NoExp \notin Exps
    BY DEF HandOK, NoExp, Exps
<1> USE <1>1, <1>2 DEF CurrentOK, HandPcs, logVars, workerVars, localVars, evidenceVars
<1>3. CASE StartLoop
    BY <1>3 DEF StartLoop
<1>4. CASE BeginRound
    BY <1>4 DEF BeginRound, Stage
<1>5. CASE StopForBudget
    BY <1>5 DEF StopForBudget, ProcessEnds
<1>6. CASE AcceptHypotheses
    BY <1>6 DEF AcceptHypotheses
<1>7. CASE RefuseHypotheses
    BY <1>7 DEF RefuseHypotheses, ProcessEnds
<1>8. CASE RecordHypothesis
    BY <1>8 DEF RecordHypothesis
<1>9. CASE LeaveHypothesizing
    BY <1>9 DEF LeaveHypothesizing, MoveTo
<1>10. CASE AcceptProposals
    BY <1>10 DEF AcceptProposals
<1>11. CASE RefuseProposals
    BY <1>11 DEF RefuseProposals, ProcessEnds
<1>12. CASE RecordProposal
    BY <1>12 DEF RecordProposal, IsFirst, WithStatus
<1>13. CASE LeavePlanning
    BY <1>13 DEF LeavePlanning, MoveTo
<1>14. CASE SelectExperiments
    BY <1>14 DEF SelectExperiments, Commit, IsDecision, WithStatus
<1>15. CASE RefuseSelection
    BY <1>15 DEF RefuseSelection, ProcessEnds
<1>16. CASE EnterSelecting
    BY <1>16 DEF EnterSelecting, MoveTo
<1>17. CASE ReplanEmpty
    BY <1>17 DEF ReplanEmpty, MoveTo
<1>18. CASE EnterExecuting
    BY <1>18 DEF EnterExecuting, MoveTo
<1>19. CASE RecordStart
    BY <1>19 DEF RecordStart, IsFirst, WithStatus
<1>20. CASE Submit
    BY <1>20 DEF Submit
<1>21. CASE BeginCollecting
    BY <1>21 DEF BeginCollecting
<1>22. CASE TakeResult
    <2>1. PICK e \in queue : held' = file[e] /\ cur' = e
        BY <1>22 DEF TakeResult, IsFirst
    <2>2. e \in Exps /\ status[e] = "running"
        BY <1>22, <2>1 DEF TakeResult
    <2>3. /\ pc = "collect" /\ pc' = "triage" /\ status' = status /\ attempt' = attempt
          /\ file' = file /\ tickets' = tickets /\ crashes' = crashes
        BY <1>22 DEF TakeResult
    <2>4. QED
        BY <2>1, <2>2, <2>3
<1>23. CASE GiveUpWaiting
    BY <1>23 DEF GiveUpWaiting
<1>24. CASE ScheduleRetry
    BY <1>24 DEF ScheduleRetry
<1>25. CASE KeepResult
    BY <1>25 DEF KeepResult
<1>26. CASE RestartAttempt
    BY <1>26 DEF RestartAttempt
<1>27. CASE RefuseRetry
    BY <1>27 DEF RefuseRetry, ProcessEnds
<1>28. CASE FinishCollecting
    BY <1>28 DEF FinishCollecting
<1>29. CASE ImportOutcome
    BY <1>29 DEF ImportOutcome
<1>30. CASE RecordObservation
    BY <1>30 DEF RecordObservation
<1>31. CASE ReconcileResources
    BY <1>31 DEF ReconcileResources
<1>32. CASE LeaveExecuting
    BY <1>32 DEF LeaveExecuting, MoveTo
<1>33. CASE BeginJudging
    BY <1>33 DEF BeginJudging
<1>34. CASE Replan
    BY <1>34 DEF Replan, MoveTo
<1>35. CASE PassOver
    BY <1>35 DEF PassOver
<1>36. CASE JudgePair
    BY <1>36 DEF JudgePair
<1>37. CASE EnterFalsifying
    BY <1>37 DEF EnterFalsifying, MoveTo
<1>38. CASE BeginUpdating
    BY <1>38 DEF BeginUpdating
<1>39. CASE UpdateBelief
    BY <1>39 DEF UpdateBelief
<1>40. CASE ReviseHypothesis
    BY <1>40 DEF ReviseHypothesis
<1>41. CASE EnterUpdating
    BY <1>41 DEF EnterUpdating, MoveTo
<1>42. CASE FinishUpdating
    BY <1>42 DEF FinishUpdating
<1>43. CASE EnterPhaseDecision
    BY <1>43 DEF EnterPhaseDecision, MoveTo
<1>44. CASE ChangePhase
    BY <1>44 DEF ChangePhase
<1>45. CASE LeavePhaseDecision
    BY <1>45 DEF LeavePhaseDecision, MoveTo
<1>46. CASE EnterHandoff
    BY <1>46 DEF EnterHandoff, MoveTo
<1>47. CASE RefuseBrief
    BY <1>47 DEF RefuseBrief, ProcessEnds
<1>48. CASE RecordBrief
    BY <1>48 DEF RecordBrief
<1>49. CASE LeaveHandoff
    BY <1>49 DEF LeaveHandoff, MoveTo
<1>50. CASE NoHandoff
    BY <1>50 DEF NoHandoff
<1>51. CASE NextRound
    BY <1>51 DEF NextRound
<1>52. CASE EndLoop
    BY <1>52 DEF EndLoop, ProcessEnds
<1>53. CASE Crash
    BY <1>53 DEF Crash, ProcessEnds
<1>54. CASE \E e \in Exps : WorkerAnswers(e)
    BY <1>54 DEF WorkerAnswers
<1>55. CASE UNCHANGED vars
    BY <1>55, SMTT(20) DEF vars
<1> QED
    BY <1>3, <1>4, <1>5, <1>6, <1>7, <1>8, <1>9, <1>10, <1>11, <1>12, <1>13,
       <1>14, <1>15, <1>16, <1>17, <1>18, <1>19, <1>20, <1>21, <1>22, <1>23,
       <1>24, <1>25, <1>26, <1>27, <1>28, <1>29, <1>30, <1>31, <1>32, <1>33,
       <1>34, <1>35, <1>36, <1>37, <1>38, <1>39, <1>40, <1>41, <1>42, <1>43,
       <1>44, <1>45, <1>46, <1>47, <1>48, <1>49, <1>50, <1>51, <1>52, <1>53,
       <1>54, <1>55 DEF Next, LoopStep, HypothesisStage, PlanningStage,
       SelectionStage, DispatchStage, CollectStage, ImportStage,
       InterpretStage, PhaseStage

\* An experiment stops running in import_result only, which has the current result.
LEMMA OnlyImportEnds ==
    ASSUME Synchronous, MaxCrashes = 0, TypeOK, HandOK, CurrentOK, [Next]_vars
    PROVE  [\A e \in Exps : status[e] = "running" /\ status'[e] # "running"
                => held.answers = attempt[e] /\ held.attempt = attempt[e]]_vars
<1>1. status \in [Exps -> Statuses] /\ crashes = 0
    BY BoundAssumption DEF TypeOK, CurrentOK
<1> USE <1>1 DEF logVars, localVars, evidenceVars, phaseVars, budgetVars
<1>3. CASE StartLoop
    BY <1>3 DEF StartLoop
<1>4. CASE BeginRound
    BY <1>4 DEF BeginRound, Stage
<1>5. CASE StopForBudget
    BY <1>5 DEF StopForBudget, ProcessEnds
<1>6. CASE AcceptHypotheses
    BY <1>6 DEF AcceptHypotheses
<1>7. CASE RefuseHypotheses
    BY <1>7 DEF RefuseHypotheses, ProcessEnds
<1>8. CASE RecordHypothesis
    BY <1>8 DEF RecordHypothesis
<1>9. CASE LeaveHypothesizing
    BY <1>9 DEF LeaveHypothesizing, MoveTo
<1>10. CASE AcceptProposals
    BY <1>10 DEF AcceptProposals
<1>11. CASE RefuseProposals
    BY <1>11 DEF RefuseProposals, ProcessEnds
<1>12. CASE RecordProposal
    BY <1>12 DEF RecordProposal, IsFirst, WithStatus
<1>13. CASE LeavePlanning
    BY <1>13 DEF LeavePlanning, MoveTo
<1>14. CASE SelectExperiments
    BY <1>14 DEF SelectExperiments, Commit, IsDecision, WithStatus
<1>15. CASE RefuseSelection
    BY <1>15 DEF RefuseSelection, ProcessEnds
<1>16. CASE EnterSelecting
    BY <1>16 DEF EnterSelecting, MoveTo
<1>17. CASE ReplanEmpty
    BY <1>17 DEF ReplanEmpty, MoveTo
<1>18. CASE EnterExecuting
    BY <1>18 DEF EnterExecuting, MoveTo
<1>19. CASE RecordStart
    BY <1>19 DEF RecordStart, IsFirst, WithStatus
<1>20. CASE Submit
    BY <1>20 DEF Submit
<1>21. CASE BeginCollecting
    BY <1>21 DEF BeginCollecting
<1>22. CASE TakeResult
    BY <1>22 DEF TakeResult
<1>23. CASE GiveUpWaiting
    BY <1>23 DEF GiveUpWaiting
<1>24. CASE ScheduleRetry
    BY <1>24 DEF ScheduleRetry
<1>25. CASE KeepResult
    BY <1>25 DEF KeepResult
<1>26. CASE RestartAttempt
    BY <1>26 DEF RestartAttempt
<1>27. CASE RefuseRetry
    BY <1>27 DEF RefuseRetry, ProcessEnds
<1>28. CASE FinishCollecting
    BY <1>28 DEF FinishCollecting
<1>29. CASE ImportOutcome
    <2>1. cur \in Exps /\ held.answers = attempt[cur] /\ held.attempt = attempt[cur]
        BY <1>29 DEF ImportOutcome, HandOK, HandPcs, CurrentOK
    <2>2. \A e \in Exps : e # cur => status'[e] = status[e]
        BY <1>29 DEF ImportOutcome
    <2>3. QED
        BY <2>1, <2>2
<1>30. CASE RecordObservation
    BY <1>30 DEF RecordObservation
<1>31. CASE ReconcileResources
    BY <1>31 DEF ReconcileResources
<1>32. CASE LeaveExecuting
    BY <1>32 DEF LeaveExecuting, MoveTo
<1>33. CASE BeginJudging
    BY <1>33 DEF BeginJudging
<1>34. CASE Replan
    BY <1>34 DEF Replan, MoveTo
<1>35. CASE PassOver
    BY <1>35 DEF PassOver
<1>36. CASE JudgePair
    BY <1>36 DEF JudgePair
<1>37. CASE EnterFalsifying
    BY <1>37 DEF EnterFalsifying, MoveTo
<1>38. CASE BeginUpdating
    BY <1>38 DEF BeginUpdating
<1>39. CASE UpdateBelief
    BY <1>39 DEF UpdateBelief
<1>40. CASE ReviseHypothesis
    BY <1>40 DEF ReviseHypothesis
<1>41. CASE EnterUpdating
    BY <1>41 DEF EnterUpdating, MoveTo
<1>42. CASE FinishUpdating
    BY <1>42 DEF FinishUpdating
<1>43. CASE EnterPhaseDecision
    BY <1>43 DEF EnterPhaseDecision, MoveTo
<1>44. CASE ChangePhase
    BY <1>44 DEF ChangePhase
<1>45. CASE LeavePhaseDecision
    BY <1>45 DEF LeavePhaseDecision, MoveTo
<1>46. CASE EnterHandoff
    BY <1>46 DEF EnterHandoff, MoveTo
<1>47. CASE RefuseBrief
    BY <1>47 DEF RefuseBrief, ProcessEnds
<1>48. CASE RecordBrief
    BY <1>48 DEF RecordBrief
<1>49. CASE LeaveHandoff
    BY <1>49 DEF LeaveHandoff, MoveTo
<1>50. CASE NoHandoff
    BY <1>50 DEF NoHandoff
<1>51. CASE NextRound
    BY <1>51 DEF NextRound
<1>52. CASE EndLoop
    BY <1>52 DEF EndLoop, ProcessEnds
<1>53. CASE Crash
    BY <1>53 DEF Crash, ProcessEnds
<1>54. CASE \E e \in Exps : WorkerAnswers(e)
    BY <1>54 DEF WorkerAnswers
<1>55. CASE UNCHANGED vars
    BY <1>55, SMTT(20) DEF vars
<1> QED
    BY <1>3, <1>4, <1>5, <1>6, <1>7, <1>8, <1>9, <1>10, <1>11, <1>12, <1>13,
       <1>14, <1>15, <1>16, <1>17, <1>18, <1>19, <1>20, <1>21, <1>22, <1>23,
       <1>24, <1>25, <1>26, <1>27, <1>28, <1>29, <1>30, <1>31, <1>32, <1>33,
       <1>34, <1>35, <1>36, <1>37, <1>38, <1>39, <1>40, <1>41, <1>42, <1>43,
       <1>44, <1>45, <1>46, <1>47, <1>48, <1>49, <1>50, <1>51, <1>52, <1>53,
       <1>54, <1>55 DEF Next, LoopStep, HypothesisStage, PlanningStage,
       SelectionStage, DispatchStage, CollectStage, ImportStage,
       InterpretStage, PhaseStage

\* The invariant holds initially.
LEMMA InvInit == Init => IInv
<1> SUFFICES ASSUME Init PROVE IInv
    OBVIOUS
<1> USE DEF Init
<1>1. TypeOK
    BY DEF TypeOK, LoopStates, Phases, Statuses, PcValues
<1>2. ControlOK /\ HandoffOK
    BY DEF ControlOK, HandoffOK, ExploitationNeedsBrief
<1>3. HandOK
    BY DEF HandOK, HandPcs
<1>4. EvidenceOK
    BY DEF EvidenceOK, EvidenceCountedOnce
<1>5. LoggedBeforeSideEffect
    BY DEF LoggedBeforeSideEffect
<1>6. ChargedBeforeRetry
    BY ConfigAssumption DEF ChargedBeforeRetry
<1>7. BudgetOvershoot
    <2>1. {e \in Exps : status[e] \in Settled} = {}
        BY DEF Settled
    <2>2. used = 0 /\ MaxExperiments + PortfolioSize - 1 >= 0
        BY ConfigAssumption
    <2>3. QED
        BY <2>1, <2>2, FS_EmptySet DEF BudgetOvershoot
<1>8. QED
    BY <1>1, <1>2, <1>3, <1>4, <1>5, <1>6, <1>7 DEF IInv

\* The invariant holds in every reachable state.
THEOREM Invariance == Spec => []IInv
<1>1. IInv /\ [Next]_vars => IInv'
    <2> SUFFICES ASSUME IInv, [Next]_vars PROVE IInv'
        OBVIOUS
    <2>1. /\ TypeOK /\ ControlOK /\ HandOK /\ EvidenceOK /\ HandoffOK
          /\ LoggedBeforeSideEffect /\ ChargedBeforeRetry /\ BudgetOvershoot
        BY DEF IInv
    <2>2. TypeOK' /\ ControlOK' /\ HandOK' /\ EvidenceOK'
        BY <2>1, TypeStep, ControlStep, HandStep, EvidenceStep
    <2>3. HandoffOK' /\ LoggedBeforeSideEffect' /\ ChargedBeforeRetry' /\ BudgetOvershoot'
        BY <2>1, HandoffStep, LoggedStep, ChargedStep, BudgetStep
    <2>4. QED
        BY <2>2, <2>3 DEF IInv
<1>2. QED
    BY <1>1, InvInit, PTL DEF Spec

\* Every variable keeps its type, whatever the configuration.
THEOREM TypeCorrect == Spec => []TypeOK
<1>1. IInv => TypeOK
    BY DEF IInv
<1>2. QED
    BY <1>1, Invariance, PTL

\* However often rounds are interrupted and resumed, no observation moves a
\* hypothesis twice, and none moves one without a verdict on a completed test.
THEOREM EvidenceIsCountedOnce == Spec => []EvidenceCountedOnce
<1>1. IInv => EvidenceCountedOnce
    BY DEF IInv, EvidenceOK
<1>2. QED
    BY <1>1, Invariance, PTL

\* For any portfolio size and any number of experiments: a commitment is
\* counted exactly once and the budget is overrun by less than one portfolio.
THEOREM BudgetIsBounded == Spec => []BudgetOvershoot
<1>1. IInv => BudgetOvershoot
    BY DEF IInv
<1>2. QED
    BY <1>1, Invariance, PTL

\* No exploitation goes on without a brief and no brief survives it.
THEOREM BriefOpensExploitation == Spec => []ExploitationNeedsBrief
<1>1. IInv => ExploitationNeedsBrief
    BY DEF IInv, HandoffOK
<1>2. QED
    BY <1>1, Invariance, PTL

\* The log knows of every attempt a worker has seen.
THEOREM HandOversAreLogged == Spec => []LoggedBeforeSideEffect
<1>1. IInv => LoggedBeforeSideEffect
    BY DEF IInv
<1>2. QED
    BY <1>1, Invariance, PTL

\* Retries are paid for in advance and never exceed the configured number.
THEOREM RetriesAreCharged == Spec => []ChargedBeforeRetry
<1>1. IInv => ChargedBeforeRetry
    BY DEF IInv
<1>2. QED
    BY <1>1, Invariance, PTL

\* The table of state_machine.py is respected by every move of the loop.
THEOREM MovesAreLegal == Spec => LegalMoves
<1>1. IInv /\ [Next]_vars => [loopState' # loopState => MayFollow(loopState, loopState')]_vars
    BY MoveStep DEF IInv
<1>2. QED
    BY <1>1, Invariance, PTL DEF Spec, LegalMoves

\* A round that is not interrupted leaves no verdict behind, whatever is judged in
\* whatever order.
THEOREM NoVerdictIsLost == Spec => []UninterruptedRoundLosesNothing
<1>1. Init => VerdictsOK
    BY DEF Init, VerdictsOK, InterpretPcs
<1>2. IInv /\ VerdictsOK /\ [Next]_vars => VerdictsOK'
    BY VerdictStep DEF IInv
<1>3. VerdictsOK => UninterruptedRoundLosesNothing
    BY DEF VerdictsOK, InterpretPcs, UninterruptedRoundLosesNothing
<1>4. QED
    BY <1>1, <1>2, <1>3, Invariance, PTL DEF Spec

\* With a synchronous executor and no death of the process, the outcome recorded is the
\* one of the latest attempt, for every number of retries.
THEOREM LatestAttemptCounts ==
    ASSUME Synchronous, MaxCrashes = 0
    PROVE  Spec => ImportedAttemptIsCurrent
<1> DEFINE Current == \A e \in Exps : status[e] = "running" /\ status'[e] # "running"
                          => held.answers = attempt[e] /\ held.attempt = attempt[e]
<1>1. Init => CurrentOK
    BY BoundAssumption DEF Init, CurrentOK
<1>2. IInv /\ CurrentOK /\ [Next]_vars => CurrentOK'
    BY CurrentStep DEF IInv
<1>3. IInv /\ CurrentOK /\ [Next]_vars => [Current]_vars
    BY OnlyImportEnds DEF IInv
<1>4. QED
    BY <1>1, <1>2, <1>3, Invariance, PTL DEF Spec, ImportedAttemptIsCurrent

\* Outcomes, observations, rejections and selections are final.
THEOREM OutcomesAreFinal == Spec => OneOutcomePerExperiment
<1>1. IInv /\ [Next]_vars => [OneOutcome]_vars
    BY OutcomeStep DEF IInv
<1>2. QED
    BY <1>1, Invariance, PTL DEF Spec, OneOutcomePerExperiment

=============================================================================
