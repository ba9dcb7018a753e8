------------------------ MODULE StructureMaturation ------------------------
(***************************************************************************)
(* Structural hypotheses on disk (controller/structure_maturation.py): the *)
(* lifecycle of each, its validation debt, its maturation fork and its     *)
(* assessment, one file each.  Every operator here is one write of the     *)
(* controller; MultiIsland composes them into its operations.              *)
(***************************************************************************)
EXTENDS FiniteSets

CONSTANTS
    Hypotheses,    \* structural hypotheses
    Requirements,  \* what the debt of a hypothesis asks for
    Experiments,   \* experiments, each naming the candidate it may produce
    NoDebt         \* there is no debt file

ASSUME HypothesesAssumption == IsFiniteSet(Hypotheses)
ASSUME NoDebtAssumption == NoDebt \notin [open : SUBSET Requirements, affects : SUBSET Experiments]

VARIABLES
    lifecycle,   \* lifecycle[h]: its state, "absent" before it is registered
    debt,        \* debt[h]: the requirements without an artifact and the candidates affected
    fork,        \* fork[h]: "none", "active" or "dissolved"
    assessment   \* assessment[h]: "none" or the lifecycle state it was assessed to

structures == <<lifecycle, debt, fork, assessment>>

Terminal == {"validated_structure", "useful_encoding", "non_actionable", "falsified", "inconclusive"}
Lifecycles == {"observation", "provisional", "alternatives", "preregistered", "partial"} \cup Terminal
Debts == [open : SUBSET Requirements, affects : SUBSET Experiments]

\* _ALLOWED_TRANSITIONS.
Allowed ==
    [s \in Lifecycles |->
        CASE s = "observation" -> {"provisional"}
          [] s = "provisional" -> {"alternatives"}
          [] s = "alternatives" -> {"preregistered"}
          [] s = "preregistered" -> {"partial", "falsified", "inconclusive"}
          [] s = "partial" -> Terminal
          [] OTHER -> {}]

Registered(h) == lifecycle[h] # "absent"
HasDebt(h) == debt[h] # NoDebt
InDebt(h) == HasDebt(h) /\ debt[h].open # {}
OpenDebts == {h \in Hypotheses : InDebt(h)}
ActiveForks == {h \in Hypotheses : fork[h] = "active"}

-----------------------------------------------------------------------------
\* register: agents begin with an observation or a provisional structure.
Register(h, s) ==
    /\ ~Registered(h)
    /\ s \in {"observation", "provisional"}
    /\ lifecycle' = [lifecycle EXCEPT ![h] = s]
    /\ UNCHANGED <<debt, fork, assessment>>

\* advance: the owner hands in the hypothesis in its next state, the terminal ones
\* included.
Advance(h, s) ==
    /\ Registered(h)
    /\ s \in Allowed[lifecycle[h]]
    /\ lifecycle' = [lifecycle EXCEPT ![h] = s]
    /\ UNCHANGED <<debt, fork, assessment>>

\* preregister_test, for a test the critic passes: the first one advances.
Preregister(h) ==
    /\ lifecycle[h] \in {"alternatives", "preregistered"}
    /\ lifecycle' = [lifecycle EXCEPT ![h] = "preregistered"]
    /\ UNCHANGED <<debt, fork, assessment>>

\* create_fork, for a hypothesis with the leverage it takes.
CreateFork(h) ==
    /\ lifecycle[h] \in {"alternatives", "preregistered", "partial"}
    /\ fork[h] # "active"
    /\ fork' = [fork EXCEPT ![h] = "active"]
    /\ UNCHANGED <<lifecycle, debt, assessment>>

DissolveFork(h) ==
    /\ fork[h] # "none"
    /\ fork' = [fork EXCEPT ![h] = "dissolved"]
    /\ UNCHANGED <<lifecycle, debt, assessment>>

\* Slip: a candidate that comes later replaces the debt there is.
OpenDebtAgain(h, e) ==
    /\ debt' = [debt EXCEPT ![h] = [open |-> Requirements, affects |-> {e}]]
    /\ UNCHANGED <<lifecycle, fork, assessment>>

\* open_debt: a candidate that comes later joins the debt there is, resolved or not.
OpenDebt(h, e) ==
    /\ debt' = [debt EXCEPT ![h] = IF HasDebt(h)
                                   THEN [debt[h] EXCEPT !.affects = @ \cup {e}]
                                   ELSE [open |-> Requirements, affects |-> {e}]]
    /\ UNCHANGED <<lifecycle, fork, assessment>>

\* resolve_requirement, whatever the outcome; one that is resolved may be so again.
Resolve(h, requirement) ==
    /\ HasDebt(h)
    /\ debt' = [debt EXCEPT ![h].open = @ \ {requirement}]
    /\ UNCHANGED <<lifecycle, fork, assessment>>

\* What a conclusive assessment comes to: validity counts once the debt is resolved,
\* and a structure without a debt has not resolved one.
Verdict(h, valid, useful) ==
    LET resolved == HasDebt(h) /\ ~InDebt(h)
    IN  CASE valid /\ resolved /\ useful -> "validated_structure"
          [] valid /\ resolved /\ ~useful -> "non_actionable"
          [] ~(valid /\ resolved) /\ useful -> "useful_encoding"
          [] OTHER -> "falsified"

\* assess_promotion writes the hypothesis first, and its assessment afterwards.
Assess(h, s) ==
    /\ Registered(h)
    /\ s \in Allowed[lifecycle[h]]
    /\ lifecycle' = [lifecycle EXCEPT ![h] = s]
    /\ UNCHANGED <<debt, fork, assessment>>

WriteAssessment(h, s) ==
    /\ assessment' = [assessment EXCEPT ![h] = s]
    /\ UNCHANGED <<lifecycle, debt, fork>>

NoStructures ==
    /\ lifecycle = [h \in Hypotheses |-> "absent"]
    /\ debt = [h \in Hypotheses |-> NoDebt]
    /\ fork = [h \in Hypotheses |-> "none"]
    /\ assessment = [h \in Hypotheses |-> "none"]

=============================================================================
