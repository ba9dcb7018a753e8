----------------------------- MODULE LoopStates -----------------------------
(***************************************************************************)
(* The states of a research run's loop and the moves between them that     *)
(* controller/state_machine.py permits.  The module has no variables: the  *)
(* specifications of the controller and of the unattended loop extend it.  *)
(***************************************************************************)

LoopStates ==
    {"created", "observing", "hypothesizing", "planning", "scoring",
     "selecting", "executing", "parsing", "falsifying", "updating",
     "phase_decision", "exploiter_handoff", "finalizing", "completed",
     "blocked", "failed"}

\* The table TRANSITIONS, one disjunct per row that has a successor:
\* "completed", "blocked" and "failed" have none.
MayFollow(s, t) ==
    \/ s = "created"        /\ t \in {"observing", "blocked", "failed"}
    \/ s = "observing"      /\ t \in {"hypothesizing", "blocked", "failed"}
    \/ s = "hypothesizing"  /\ t \in {"planning", "blocked", "failed"}
    \/ s = "planning"       /\ t \in {"scoring", "finalizing", "blocked", "failed"}
    \/ s = "scoring"        /\ t \in {"selecting", "blocked", "failed"}
    \/ s = "selecting"      /\ t \in {"executing", "planning", "finalizing", "blocked"}
    \/ s = "executing"      /\ t \in {"parsing", "planning", "blocked", "failed"}
    \/ s = "parsing"        /\ t \in {"falsifying", "planning", "failed"}
    \/ s = "falsifying"     /\ t \in {"updating", "failed"}
    \/ s = "updating"       /\ t \in {"phase_decision", "failed"}
    \/ s = "phase_decision" /\ t \in {"hypothesizing", "planning", "exploiter_handoff",
                                      "finalizing", "blocked"}
    \/ s = "exploiter_handoff" /\ t \in {"planning", "finalizing", "blocked"}
    \/ s = "finalizing"     /\ t \in {"completed", "blocked", "failed"}

=============================================================================
