----------------------------- MODULE MCEventLog -----------------------------
(***************************************************************************)
(* EventLog for TLC: two processes, a run that is written to and one that  *)
(* only exists, so that a replay of either empties the tables of the other.*)
(***************************************************************************)
EXTENDS EventLog

CONSTANTS r1, r2

MCRuns == {r1, r2}
MCMaxEvents == [r \in MCRuns |-> IF r = r1 THEN 2 ELSE 1]

=============================================================================
