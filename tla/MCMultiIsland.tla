--------------------------- MODULE MCMultiIsland ---------------------------
(***************************************************************************)
(* MultiIsland for TLC: one agent with two hypotheses and two experiments  *)
(* about the first, whose candidates may use the second as well.           *)
(***************************************************************************)
EXTENDS MultiIsland

CONSTANTS a1, h1, h2, e1, e2

MCOwner == [h \in Hypotheses |-> a1]
MCProposer == [e \in Experiments |-> a1]
MCAbout == [e \in Experiments |-> h1]

=============================================================================
