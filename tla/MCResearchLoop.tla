--------------------------- MODULE MCResearchLoop ---------------------------
(***************************************************************************)
(* Instances of ResearchLoop for TLC: which hypotheses the experiments were *)
(* designed to test, and what their workers can charge.                    *)
(***************************************************************************)
EXTENDS ResearchLoop, TLC

CONSTANTS h1, h2

OneHypothesis == {h1}
TwoHypotheses == {h1, h2}

\* Every experiment bears on every hypothesis.
TestsAll == [e \in 1..MaxProposals |-> Hyps]

\* Nothing tells the hypotheses apart; used for safety properties only.
Symmetry == Permutations({h1, h2})

OneHour == {1}
OneOrTwoHours == {1, 2}
=============================================================================
