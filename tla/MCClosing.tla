----------------------------- MODULE MCClosing -----------------------------
(***************************************************************************)
(* Closing for TLC: a candidate ahead in quality, one inside its tolerance *)
(* that is cheaper, both in one cell.                                      *)
(***************************************************************************)
EXTENDS Closing

CONSTANTS c1, c2, e1

MCMade == <<c1, c2>>
MCCell == [c \in {c1, c2} |-> "cell"]
MCQuality == (c1 :> 90) @@ (c2 :> 88)
MCCost == (c1 :> 2) @@ (c2 :> 1)
MCRobustness == [c \in {c1, c2} |-> 0]
MCMembers == e1 :> {c1, c2}
MCGain == e1 :> 1

AnyProc == Permutations(Procs)

=============================================================================
