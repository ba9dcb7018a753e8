SPECIFICATION Spec
CONSTANTS
    Procs = {p1, p2}
    c1 = c1
    c2 = c2
    e1 = e1
    Made <- MCMade
    Ensembles = {e1}
    Cell <- MCCell
    Quality <- MCQuality
    Cost <- MCCost
    Robustness <- MCRobustness
    Reproducible = {c1, c2}
    Members <- MCMembers
    Gain <- MCGain
    MaximumSize = 1
    Floor = 97
    Feedback = "numeric"
    MaxQueries = 1
    MaxDiversity = 1
SYMMETRY AnyProc
CHECK_DEADLOCK FALSE
INVARIANTS TypeOK LockedAnswerStands ReadsAreBudgeted
PROPERTY OnlyStaleCallsTakeBack
