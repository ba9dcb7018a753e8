SPECIFICATION Spec
CONSTANTS
    Procs = {p1, p2}
    Reconcilers = {p1}
    Files = {f1, f2}
    NoFile = none
    Strays = {2}
    DailyCap = 1
    MaxRows = 3
    MaxDays = 2
    MaxReconciled = 0
    MaxCrashes = 1
SYMMETRY AnyFile
CHECK_DEADLOCK FALSE
INVARIANTS TypeOK SpendRecorded DailyAllowance SameBytesOnce RepairedInFull ScoresMeetTheirArtifacts
