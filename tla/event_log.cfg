SPECIFICATION Spec
CONSTANTS
    r1 = r1
    r2 = r2
    Procs = {p1, p2}
    Runs <- MCRuns
    Nobody = nobody
    MaxEvents <- MCMaxEvents
    MaxReplays = 1
    MaxCrashes = 1
CHECK_DEADLOCK FALSE
INVARIANTS TypeOK ChainIntact TerminalUpToRaces PosteriorMovedOnce
PROPERTIES ReplayPutsRight EveryCallEnds ImplementsHistory
