\* A synchronous executor, portfolios of two, no death of the process.
SPECIFICATION FairSpec
CONSTANTS
    h1 = h1
    h2 = h2
    Hyps <- TwoHypotheses
    MaxProposals = 3
    Tests <- TestsAll
    MaxActive = 2
    PortfolioSize = 2
    MaxExperiments = 3
    MaxCpu = 6
    Estimate = 1
    Charges <- OneOrTwoHours
    MaxRetries = 2
    UpdatesBeliefs = TRUE
    Synchronous = TRUE
    MaxCrashes = 0
INVARIANTS
    UninterruptedRoundLosesNothing
PROPERTIES
    ImportedAttemptIsCurrent
    EveryRoundComesBack
