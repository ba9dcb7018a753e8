\* A synchronous executor, one experiment, one death of the process.
SPECIFICATION FairSpec
CONSTANTS
    h1 = h1
    h2 = h2
    Hyps <- OneHypothesis
    MaxProposals = 1
    Tests <- TestsAll
    MaxActive = 2
    PortfolioSize = 1
    MaxExperiments = 2
    MaxCpu = 4
    Estimate = 1
    Charges <- OneHour
    MaxRetries = 1
    UpdatesBeliefs = TRUE
    Synchronous = TRUE
    MaxCrashes = 1
PROPERTY EveryInterruptedRoundComesBack
