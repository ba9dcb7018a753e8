\* A synchronous executor, portfolios of two, no death of the process.
SPECIFICATION FairSpec
CONSTANTS
    h1 = h1
    h2 = h2
    Hyps <- OneHypothesis
    MaxProposals = 2
    Tests <- TestsAll
    MaxActive = 2
    PortfolioSize = 2
    MaxExperiments = 3
    MaxCpu = 4
    Estimate = 1
    Charges <- OneHour
    MaxRetries = 1
    UpdatesBeliefs = TRUE
    Synchronous = TRUE
    MaxCrashes = 0
INVARIANT RefusedRetryCostsNothing
