\* A ticket-filing executor, portfolios of two, two deaths of the process.
SPECIFICATION FairSpec
CONSTANTS
    h1 = h1
    h2 = h2
    Hyps <- TwoHypotheses
    MaxProposals = 2
    Tests <- TestsAll
    MaxActive = 2
    PortfolioSize = 2
    MaxExperiments = 3
    MaxCpu = 5
    Estimate = 1
    Charges <- OneHour
    MaxRetries = 1
    UpdatesBeliefs = TRUE
    Synchronous = FALSE
    MaxCrashes = 2
PROPERTY InterruptedRunComesBack
