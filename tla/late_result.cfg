\* A ticket-filing executor, two experiments, no death of the process.
SPECIFICATION FairSpec
CONSTANTS
    h1 = h1
    h2 = h2
    Hyps <- OneHypothesis
    MaxProposals = 2
    Tests <- TestsAll
    MaxActive = 2
    PortfolioSize = 1
    MaxExperiments = 2
    MaxCpu = 4
    Estimate = 1
    Charges <- OneHour
    MaxRetries = 1
    UpdatesBeliefs = TRUE
    Synchronous = FALSE
    MaxCrashes = 0
PROPERTY LateResultCollected
