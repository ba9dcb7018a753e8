\* A mode without beliefs, a ticket-filing executor, no death of the process.
SPECIFICATION FairSpec
CONSTANTS
    h1 = h1
    h2 = h2
    Hyps <- OneHypothesis
    MaxProposals = 4
    Tests <- TestsAll
    MaxActive = 2
    PortfolioSize = 2
    MaxExperiments = 2
    MaxCpu = 5
    Estimate = 1
    Charges <- OneHour
    MaxRetries = 1
    UpdatesBeliefs = FALSE
    Synchronous = FALSE
    MaxCrashes = 0
INVARIANT BudgetOvershoot
PROPERTY EveryRoundComesBack
