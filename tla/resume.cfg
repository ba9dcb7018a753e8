\* A ticket-filing executor, portfolios of two, two deaths of the process.
SPECIFICATION Spec
CONSTANTS
    h1 = h1
    h2 = h2
    Hyps <- TwoHypotheses
    MaxProposals = 3
    Tests <- TestsAll
    MaxActive = 2
    PortfolioSize = 2
    MaxExperiments = 3
    MaxCpu = 5
    Estimate = 1
    Charges <- OneHour
    MaxRetries = 1
    UpdatesBeliefs = TRUE
    Synchronous = FALSE
    MaxCrashes = 2
SYMMETRY Symmetry
INVARIANTS
    TypeOK
    EvidenceCountedOnce
    ExploitationNeedsBrief
    LoggedBeforeSideEffect
    ChargedBeforeRetry
PROPERTIES
    LegalMoves
    OneOutcomePerExperiment
