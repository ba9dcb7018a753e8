SPECIFICATION Spec
CONSTANTS
    a1 = a1  h1 = h1  h2 = h2  e1 = e1  e2 = e2
    Agents = {a1}
    Hypotheses = {h1, h2}
    Experiments = {e1, e2}
    Producing = {e1, e2}
    Requirements = {r1}
    NoDebt = none
    Owner <- MCOwner
    Proposer <- MCProposer
    About <- MCAbout
    Followed = {h1}
    MaxRestarts = 1
CHECK_DEADLOCK FALSE
INVARIANTS TypeOK CandidatesOwe SharedFactsOweNothing AssessedValidOwesNothing ControlIsTrue
