CONSTANTS
    a1 = a1
    a2 = a2
    b1 = b1
    b2 = b2
    x = x
    y = y
    NULL = NULL
    Models <- MCModels
    ScopeOf <- MCScopeOf
    CliModels = {x, y}
    Backtests <- MCBacktests
    Policies <- MCPolicies
    AsOfs = {1, 2}
    MaxDecisions = 1
    MaxTransitions = 2
    Histories <- MCHistories
    CandidatesOf <- MCCandidatesOf
    ProductScope = "football/match-result-1x2"
    TournamentEvidence <- MCTournamentEvidence
    DefaultPolicy <- MCDefaultPolicy
    Callers = {1}
    Events = {"e", "f"}
    Positions = {"single", "double", "lost"}
    LegsOf <- MCLegsOf
    Published <- MCPublished
    Jobs = {j1}
    SettlementTimes = {1}
    EvidenceSets = {{"analysis"}}
    None = None
SPECIFICATION LearningSpec
INVARIANT EveryCompetitionServed
