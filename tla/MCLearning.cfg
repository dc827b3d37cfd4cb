SPECIFICATION LearningSpec
CONSTANTS
    a1 = a1
    a2 = a2
    b1 = b1
    b2 = b2
    x = x
    y = y
    NULL = NULL
    Models <- MCModels
    ScopeOf <- MCScopeOf
    CliModels = {x, y}
    Backtests <- MCBacktests
    Policies <- MCPolicies
    AsOfs = {1, 2}
    MaxDecisions = 3
    MaxTransitions = 4
    Histories <- MCOneHistory
    CandidatesOf <- MCCandidatesOf
    ProductScope = "football/match-result-1x2"
    TournamentEvidence <- MCTournamentEvidence
    DefaultPolicy <- MCDefaultPolicy
    Callers = {1}
    Events = {"e", "f"}
    Positions = {"single", "double", "lost"}
    LegsOf <- MCLegsOf
    Published <- MCPublished
    Jobs = {j1, j2}
    SettlementTimes = {1, 2}
    EvidenceSets = {{"analysis"}}
    None = None
SYMMETRY JobSymmetry
INVARIANTS GovernedRegistry NoStalePromotion SettledFromEvidence HistoryIsWhole
PROPERTIES FinalIsFinal
