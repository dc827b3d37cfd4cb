SPECIFICATION Spec
CONSTANTS
  None = None
  Pending = Pending
  Kinds = {"window", "reconcile", "normalize", "select", "multiple", "folds", "features", "search", "build", "backtest", "benchmark", "analysis",
           "operator", "observe"}
CHECK_DEADLOCK FALSE
INVARIANTS AcquiredIsLoadable SelectedIsComparable EvidenceLooksBack ReloadsAsComputed BuilderIsExhaustive
    BacktestReproducible
