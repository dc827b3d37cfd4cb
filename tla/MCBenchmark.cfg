SPECIFICATION Spec
CONSTANTS
  None = None
  Pending = Pending
  Kinds = {"benchmark"}
CHECK_DEADLOCK FALSE
INVARIANT BenchmarkPublishes
