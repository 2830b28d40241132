SPECIFICATION Spec
CONSTANTS
  Path = {p1, p2, p3}
  Create = {TRUE, FALSE}
  Faults = {"create", "rename", "open", "new", "import", "finish", "remove", "crash"}
  MaxAttempts = 3
SYMMETRY Symmetry
INVARIANTS TypeOK OneIsWhole SuccessMeansPatched OkNeverStale
CHECK_DEADLOCK FALSE
