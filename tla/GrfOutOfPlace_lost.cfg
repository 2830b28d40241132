SPECIFICATION Spec
CONSTANTS
  Path = {p1, p2, p3}
  Create = {FALSE}
  Faults = {"import"}
  MaxAttempts = 2
INVARIANTS UntouchedKept
CHECK_DEADLOCK FALSE
