SPECIFICATION Spec
CONSTANTS
  Processes = {p1, p2, p3}
  OldLogs = {0, 2}
  MaxLines = 2
SYMMETRY ProcessSymmetry
INVARIANTS
  NoLogIsLost
  NumbersTellAge
  NoLineIsLost
  LogsAreFresh
  OnlyDisturbedFail
\* The processes end.
CHECK_DEADLOCK FALSE
