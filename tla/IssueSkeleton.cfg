SPECIFICATION Spec
CONSTANTS
  Runs = {r1, r2, r3}
  Templates = 2
  Renamed = {2}
  MaxFaults = 2
  MaxMeddling = 1
SYMMETRY Interchangeable
INVARIANTS
  RerunsConverge
  RunsFailOnlyFromFaults
PROPERTIES
  RerunsKeepIssues
CHECK_DEADLOCK FALSE
