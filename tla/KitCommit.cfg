SPECIFICATION Spec
CONSTANTS
  Appliers = {p1, p2}
  Members = {m1, m2}
  RenameEdits = {e1}
  HandleEdits = {h1}
  Original = original
  Faults = TRUE
  Crashes = TRUE
SYMMETRY Interchangeable
INVARIANTS
  TypeOK
  SavedWorkSurvives
  RecoveryKeepsOriginal
  LiveTreeIsWhole
  OneSuccessorPerBase
PROPERTIES
  CommitIsCompareAndSwap
CHECK_DEADLOCK FALSE
