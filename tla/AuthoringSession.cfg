SPECIFICATION Spec
CONSTANTS
  Packs = {k1}
  Missing = missing
  MaxProposals = 4
  MaxEdits = 1
  AllowPrepare = TRUE
  AllowWrites = TRUE
  Faults = TRUE
  Wizards = {w1}
  Session = session
  Drafts <- MCDrafts
  Documents <- MCDocuments
  Sayings <- MCSayings
INVARIANTS
  
  OneReachableProposal
  ProposalsAreSound
PROPERTIES
  SessionKeepsWork
CHECK_DEADLOCK FALSE
