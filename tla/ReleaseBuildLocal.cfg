SPECIFICATION Spec
CONSTANTS
  Missing = missing
  Addresses = {"node", "elsewhere"}
  DigestOf <- MCDigestOf
  GovernedArtifacts = {"x1", "x2", "x3"}
  GovernedMechanisms = {"oci", "http"}
  TrustedProfiles = {"stub"}
  Ambiguous = ambiguous
  Nothing = nothing
  Unavailable = unavailable
  NoDigest = nodigest
  BadDigest = baddigest
  Builders = {b1, b2}
  Views = {"participant", "operator"}
  EditsOf <- MCEditsOf
  PackAt <- MCPackAt
  Holds <- MCHolds
  Leaking = {1}
  None = none
  Serialised = TRUE
  Crashes = FALSE
  Rows <- MCRows
  Authored <- MCAuthored
  Memberships <- MCMemberships
  Packs <- MCPacks
  PackTrees <- MCPackTrees
  Boundaries <- MCBoundaries
SYMMETRY Interchangeable
PROPERTIES
  PublishedStaysPublished
CHECK_DEADLOCK FALSE
