SPECIFICATION Spec
CONSTANTS
  signedArchive = signedArchive
  plainArchive = plainArchive
  largeArchive = largeArchive
  signedRelease = signedRelease
  plainRelease = plainRelease
  PathOrder <- MCPathOrder
  SizeOf <- MCSizeOf
  MaxCount = 2
  MaxMemberSize = 2
  MaxTotalSize = 3
  Refused = refused
  Missing = missing
  Consumers = {c1, c2}
  Archives = {signedArchive, plainArchive, largeArchive}
  Packed <- MCPacked
  Unpacked <- MCUnpacked
  Releases = {signedRelease, plainRelease}
  TreeOf <- MCTreeOf
  PackOf <- MCPackOf
  UnknownPack <- MCUnknown
  Directories = {"signed", "plain", "mixed", "local"}
  DirectoryOf <- MCDirectoryOf
  Trusted = {"set1"}
  Builds <- MCBuilds
  Trees <- MCTrees
  Foreign = foreign
  None = none
  Empty = empty
  Unreadable = unreadable
  Faults = TRUE
  Republications = 2
  UserMoves = 1
PROPERTIES
  InstallReplacesNothing
CHECK_DEADLOCK FALSE
