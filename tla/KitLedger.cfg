SPECIFICATION Spec
CONSTANTS
  gw1 = gw1
  gw2 = gw2
  client = client
  probe = probe
  exposed = exposed
  acting = acting
  dropped = dropped
  tokened = tokened
  loose = loose
  moved = moved
  grown = grown
  heavy = heavy
  untested = untested
  shelf = shelf
  gateway = gateway
  consumer = consumer
  prober = prober
  v1 = v1
  v2 = v2
  conf = conf
  doc = doc
  etc = etc
  Staged = {gw1, gw2, client, probe, exposed, acting, dropped, tokened, loose, moved,
            grown, heavy, untested, etc}
  Draft <- StagedDrafts
  Sources <- StagedSources
  SourceIds = {"shelf"}
  Revisions = {"r1"}
  KitIds = {gateway, consumer, prober}
  Versions = {v1, v2}
  Members = {"kit.yaml", "artifacts", "module", "suite", "payload"}
  SafeTargets = {conf, doc}
  PublicTargets = {doc}
  SecretNames = {"api_token"}
  Behavior = {"objectives", "scripts"}
  MaxBytes = 9
  Namespaces = {n1, n2}
  Targets = {t1, t2}
  Lock = lock
  ParameterSets <- Asked
  UnfitValues = {"NaN"}
  SecretValues = {"AKIA"}
  Editable = {conf, doc}
  PackAuthor = packAuthor
  Authored = authored
  Absent = absent
  Unbound = unbound
SYMMETRY Interchangeable
INVARIANTS
  LedgerTellsOneStory
  NoOrphanedKitFile
  DiagnosticsSuffice
  RemovalOrderExists
  KitsAreInert
PROPERTIES
  UnownedFilesUntouched
  ArtifactIdsAreStable
