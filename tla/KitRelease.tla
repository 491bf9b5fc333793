------------------------------- MODULE KitRelease -------------------------------
(***************************************************************************)
(* Staged kit releases: what load_kit_release admits, what a catalog of    *)
(* staged sources lists, and what a coordinate of one source loads.        *)
(*                                                                         *)
(* A staged release is a directory kits/<kit>/<version> of one source. Its *)
(* draft says which members it has and what the manifest, the RAES module  *)
(* and the associated-artifact manifest among them declare.                *)
(***************************************************************************)
EXTENDS FiniteSets, Naturals, Sequences, Functions

CONSTANTS Staged,        \* staged release directories
          Draft,         \* directory -> what it holds
          Sources,       \* KitSource descriptors: [id, revision, root]
          SourceIds,     \* well-formed source ids
          Revisions,     \* non-blank, bounded revisions without secrets
          KitIds,        \* well-formed kit ids
          Versions,      \* well-formed exact versions
          Members,       \* canonical member names of a release
          SafeTargets,   \* pack paths below the closed asset prefixes
          PublicTargets, \* those below assets/content/ and assets/briefing/
          SecretNames,   \* parameter names with a secret-shaped fragment
          Behavior,      \* forbidden module sections: agents, objectives, ...
          MaxBytes       \* KitLimits.max_total_bytes

DeclaredCoordinate(r) == <<Draft[r].document.id, Draft[r].document.version>>

(* The schema of kit.yaml has the patterns that ids and versions match.     *)
ASSUME KitReleaseAssumption ==
  /\ PublicTargets \subseteq SafeTargets
  /\ MaxBytes \in Nat
  /\ \A r \in Staged : Draft[r].document.schema = {} =>
       DeclaredCoordinate(r) \in KitIds \X Versions

Manifest == "kit.yaml"
RequiredTests == {"validate", "parameter-variation", "multi-kit"}
Column(rows, field) == [i \in DOMAIN rows |-> rows[i][field]]
ExactCoordinates(rows) ==
  {<<p.id, p.version>> : p \in {q \in Range(rows) : q.kind = "kit"}}

--------------------------------------------------------------------------------
(* validate_kit_document: the violations of one kit.yaml. *)

Flag(code, broken) == IF broken THEN {code} ELSE {}

IdentityViolations(doc) ==
  Flag("non-empty", doc.blank # {})
    \cup Flag("terminal-control", doc.control)
    \cup Flag("path", ~({doc.module, doc.artifacts} \subseteq Members))

ResourceViolations(doc) == Flag("positive", ~(Range(doc.resources) \subseteq Nat \ {0}))

AssetViolations(doc) ==
  Flag("path", ~(Range(Column(doc.assets, "source")) \subseteq Members))
    \cup Flag("safe-target", ~(Range(Column(doc.assets, "target")) \subseteq SafeTargets))
    \cup Flag("duplicate", \E field \in {"target", "artifact"} :
                             ~IsInjective(Column(doc.assets, field)))

TestViolations(doc) ==
  Flag("required", ~(RequiredTests \subseteq Range(Column(doc.tests, "kind"))))
    \cup Flag("path", ~(Range(Column(doc.tests, "path")) \subseteq Members))
    \cup Flag("duplicate", ~IsInjective(doc.tests))

ComponentViolations(doc) ==
  Flag("required", doc.components = {})
    \cup Flag("authority", \E c \in doc.components :
                             /\ c.scope \in {"shipped", "pinned"}
                             /\ c.authority = "author-declared-external")

PrerequisiteViolations(doc) ==
  Flag("duplicate", ~IsInjective(doc.prerequisites))
    \cup Flag("identity", ~(ExactCoordinates(doc.prerequisites)
                              \subseteq KitIds \X Versions))

Violations(doc) ==
  doc.schema \cup doc.secrets
    \cup IdentityViolations(doc) \cup ResourceViolations(doc)
    \cup AssetViolations(doc) \cup TestViolations(doc)
    \cup ComponentViolations(doc) \cup PrerequisiteViolations(doc)

--------------------------------------------------------------------------------
(* load_kit_release: every check raises KitError. *)

LoadsDocument(d) ==
  /\ Manifest \in d.members
  /\ d.document.strict
  /\ Violations(d.document) = {}

RequiredPaths(doc) ==
  {doc.module, doc.artifacts}
    \cup Range(Column(doc.assets, "source")) \cup Range(Column(doc.tests, "path"))

(* Defect: only the parsed module is asked for behaviour. *)
RawUnchecked(raw) == raw.parameters \cap SecretNames = {}

(* The module as written: sections RAES would drop are refused too. *)
RawModuleAdmitted(raw) ==
  /\ raw.sections \cap Behavior = {}
  /\ raw.parameters \cap SecretNames = {}

LoadsScenario(d) ==
  /\ d.module.strict
  /\ RawModuleAdmitted(d.module.raw)
  /\ d.module.parsed.valid
  /\ d.module.parsed.version = d.document.version
  /\ d.module.parsed.parameters \cap SecretNames = {}
  /\ d.module.parsed.sections \cap Behavior = {}

(* Each artifact is read once, within the budget, and matches its record. *)
LoadsArtifacts(d) ==
  LET at == d.manifest.paths
  IN /\ Range(at) \subseteq d.members
     /\ IsInjective(at)
     /\ d.document.artifacts \notin Range(at)
     /\ SumFunctionOnSet(d.size, Range(at) \cup {d.document.artifacts}) <= MaxBytes
     /\ Range(at) = d.members \ {d.document.artifacts}
     /\ DOMAIN at \subseteq d.manifest.bound

LoadsManifest(d) ==
  /\ d.manifest.strict
  /\ d.manifest.of = <<d.document.id, d.document.version>>
  /\ LoadsArtifacts(d)
  /\ d.manifest.parent = d.module.digest

Loads(r) ==
  LET d == Draft[r]
  IN /\ d.refused = {}                         \* admit_members
     /\ LoadsDocument(d)
     /\ RequiredPaths(d.document) \subseteq d.members
     /\ LoadsScenario(d)
     /\ LoadsManifest(d)
     /\ d.later = d.members                    \* the inventory is taken again

--------------------------------------------------------------------------------
(* Discovery. *)

ValidSource(s) == s.id \in SourceIds /\ s.revision \in Revisions

(* _source_release_roots: three components deep, with a kit.yaml. *)
RootsOf(s) ==
  {r \in Staged : Draft[r].tree = s.root /\ Manifest \in Draft[r].members}

Inspectable(r) ==
  Draft[r].module.parsed.parameters \subseteq Draft[r].module.parsed.variables

PathIsIdentity(r) == Draft[r].path = DeclaredCoordinate(r)

Entry(s, r) ==
  [source |-> s.id, revision |-> s.revision, coordinate |-> DeclaredCoordinate(r),
   required |-> ExactCoordinates(Draft[r].document.prerequisites),
   words |-> Draft[r].document.words]

Listed(sources) == {x \in sources \X Staged : x[2] \in RootsOf(x[1])}

BuildsCatalog(sources) ==
  /\ \A s \in sources : ValidSource(s)
  /\ \A x \in Listed(sources) : Loads(x[2]) /\ PathIsIdentity(x[2]) /\ Inspectable(x[2])
  /\ \A x, y \in Listed(sources) :
       x[1].id = y[1].id /\ DeclaredCoordinate(x[2]) = DeclaredCoordinate(y[2]) => x = y

Catalog(sources) == {Entry(x[1], x[2]) : x \in Listed(sources)}
Search(sources, word) == {e \in Catalog(sources) : word \in e.words}

(* source_release: the one release at a coordinate, or none. *)
SourceRelease(s, coordinate) ==
  {r \in Staged :
     /\ ValidSource(s)
     /\ coordinate \in KitIds \X Versions
     /\ Draft[r].tree = s.root
     /\ Draft[r].path = coordinate
     /\ Loads(r)
     /\ DeclaredCoordinate(r) = coordinate}
================================================================================
