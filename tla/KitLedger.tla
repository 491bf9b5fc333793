------------------------------- MODULE KitLedger -------------------------------
(***************************************************************************)
(* The kit materialization ledger of one pack: which kit releases are      *)
(* installed under which namespace, which files each of them owns, and     *)
(* what add, update, replace and remove do to the pack and to the ledger.  *)
(*                                                                         *)
(* The releases are those their staged sources load (KitRelease).          *)
(*                                                                         *)
(* One kit operation is the proposal built from a capture of the pack and  *)
(* its commit, which KitCommit shows to be one compare-and-swap; the       *)
(* author's own edits happen between operations.  A kit file is the        *)
(* release whose bytes it holds, an SDL document is the set of imports it  *)
(* lists and whether its author edited it since its baseline was taken, and *)
(* the lock is the set of import records resolved over all SDL documents.  *)
(* The pack's associated-artifact manifest gives each member an artifact   *)
(* id, and each row of the ledger records one as well.                     *)
(***************************************************************************)
EXTENDS KitRelease

CONSTANTS Namespaces,    \* well-formed materialization ids
          Targets,       \* direct sdl/*.sdl.yaml documents of the pack
          Lock,          \* sdl/raes.lock.json
          ParameterSets, \* what an author may ask a kit to be given
          UnfitValues,   \* no finite scalars, or too long
          SecretValues,  \* secrets and environment coordinates
          Editable,      \* bound: the kit files an author may edit
          PackAuthor,    \* the "pack-author" owner of shared files
          Authored,      \* bytes the author wrote into a kit path
          Absent,        \* no member at this path
          Unbound        \* no artifact id

(* _source_matches_release *)
SourceMatches(s, r) ==
  ValidSource(s) /\ Draft[r].tree = s.root /\ Draft[r].path = DeclaredCoordinate(r)

Releases == {r \in Staged : Loads(r)}
Offers == {x \in Sources \X Releases : SourceMatches(x[1], x[2])}

CoordinateOf == [r \in Staged |-> DeclaredCoordinate(r)]
DepsOf == [r \in Staged |-> ExactCoordinates(Draft[r].document.prerequisites)]
AssetRows == [r \in Staged |-> Range(Draft[r].document.assets)]
AssetsOf == [r \in Staged |-> {a.target : a \in AssetRows[r]}]

KitOf(coordinate) == coordinate[1]
Assets == SafeTargets
Modules == Namespaces \X Range(CoordinateOf)  \* sdl/kits/<ns>/<kit>/<version>/
Paths == Modules \cup Assets \cup Targets \cup {Lock}

VARIABLE pack   \* [files, mats, owners, baseline, rows, bound]

MatRecord == [ns : Namespaces, release : Releases, target : Targets,
              source : Sources, parameters : ParameterSets]
Import == [module : Modules, release : Releases, parameters : ParameterSets]
SdlText == [imports : SUBSET Import, edited : BOOLEAN]
LockText == [records : SUBSET (Modules \X Releases)]

ASSUME LedgerAssumption ==
  /\ PackAuthor \notin Namespaces
  /\ SafeTargets \cap Targets = {} /\ Lock \notin SafeTargets \cup Targets
  /\ Modules \cap (SafeTargets \cup Targets \cup {Lock}) = {}
  /\ Editable \subseteq Modules \cup Assets
  /\ IsFiniteSet(Paths) /\ {} \in ParameterSets
  /\ Authored \notin Staged /\ Absent \notin Staged /\ Absent # Authored
  /\ Absent \notin SdlText \cup LockText

(* Artifact ids: a preferred name, or that name with a suffix of the path. *)
Named(owner, name) == <<owner, name, {}>>
Generated(p) == Named(PackAuthor, p)
Suffixed(id, p) == <<id[1], id[2], {p}>>

Everywhere(x) == [p \in Paths |-> x]

(* A pack without artifact identity, or with the manifest of its author. *)
Init ==
  \E id \in [Targets -> {Unbound}] \cup {[t \in Targets |-> Generated(t)]} :
    pack = [files    |-> [p \in Paths |->
                            IF p \in Targets THEN [imports |-> {}, edited |-> FALSE]
                            ELSE Absent],
            mats     |-> {},
            owners   |-> Everywhere({}),
            baseline |-> Everywhere(Absent),
            rows     |-> Everywhere(Unbound),
            bound    |-> [p \in Paths |-> IF p \in Targets THEN id[p] ELSE Unbound]]

--------------------------------------------------------------------------------
(* Reading a captured pack. *)

Member(pk, p) == pk.files[p] # Absent
ImportsOf(files) == UNION {files[t].imports : t \in Targets}
Installed(mats) == {CoordinateOf[m.release] : m \in mats}
OwnedBy(pk, ns) == {p \in Paths : ns \in pk.owners[p]}
ModuleOf(r, ns) == <<ns, CoordinateOf[r]>>

(* _owned_modification_diagnostics *)
Modified(pk, ns) == {p \in OwnedBy(pk, ns) : pk.files[p] # pk.baseline[p]}

(* A path no kit owner is left for is dropped from the ledger. *)
OnlyKitOwned(owners) == IF owners \subseteq {PackAuthor} THEN {} ELSE owners

(* _ownership_ledger: every remaining row takes its current bytes as baseline. *)
Unedited(files) ==
  [p \in Paths |-> IF p \in Targets THEN [files[p] EXCEPT !.edited = FALSE] ELSE files[p]]

Rebaselined(pk) ==
  LET current == Unedited(pk.files)
  IN [pk EXCEPT !.files = current,
                !.baseline = [p \in Paths |-> IF pk.owners[p] = {} THEN Absent
                                              ELSE current[p]]]

(* _edit_import *)
WithImport(text, import) == [text EXCEPT !.imports = @ \cup {import}]
WithoutImports(text, ns) == [text EXCEPT !.imports = {i \in @ : i.module[1] # ns}]

Locked(imports) == [records |-> {<<i.module, i.release>> : i \in imports}]

(* Defect: the lock only grows. *)
WithGrowingLock(files) ==
  LET before == IF files[Lock] = Absent THEN {} ELSE files[Lock].records
  IN [files EXCEPT
        ![Lock] = [records |-> Locked(ImportsOf(files)).records \cup before]]

WithLock(files) == [files EXCEPT ![Lock] = Locked(ImportsOf(files))]

--------------------------------------------------------------------------------
(* The associated-artifact manifest. *)

Taken(bound) == {bound[p] : p \in Paths} \ {Unbound}

(* _ensure_pack_identity: the first kit operation binds every member. *)
EnsureIdentity(pk) ==
  IF Taken(pk.bound) # {} THEN pk
  ELSE [pk EXCEPT !.bound = [p \in Paths |-> IF Member(pk, p) THEN Generated(p)
                                             ELSE Unbound]]

NewKitFiles(r, ns) == {ModuleOf(r, ns)} \cup AssetsOf[r]

Preferred(r, ns, p) ==
  Named(ns, IF p = ModuleOf(r, ns) THEN Draft[r].module.artifact
            ELSE (CHOOSE a \in AssetRows[r] : a.target = p).artifact)

(* Defect: an id is free again once its member is gone. *)
PreferredId(id, taken, p) == id

(* _unique_artifact_id *)
UniqueId(id, taken, p) == IF id \in taken THEN Suffixed(id, p) ELSE id

(* An id that is taken with its suffix too cannot be allocated. *)
Unallocable(id, taken, p) == {id, Suffixed(id, p)} \subseteq taken

(* _register_successor_artifacts: path by path, the module's after those of *)
(* the assets, whose ids it then has to avoid.                              *)
AssetId(bound, r, ns, a) == UniqueId(Preferred(r, ns, a), Taken(bound), a)

Unavailable(bound, r, ns, p) ==
  Taken(bound) \cup
    IF p \in Modules THEN {AssetId(bound, r, ns, a) : a \in AssetsOf[r]} ELSE {}

Collides(pk, r, ns) ==
  \E bound \in {EnsureIdentity(pk).bound} : \E p \in NewKitFiles(r, ns) :
    Unallocable(Preferred(r, ns, p), Unavailable(bound, r, ns, p), p)

Registered(bound, r, ns) ==
  [p \in Paths |->
     IF p \in NewKitFiles(r, ns)
     THEN UniqueId(Preferred(r, ns, p), Unavailable(bound, r, ns, p), p)
     ELSE IF bound[p] # Unbound THEN bound[p]
     ELSE Generated(p)]

(* _refresh_associated_artifacts: a path that was bound keeps its id. *)
Refreshed(pk, ids) ==
  [pk EXCEPT !.bound = [p \in Paths |->
     IF ~Member(pk, p) THEN Unbound
     ELSE IF pk.bound[p] # Unbound THEN pk.bound[p]
     ELSE ids[p]]]

--------------------------------------------------------------------------------
(* _stage_removal; lock, ledger and manifest follow separately. *)

NoSuccessor == {}

(* Defect: whatever the ledger records as a dependency blocks the removal. *)
AnyDependency(pk, m, successor) == UNION {DepsOf[n.release] : n \in pk.mats} \ successor

DependencyConflicts(pk, m, successor) ==
  {d \in UNION {DepsOf[n.release] : n \in pk.mats \ {m}} :
     KitOf(d) = KitOf(CoordinateOf[m.release]) /\ d \notin successor}

RemovalDiagnostics(pk, m, successor) ==
  {"author-modification" : p \in Modified(pk, m.ns)}
    \cup {"dependency" : d \in DependencyConflicts(pk, m, successor)}

(* Defect: only the module is unlinked, the assets stay behind. *)
UnlinkedModules(pk, m, owners) == {p \in OwnedBy(pk, m.ns) \cap Modules : owners[p] = {}}

Unlinked(pk, m, owners) ==
  {p \in OwnedBy(pk, m.ns) \ {m.target, Lock} : owners[p] = {}}

StagedBy(pk, m, owners) ==
  Rebaselined(
    [pk EXCEPT
       !.files = [p \in Paths |->
          IF p = m.target THEN WithoutImports(@[p], m.ns)
          ELSE IF p \in Unlinked(pk, m, owners) THEN Absent
          ELSE @[p]],
       !.mats = @ \ {m},
       !.owners = owners,
       !.rows = [p \in Paths |-> IF owners[p] = {} THEN Unbound ELSE @[p]]])

StageRemoval(pk, m) ==
  StagedBy(pk, m, [p \in Paths |-> OnlyKitOwned(pk.owners[p] \ {m.ns})])

Removed(pk, m) ==
  Refreshed(Rebaselined([StageRemoval(pk, m) EXCEPT !.files = WithLock(@)]),
            [p \in Paths |-> Generated(p)])

--------------------------------------------------------------------------------
(* _admit_add *)

(* _parameter_issue *)
ParameterIssues(r, parameters) ==
  {"unknown" : x \in {x \in parameters : x[1] \notin Draft[r].module.parsed.parameters}}
    \cup {"invalid" : x \in {x \in parameters : x[2] \in UnfitValues}}
    \cup {"secret" : x \in {x \in parameters : x[2] \in SecretValues}}

(* Defects: an occupied path, a dependency that is not there, is missed. *)
NoPathConflicts(pk, r, ns) == {}
NoMissingDependencies(pk, r) == {}

VersionConflicts(pk, r) ==
  {m \in pk.mats : /\ KitOf(CoordinateOf[m.release]) = KitOf(CoordinateOf[r])
                   /\ CoordinateOf[m.release] # CoordinateOf[r]}
MissingDependencies(pk, r) == DepsOf[r] \ Installed(pk.mats)
PathConflicts(pk, r, ns) == {p \in NewKitFiles(r, ns) : Member(pk, p)}
VisibilityConflicts(r) ==
  {a \in AssetRows[r] : a.visibility = "restricted" /\ a.target \in PublicTargets}

AddDiagnostics(pk, r, ns) ==
  {"author-modification" : p \in UNION {Modified(pk, m.ns) : m \in pk.mats}}
    \cup {"namespace" : m \in {n \in pk.mats : n.ns = ns}}
    \cup {"version" : m \in VersionConflicts(pk, r)}
    \cup {"dependency" : d \in MissingDependencies(pk, r)}
    \cup {"visibility" : a \in VisibilityConflicts(r)}
    \cup {"path" : p \in PathConflicts(pk, r, ns)}

(* The requests about one release that are admitted. *)
Requests(s, r) ==
  {x \in Targets \X ParameterSets : SourceMatches(s, r) /\ ParameterIssues(r, x[2]) = {}}

(* _materialize_add: members, import, locks, ledger and manifest. *)
Materialized(base, ids, m, new) ==
  LET import == [module |-> ModuleOf(m.release, m.ns), release |-> m.release,
                 parameters |-> m.parameters]
      shared == {m.target, Lock}
      Unowned(p) == base.owners[p] = {}
  IN [base EXCEPT
        !.files = WithLock(
          [p \in Paths |->
             IF p \in new THEN m.release
             ELSE IF p = m.target THEN WithImport(@[p], import)
             ELSE @[p]]),
        !.mats = @ \cup {m},
        !.owners = [p \in Paths |->
             IF p \in new THEN {m.ns}
             ELSE IF p \notin shared THEN @[p]
             ELSE @[p] \cup {m.ns} \cup IF Unowned(p) THEN {PackAuthor} ELSE {}],
        !.rows = [p \in Paths |->
             IF p \in new \/ (p \in shared /\ Unowned(p)) THEN ids[p] ELSE @[p]]]

WithIds(base, ids, m) ==
  Refreshed(Rebaselined(Materialized(base, ids, m, NewKitFiles(m.release, m.ns))), ids)

AddedTo(base, m) == WithIds(base, Registered(base.bound, m.release, m.ns), m)

Added(pk, s, r, ns, t, parameters) ==
  AddedTo(EnsureIdentity(pk),
          [ns |-> ns, release |-> r, target |-> t, source |-> s,
           parameters |-> parameters])

--------------------------------------------------------------------------------
(* What a staged successor must pass: RAES resolves every import to the     *)
(* pinned module bytes, every ledger row names a member, and the ledger     *)
(* contract of validation.py holds.                                         *)
ImportsResolve(files) == \A i \in ImportsOf(files) : files[i.module] = i.release

RowsNameMembers(pk) == \A p \in Paths : pk.owners[p] # {} => Member(pk, p)

Ids(mats) == {m.ns : m \in mats}

MaterializationRows(mats) ==
  /\ \A m, n \in mats : m.ns = n.ns => m = n
  /\ \A m \in mats : {x[2] : x \in m.parameters} \cap (UnfitValues \cup SecretValues) = {}

DependencyPresence(mats) == \A m \in mats : DepsOf[m.release] \subseteq Installed(mats)

FileRows(pk) ==
  /\ \A p \in Paths : pk.owners[p] \subseteq {PackAuthor} \cup Ids(pk.mats)
  /\ Cardinality(Taken(pk.rows)) = Cardinality({p \in Paths : pk.rows[p] # Unbound})

OwnershipJoins(pk) ==
  \A m \in pk.mats : m.ns \in pk.owners[m.target] \cap pk.owners[ModuleOf(m.release, m.ns)]

LedgerContract(pk) ==
  /\ MaterializationRows(pk.mats)
  /\ DependencyPresence(pk.mats)
  /\ FileRows(pk)
  /\ OwnershipJoins(pk)

Valid(pk) == ImportsResolve(pk.files) /\ RowsNameMembers(pk) /\ LedgerContract(pk)

(* A proposal with no diagnostic whose successor can be staged and checked. *)
Commit(successor) == Valid(successor) /\ pack' = successor

--------------------------------------------------------------------------------
ProposeAdd(pk, s, r, ns, targets) ==
  /\ AddDiagnostics(pk, r, ns) = {}
  /\ ~Collides(pk, r, ns)
  /\ \E x \in Requests(s, r) :
       x[1] \in targets /\ Commit(Added(pk, s, r, ns, x[1], x[2]))

KitAdd(s, r, ns) == ProposeAdd(pack, s, r, ns, Targets)

KitRemove(m) ==
  /\ RemovalDiagnostics(pack, m, NoSuccessor) = {}
  /\ Commit(Removed(pack, m))

(* _replacement_proposal: remove and add over one combined successor. *)
Replaceable(m, staged, r) ==
  /\ RemovalDiagnostics(pack, m, {CoordinateOf[r]}) = {}
  /\ RowsNameMembers(staged)

KitReplace(m, staged, s, r, ns, targets) ==
  /\ Replaceable(m, staged, r)
  /\ ProposeAdd(staged, s, r, ns, targets)

KitUpdate(m, staged, s, r) ==
  /\ KitOf(CoordinateOf[r]) = KitOf(CoordinateOf[m.release])
  /\ KitReplace(m, staged, s, r, m.ns, {m.target})

(* The author edits, deletes or creates members between operations; the     *)
(* ledger is left alone and imports are edited only through kit operations. *)
AuthorWrites(p) ==
  /\ p \in Editable
  /\ p \in Modules => Member(pack, p)
  /\ pack' = [pack EXCEPT !.files[p] = Authored]

AuthorDeletes(p) ==
  /\ p \in Editable \cap Assets
  /\ Member(pack, p)
  /\ pack' = [pack EXCEPT !.files[p] = Absent]

AuthorRevises(t) ==
  /\ pack.owners[t] # {}   \* otherwise it has no baseline to differ from
  /\ pack' = [pack EXCEPT !.files[t].edited = ~@]

--------------------------------------------------------------------------------
KitStep ==
  \/ \E x \in Offers, ns \in Namespaces : KitAdd(x[1], x[2], ns)
  \/ \E m \in pack.mats : \E staged \in {StageRemoval(pack, m)}, x \in Offers :
       \/ KitUpdate(m, staged, x[1], x[2])
       \/ \E ns \in Namespaces : KitReplace(m, staged, x[1], x[2], ns, Targets)
  \/ \E m \in pack.mats : KitRemove(m)

AuthorStep ==
  \/ \E p \in Editable : AuthorWrites(p) \/ AuthorDeletes(p)
  \/ \E t \in Targets : AuthorRevises(t)

Next == KitStep \/ AuthorStep

Spec == Init /\ [][Next]_pack

--------------------------------------------------------------------------------
TypeOK ==
  /\ pack.mats \subseteq MatRecord
  /\ \A p \in Modules \cup Assets : pack.files[p] \in Releases \cup {Authored, Absent}
  /\ \A t \in Targets : pack.files[t] \in SdlText
  /\ pack.files[Lock] \in LockText \cup {Absent}
  /\ \A p \in Paths : pack.owners[p] \subseteq Namespaces \cup {PackAuthor}

(* Ledger, SDL imports and RAES lock tell one story, however adds, updates, *)
(* replacements and removals follow on one another: no two versions of one  *)
(* kit (kits.py 1798), each materialization imported once, by its own       *)
(* target and with its parameters, and the lock has exactly those imports.  *)
LedgerTellsOneStory ==
  /\ \A m, n \in pack.mats :
       KitOf(CoordinateOf[m.release]) = KitOf(CoordinateOf[n.release])
         => CoordinateOf[m.release] = CoordinateOf[n.release]
  /\ \A t \in Targets :
       pack.files[t].imports =
         {[module |-> ModuleOf(m.release, m.ns), release |-> m.release,
           parameters |-> m.parameters] : m \in {n \in pack.mats : n.target = t}}
  /\ Member(pack, Lock) => pack.files[Lock] = Locked(ImportsOf(pack.files))

(* Kit bytes are never orphaned: a module or asset that still holds release *)
(* bytes belongs to the one materialization that put it there, so removing  *)
(* everything leaves only what the author wrote (ADR 0035 lines 137-140).   *)
NoOrphanedKitFile ==
  \A p \in Modules \cup Assets : pack.files[p] \in Releases =>
    \E m \in pack.mats :
      /\ pack.owners[p] = {m.ns}
      /\ pack.files[p] = m.release
      /\ p \in NewKitFiles(m.release, m.ns)

(* Kit operations leave every module and asset path without an owner alone, *)
(* whatever it holds (ADR 0035 line 137).  An SDL document they do write:   *)
(* an add puts its import into the unowned target it is asked for.          *)
UnownedFilesUntouched ==
  [][AuthorStep \/ \A p \in Modules \cup Assets :
       Member(pack, p) /\ pack.owners[p] = {} => pack'.files[p] = pack.files[p]]_pack

(* One operation, an update or a replacement with its removal half too,     *)
(* gives no member that exists before and after it another artifact id, and *)
(* hands no id that was in use on to another path (kits.py 1231-1243,       *)
(* 1410-1433).  It says nothing of two operations: an id whose member one   *)
(* of them removed is free, and a later one may give it to another path.    *)
ArtifactIdsAreStable ==
  [][\A p, q \in Paths : pack.bound[p] # Unbound =>
       /\ Member(pack, p) /\ Member(pack, p)' => pack'.bound[p] = pack.bound[p]
       /\ pack'.bound[q] = pack.bound[p] => p = q]_pack

(* No file a materialization owns was rewritten or deleted by the author.    *)
OwnedFilesIntact ==
  \A p \in Modules \cup Assets :
    pack.owners[p] # {} => pack.files[p] \in Releases

(* A member had to take a suffixed id, as the preferred one was another's.  *)
SomeSuffixed(bound) == \E p \in Paths : bound[p] # Unbound /\ bound[p][3] # {}

(* Planning is complete: while owned files are intact, an operation without *)
(* diagnostics always yields a successor that passes validation, so a clean *)
(* proposal is never refused, nor a corrupt ledger met, at commit.  An add  *)
(* always finds an artifact id; only to update or replace a kit may fail,   *)
(* in a pack where a preferred id was taken before (kits.py 1241).          *)
DiagnosticsSuffice ==
  OwnedFilesIntact =>
  /\ \A x \in Offers, ns \in Namespaces, t \in Targets :
       AddDiagnostics(pack, x[2], ns) = {} =>
         /\ ~Collides(pack, x[2], ns)
         /\ Valid(Added(pack, x[1], x[2], ns, t, {}))
  /\ \A m \in pack.mats :
       RemovalDiagnostics(pack, m, NoSuccessor) = {} => Valid(Removed(pack, m))
  /\ \A m \in pack.mats : \A staged \in {StageRemoval(pack, m)}, x \in Offers :
       Replaceable(m, staged, x[2]) =>
         \A ns \in Namespaces : AddDiagnostics(staged, x[2], ns) = {} =>
           /\ Collides(staged, x[2], ns) => SomeSuffixed(pack.bound)
           /\ \A t \in Targets : Valid(Added(staged, x[1], x[2], ns, t, {}))

(* Exact dependencies block the removal and the update of what others need, *)
(* yet never everybody's: of the installed kits there is always one that no *)
(* other depends on, so the author can take all of them out again, one at a *)
(* time (kits.py 2202-2223).  Two sources that publish one coordinate with  *)
(* other dependencies can close a cycle through an update in place; it is   *)
(* stated for releases whose coordinate determines their dependencies.      *)
CoordinateDeterminesDependencies ==
  \A q, r \in Releases : CoordinateOf[q] = CoordinateOf[r] => DepsOf[q] = DepsOf[r]

RemovalOrderExists ==
  CoordinateDeterminesDependencies /\ pack.mats # {} =>
    \E m \in pack.mats : DependencyConflicts(pack, m, NoSuccessor) = {}

(* Catalog entries can be had: each coordinate a catalog lists is loaded    *)
(* from its source with the dependencies listed (kits.py 904-931, 964-979). *)
CatalogEntriesLoad ==
  \A s \in Sources : BuildsCatalog({s}) =>
    \A e \in Catalog({s}) : \E r \in SourceRelease(s, e.coordinate) :
      e.required = ExactCoordinates(Draft[r].document.prerequisites)

(* Kits stay infrastructure: each member bound, no behaviour as written or  *)
(* as parsed, nothing outside the asset surfaces, nothing restricted in the *)
(* public ones.                                                             *)
InertReleases ==
  {r \in Releases :
     LET d == Draft[r]
     IN /\ (d.module.raw.sections \cup d.module.parsed.sections) \cap Behavior = {}
        /\ \A member \in d.members \ {d.document.artifacts} :
             \E a \in d.manifest.bound : d.manifest.paths[a] = member
        /\ \A a \in AssetRows[r] :
             /\ a.target \in SafeTargets
             /\ a.visibility = "restricted" => a.target \notin PublicTargets}

(* Whatever a pack was given came from a release as a catalog would list it *)
(* and is inert, and no parameter it was given is a secret or one the       *)
(* module does not declare (ADR 0035; kits.py 765-801, 1099-1131, 1832).    *)
KitsAreInert ==
  /\ CatalogEntriesLoad
  /\ \A m \in pack.mats :
       /\ m.release \in SourceRelease(m.source, CoordinateOf[m.release]) \cap InertReleases
       /\ \A x \in m.parameters :
            /\ x[1] \in Draft[m.release].module.parsed.parameters \ SecretNames
            /\ x[2] \notin SecretValues

(* docs/public/kits.md 265: an author's change to an owned file stops       *)
(* removal of its materialization, however long ago it was made.            *)
AuthorChangeStopsRemoval ==
  \A m \in pack.mats :
    (\E p \in OwnedBy(pack, m.ns) : pack.files[p] = Authored)
      => "author-modification" \in RemovalDiagnostics(pack, m, NoSuccessor)

(* docs/public/kits.md: "Canonical pack validation enforces the ledger      *)
(* whenever it is present, including its exact dependency, member,          *)
(* artifact-id, and ownership joins": what validates has each ledger row    *)
(* name the artifact the manifest binds its file to.                        *)
LedgerNamesBoundArtifacts ==
  Valid(pack) => \A p \in Paths : pack.rows[p] \in {Unbound, pack.bound[p]}
================================================================================
