---------------------------- MODULE KitLedgerProofs ----------------------------
(***************************************************************************)
(* What TLAPS proves of KitLedger for any shelf of staged releases, any    *)
(* namespaces, targets and parameters, and any sequence of adds, updates,  *)
(* replacements and removals with the author's edits in between.           *)
(***************************************************************************)
EXTENDS KitLedger, FiniteSetTheorems, TLAPS

(* The types of a pack's fields, whatever state of an operation it is in.   *)
KitPaths == Modules \cup Assets
Owners == Namespaces \cup {PackAuthor}
FileValues == Releases \cup {Authored, Absent} \cup SdlText \cup LockText
KitArtifacts ==
  {Draft[r].module.artifact : r \in Releases}
    \cup UNION {{a.artifact : a \in AssetRows[r]} : r \in Releases}
ArtifactNames == KitArtifacts \cup Paths
ArtifactIds == (Owners \X ArtifactNames \X SUBSET Paths) \cup {Unbound}

Packs == [files : [Paths -> FileValues], mats : SUBSET MatRecord,
          owners : [Paths -> SUBSET Owners], baseline : [Paths -> FileValues],
          rows : [Paths -> ArtifactIds], bound : [Paths -> ArtifactIds]]

FilesFit(files) ==
  /\ \A p \in KitPaths : files[p] \in Releases \cup {Authored, Absent}
  /\ \A t \in Targets : files[t] \in SdlText
  /\ files[Lock] \in LockText \cup {Absent}

--------------------------------------------------------------------------------
(* The kinds of path do not overlap, and no module or asset is empty.       *)
LEMMA PathKinds ==
  /\ Paths = KitPaths \cup Targets \cup {Lock}
  /\ KitPaths \cap Targets = {} /\ Lock \notin KitPaths \cup Targets
  /\ Absent \notin Releases /\ Authored \notin Releases /\ Absent # Authored
  /\ Editable \subseteq KitPaths
  /\ PackAuthor \notin Namespaces
  BY LedgerAssumption DEF Paths, KitPaths, Assets, Releases

(* What a loaded release brings lies where kits may bring it.               *)
LEMMA AssetsAreSafe ==
  ASSUME NEW r \in Releases
  PROVE  AssetsOf[r] \subseteq Assets
  <1>1. r \in Staged /\ AssetViolations(Draft[r].document) = {}
    BY DEF Releases, Loads, LoadsDocument, Violations
  <1>2. Range(Column(Draft[r].document.assets, "target")) \subseteq SafeTargets
    BY <1>1 DEF AssetViolations, Flag
  <1>3. AssetsOf[r] = {a.target : a \in Range(Draft[r].document.assets)}
    BY <1>1 DEF AssetsOf, AssetRows
  <1>4. \A a \in Range(Draft[r].document.assets) :
          a.target \in Range(Column(Draft[r].document.assets, "target"))
    BY DEF Column, Range
  <1> QED BY <1>2, <1>3, <1>4 DEF Assets

LEMMA NewFilesAreKitPaths ==
  ASSUME NEW r \in Releases, NEW ns \in Namespaces
  PROVE  /\ NewKitFiles(r, ns) \subseteq KitPaths
         /\ ModuleOf(r, ns) \in Modules
         /\ r \in Staged
  <1>1. r \in Staged BY DEF Releases
  <1>2. CoordinateOf[r] \in Range(CoordinateOf)
    BY <1>1 DEF CoordinateOf, Range
  <1> QED BY <1>1, <1>2, AssetsAreSafe DEF NewKitFiles, ModuleOf, Modules, KitPaths

--------------------------------------------------------------------------------
(* Field by field: what the steps of an operation make of a pack.           *)
LEMMA RebaselineFields ==
  ASSUME NEW pk \in Packs, FilesFit(pk.files)
  PROVE  LET r == Rebaselined(pk)
         IN /\ r \in Packs /\ FilesFit(r.files)
            /\ r.mats = pk.mats /\ r.owners = pk.owners
            /\ r.rows = pk.rows /\ r.bound = pk.bound
            /\ \A p \in KitPaths \cup {Lock} : r.files[p] = pk.files[p]
            /\ \A t \in Targets : r.files[t].imports = pk.files[t].imports
  <1> DEFINE r == Rebaselined(pk)
  <1>1. /\ r.mats = pk.mats /\ r.owners = pk.owners
        /\ r.rows = pk.rows /\ r.bound = pk.bound
        /\ r.files = Unedited(pk.files)
    BY DEF Rebaselined, Packs
  <1>2. /\ \A p \in KitPaths \cup {Lock} : r.files[p] = pk.files[p]
        /\ \A t \in Targets : r.files[t] = [pk.files[t] EXCEPT !.edited = FALSE]
        /\ DOMAIN r.files = Paths
    BY <1>1, PathKinds DEF Unedited
  <1>3. \A t \in Targets : r.files[t] \in SdlText /\ r.files[t].imports = pk.files[t].imports
    BY <1>2 DEF SdlText, FilesFit
  <1>4. FilesFit(r.files)
    BY <1>2, <1>3 DEF FilesFit
  <1>5. r.files \in [Paths -> FileValues]
    <2>1. \A p \in Paths : r.files[p] \in FileValues
      BY <1>4, PathKinds DEF FilesFit, FileValues
    <2> QED BY <2>1, <1>1 DEF Unedited
  <1>6. r \in Packs
    <2>1. r = [pk EXCEPT !.files = Unedited(pk.files),
                         !.baseline = [p \in Paths |-> IF pk.owners[p] = {} THEN Absent
                                                       ELSE Unedited(pk.files)[p]]]
      BY DEF Rebaselined
    <2>2. [p \in Paths |-> IF pk.owners[p] = {} THEN Absent ELSE Unedited(pk.files)[p]]
            \in [Paths -> FileValues]
      BY <1>1, <1>5 DEF FileValues
    <2> QED BY <2>1, <2>2, <1>1, <1>5 DEF Packs
  <1> QED BY <1>1, <1>2, <1>3, <1>4, <1>6

LEMMA RefreshedFields ==
  ASSUME NEW pk \in Packs, NEW ids \in [Paths -> ArtifactIds]
  PROVE  LET r == Refreshed(pk, ids)
         IN /\ r \in Packs
            /\ r.mats = pk.mats /\ r.owners = pk.owners /\ r.files = pk.files
            /\ r.rows = pk.rows
            /\ \A p \in Paths :
                 r.bound[p] = IF ~Member(pk, p) THEN Unbound
                              ELSE IF pk.bound[p] # Unbound THEN pk.bound[p] ELSE ids[p]
  BY DEF Refreshed, Packs, ArtifactIds

(* Edits of an import list leave an SDL document.                           *)
LEMMA ImportEdits ==
  ASSUME NEW text \in SdlText
  PROVE  /\ \A import \in Import :
              /\ WithImport(text, import) \in SdlText
              /\ WithImport(text, import).imports = text.imports \cup {import}
         /\ \A ns :
              /\ WithoutImports(text, ns) \in SdlText
              /\ WithoutImports(text, ns).imports = {i \in text.imports : i.module[1] # ns}
  <1>1. \A s \in SUBSET Import :
          [text EXCEPT !.imports = s] \in SdlText /\ [text EXCEPT !.imports = s].imports = s
    BY DEF SdlText
  <1>2. text.imports \in SUBSET Import
    BY DEF SdlText
  <1>3. ASSUME NEW import \in Import
        PROVE  /\ WithImport(text, import) \in SdlText
               /\ WithImport(text, import).imports = text.imports \cup {import}
    <2>1. text.imports \cup {import} \in SUBSET Import
      BY <1>2
    <2> QED BY <1>1, <2>1 DEF WithImport
  <1>4. ASSUME NEW ns
        PROVE  /\ WithoutImports(text, ns) \in SdlText
               /\ WithoutImports(text, ns).imports = {i \in text.imports : i.module[1] # ns}
    <2> DEFINE s == {i \in text.imports : i.module[1] # ns}
    <2>1. s \in SUBSET Import
      BY <1>2
    <2>2. WithoutImports(text, ns) = [text EXCEPT !.imports = s]
      BY DEF WithoutImports
    <2> HIDE DEF s
    <2>3. WithoutImports(text, ns) \in SdlText /\ WithoutImports(text, ns).imports = s
      BY <1>1, <2>1, <2>2
    <2> QED BY <2>3 DEF s
  <1> QED BY <1>3, <1>4

LEMMA EnsuredFields ==
  ASSUME NEW pk \in Packs
  PROVE  LET r == EnsureIdentity(pk)
         IN /\ r \in Packs
            /\ r.mats = pk.mats /\ r.owners = pk.owners /\ r.files = pk.files
            /\ r.rows = pk.rows
            /\ \/ r.bound = pk.bound
               \/ /\ \A p \in Paths : pk.bound[p] = Unbound
                  /\ \A p \in Paths : r.bound[p] \in {Generated(p), Unbound}
  <1>1. CASE Taken(pk.bound) # {}
    BY <1>1 DEF EnsureIdentity
  <1>2. CASE Taken(pk.bound) = {}
    <2> DEFINE b == [p \in Paths |-> IF Member(pk, p) THEN Generated(p) ELSE Unbound]
    <2>1. EnsureIdentity(pk) = [pk EXCEPT !.bound = b]
      BY <1>2 DEF EnsureIdentity
    <2>2. \A p \in Paths : Generated(p) \in ArtifactIds
      <3>1. \A p \in Paths : p \in ArtifactNames
        BY DEF ArtifactNames
      <3> QED BY <3>1 DEF Generated, Named, ArtifactIds, Owners
    <2>3. b \in [Paths -> ArtifactIds]
      BY <2>2 DEF ArtifactIds
    <2>4. \A p \in Paths : pk.bound[p] = Unbound
      BY <1>2 DEF Taken
    <2> QED BY <2>1, <2>3, <2>4 DEF Packs
  <1> QED BY <1>1, <1>2

(* The removal of one materialization, before lock and manifest follow.     *)
Removal(pk, m, r) ==
  LET kept(p) == OnlyKitOwned(pk.owners[p] \ {m.ns})
  IN /\ r \in Packs /\ FilesFit(r.files)
     /\ r.mats = pk.mats \ {m} /\ r.bound = pk.bound
     /\ \A p \in Paths :
          /\ r.owners[p] = kept(p)
          /\ r.rows[p] = IF kept(p) = {} THEN Unbound ELSE pk.rows[p]
     /\ \A p \in KitPaths :
          r.files[p] = IF m.ns \in pk.owners[p] /\ kept(p) = {} THEN Absent ELSE pk.files[p]
     /\ \A t \in Targets :
          r.files[t].imports =
            IF t = m.target THEN {i \in pk.files[t].imports : i.module[1] # m.ns}
            ELSE pk.files[t].imports
     /\ r.files[Lock] = pk.files[Lock]

LEMMA RemovalFields ==
  ASSUME NEW pk \in Packs, FilesFit(pk.files), NEW m \in pk.mats,
         \A t \in Targets : m.ns \in pk.owners[t] => t = m.target
  PROVE  Removal(pk, m, StageRemoval(pk, m))
  <1> DEFINE kept == [p \in Paths |-> OnlyKitOwned(pk.owners[p] \ {m.ns})]
             files == [p \in Paths |->
                         IF p = m.target
                         THEN WithoutImports(pk.files[p], m.ns)
                         ELSE IF p \in Unlinked(pk, m, kept) THEN Absent
                         ELSE pk.files[p]]
             rows == [p \in Paths |-> IF kept[p] = {} THEN Unbound ELSE pk.rows[p]]
             st == [pk EXCEPT !.files = files, !.mats = pk.mats \ {m},
                              !.owners = kept, !.rows = rows]
  <1>1. StageRemoval(pk, m) = Rebaselined(st)
    BY DEF StageRemoval, StagedBy
  <1>2. m.target \in Targets /\ m.ns \in Namespaces
    BY DEF Packs, MatRecord
  <1>3. \A t \in Targets \cup {Lock} : t # m.target => files[t] = pk.files[t]
    BY PathKinds DEF Unlinked, OwnedBy
  <1>4. /\ files[m.target] \in SdlText
        /\ files[m.target].imports = {i \in pk.files[m.target].imports : i.module[1] # m.ns}
    <2>1. pk.files[m.target] \in SdlText
      BY <1>2 DEF FilesFit
    <2>2. files[m.target] = WithoutImports(pk.files[m.target], m.ns)
      BY <1>2, PathKinds
    <2>3. /\ WithoutImports(pk.files[m.target], m.ns) \in SdlText
          /\ WithoutImports(pk.files[m.target], m.ns).imports =
               {i \in pk.files[m.target].imports : i.module[1] # m.ns}
      BY <2>1, ImportEdits
    <2> QED BY <2>2, <2>3
  <1>5. \A p \in KitPaths :
          files[p] = IF m.ns \in pk.owners[p] /\ kept[p] = {} THEN Absent ELSE pk.files[p]
    BY <1>2, PathKinds DEF Unlinked, OwnedBy
  <1>6. FilesFit(files)
    BY <1>2, <1>3, <1>4, <1>5, PathKinds DEF FilesFit
  <1>7. st \in Packs
    <2>1. files \in [Paths -> FileValues]
      <3>1. \A p \in Paths : files[p] \in FileValues
        BY <1>6, PathKinds DEF FilesFit, FileValues
      <3> QED BY <3>1
    <2>2. kept \in [Paths -> SUBSET Owners]
      BY DEF OnlyKitOwned, Packs
    <2>3. rows \in [Paths -> ArtifactIds]
      BY DEF Packs, ArtifactIds
    <2> QED BY <2>1, <2>2, <2>3 DEF Packs
  <1>8. /\ st.files = files /\ st.mats = pk.mats \ {m} /\ st.owners = kept
        /\ st.bound = pk.bound /\ st.rows = rows
    BY DEF Packs
  <1> HIDE DEF st, files, kept, rows
  <1>9. /\ Rebaselined(st) \in Packs /\ FilesFit(Rebaselined(st).files)
        /\ Rebaselined(st).mats = st.mats /\ Rebaselined(st).owners = st.owners
        /\ Rebaselined(st).bound = st.bound /\ Rebaselined(st).rows = st.rows
        /\ \A p \in KitPaths \cup {Lock} : Rebaselined(st).files[p] = st.files[p]
        /\ \A t \in Targets : Rebaselined(st).files[t].imports = st.files[t].imports
    BY <1>6, <1>7, <1>8, RebaselineFields
  <1>10. \A p \in Paths : kept[p] = OnlyKitOwned(pk.owners[p] \ {m.ns})
    BY DEF kept
  <1>11. \A t \in Targets :
           files[t].imports =
             IF t = m.target THEN {i \in pk.files[t].imports : i.module[1] # m.ns}
             ELSE pk.files[t].imports
    BY <1>3, <1>4
  <1>12. files[Lock] = pk.files[Lock]
    BY <1>2, <1>3, PathKinds
  <1>13. \A p \in KitPaths :
           files[p] = IF m.ns \in pk.owners[p] /\ OnlyKitOwned(pk.owners[p] \ {m.ns}) = {}
                      THEN Absent ELSE pk.files[p]
    BY <1>5, <1>10, PathKinds
  <1>14. Lock \in KitPaths \cup {Lock}
    OBVIOUS
  <1> DEFINE r == StageRemoval(pk, m)
  <1>15. /\ r \in Packs /\ FilesFit(r.files)
         /\ r.mats = pk.mats \ {m} /\ r.bound = pk.bound /\ r.owners = kept
         /\ r.rows = rows
         /\ \A p \in KitPaths \cup {Lock} : r.files[p] = files[p]
         /\ \A t \in Targets : r.files[t].imports = files[t].imports
    BY <1>1, <1>8, <1>9
  <1> HIDE DEF r
  <1>16. \A p \in Paths :
           LET kept_p == OnlyKitOwned(pk.owners[p] \ {m.ns})
           IN /\ r.owners[p] = kept_p
              /\ r.rows[p] = IF kept_p = {} THEN Unbound ELSE pk.rows[p]
    BY <1>10, <1>15 DEF rows
  <1>17. \A p \in KitPaths :
           r.files[p] = IF m.ns \in pk.owners[p] /\ OnlyKitOwned(pk.owners[p] \ {m.ns}) = {}
                        THEN Absent ELSE pk.files[p]
    BY <1>13, <1>15
  <1>18. \A t \in Targets :
           r.files[t].imports =
             IF t = m.target THEN {i \in pk.files[t].imports : i.module[1] # m.ns}
             ELSE pk.files[t].imports
    BY <1>11, <1>15
  <1>19. r.files[Lock] = pk.files[Lock]
    BY <1>12, <1>14, <1>15
  <1>20. Removal(pk, m, r)
    BY <1>15, <1>16, <1>17, <1>18, <1>19 DEF Removal
  <1> QED BY <1>20 DEF r

(* Ids that are preferred for the files of a release are a kit's, with no   *)
(* suffix, and the allocated id is that one or has the path's suffix.       *)
KitId(ns, id) == id \in {ns} \X KitArtifacts \X {{}}

LEMMA PreferredIds ==
  ASSUME NEW r \in Releases, NEW ns \in Namespaces, NEW p \in NewKitFiles(r, ns)
  PROVE  KitId(ns, Preferred(r, ns, p))
  <1>1. r \in Staged
    BY DEF Releases
  <1>2. CASE p = ModuleOf(r, ns)
    <2>1. Draft[r].module.artifact \in KitArtifacts
      BY DEF KitArtifacts
    <2> QED BY <1>2, <2>1 DEF Preferred, Named, KitId
  <1>3. CASE p # ModuleOf(r, ns)
    <2>1. PICK a \in AssetRows[r] : a.target = p
      BY <1>1, <1>3 DEF NewKitFiles, AssetsOf
    <2> DEFINE c == CHOOSE x \in AssetRows[r] : x.target = p
    <2>2. c \in AssetRows[r]
      BY <2>1
    <2>3. Preferred(r, ns, p) = Named(ns, c.artifact)
      BY <1>3 DEF Preferred
    <2> HIDE DEF c
    <2>4. c.artifact \in {x.artifact : x \in AssetRows[r]}
      BY <2>2
    <2>5. c.artifact \in KitArtifacts
      BY <2>4 DEF KitArtifacts
    <2> QED BY <2>3, <2>5 DEF Named, KitId
  <1> QED BY <1>2, <1>3

LEMMA AllocatedIds ==
  ASSUME NEW ns \in Namespaces, NEW id, KitId(ns, id), NEW p \in Paths, NEW taken
  PROVE  /\ UniqueId(id, taken, p) \in {id, Suffixed(id, p)}
         /\ UniqueId(id, taken, p) \in ArtifactIds
         /\ UniqueId(id, taken, p)[1] = ns
         /\ UniqueId(id, taken, p)[3] \in {{}, {p}}
         /\ UniqueId(id, taken, p)[2] = id[2]
         /\ ~Unallocable(id, taken, p) => UniqueId(id, taken, p) \notin taken
  <1>1. PICK name \in KitArtifacts : id = <<ns, name, {}>>
    BY DEF KitId
  <1>2. Suffixed(id, p) = <<ns, name, {p}>>
    BY <1>1 DEF Suffixed
  <1>3. name \in ArtifactNames /\ ns \in Owners
    BY DEF ArtifactNames, Owners
  <1>4. id \in ArtifactIds /\ Suffixed(id, p) \in ArtifactIds
    BY <1>1, <1>2, <1>3 DEF ArtifactIds
  <1>5. UniqueId(id, taken, p) \in {id, Suffixed(id, p)}
    BY DEF UniqueId
  <1>6. ~Unallocable(id, taken, p) => UniqueId(id, taken, p) \notin taken
    BY DEF UniqueId, Unallocable
  <1> QED BY <1>1, <1>2, <1>4, <1>5, <1>6

LEMMA RegisteredType ==
  ASSUME NEW bound \in [Paths -> ArtifactIds], NEW r \in Releases, NEW ns \in Namespaces
  PROVE  Registered(bound, r, ns) \in [Paths -> ArtifactIds]
  <1> DEFINE new(p) == UniqueId(Preferred(r, ns, p), Unavailable(bound, r, ns, p), p)
  <1>1. ASSUME NEW p \in Paths, p \in NewKitFiles(r, ns)
        PROVE  new(p) \in ArtifactIds
    BY <1>1, PreferredIds, AllocatedIds
  <1>2. \A p \in Paths : Generated(p) \in ArtifactIds
    <2>1. \A p \in Paths : p \in ArtifactNames
      BY DEF ArtifactNames
    <2> QED BY <2>1 DEF Generated, Named, ArtifactIds, Owners
  <1> QED BY <1>1, <1>2 DEF Registered

(* The import of a materialization.                                         *)
ImportOf(m) ==
  [module |-> ModuleOf(m.release, m.ns), release |-> m.release, parameters |-> m.parameters]

(* The addition of one materialization, lock and manifest included.         *)
Addition(pk, m, r) ==
  LET new == NewKitFiles(m.release, m.ns)
      ids == Registered(pk.bound, m.release, m.ns)
  IN /\ r \in Packs /\ FilesFit(r.files)
     /\ r.mats = pk.mats \cup {m}
     /\ \A p \in KitPaths :
          /\ r.files[p] = IF p \in new THEN m.release ELSE pk.files[p]
          /\ r.owners[p] = IF p \in new THEN {m.ns} ELSE pk.owners[p]
     /\ \A t \in Targets :
          /\ r.files[t].imports =
               IF t = m.target THEN pk.files[t].imports \cup {ImportOf(m)}
               ELSE pk.files[t].imports
          /\ r.owners[t] \ {PackAuthor} =
               IF t = m.target THEN (pk.owners[t] \cup {m.ns}) \ {PackAuthor}
               ELSE pk.owners[t] \ {PackAuthor}
     /\ \A p \in Targets \cup {Lock} :
          /\ r.owners[p] \subseteq pk.owners[p] \cup {m.ns, PackAuthor}
          /\ pk.owners[p] \subseteq r.owners[p]
     /\ m.ns \in r.owners[m.target]
     /\ \A p \in Paths :
          r.rows[p] = IF p \in new \/ (p \in {m.target, Lock} /\ pk.owners[p] = {})
                      THEN ids[p] ELSE pk.rows[p]
     /\ r.files[Lock] = Locked(ImportsOf(r.files))
     /\ \A p \in Paths :
          r.bound[p] = IF r.files[p] = Absent THEN Unbound
                       ELSE IF pk.bound[p] # Unbound THEN pk.bound[p] ELSE ids[p]

LEMMA AdditionFields ==
  ASSUME NEW pk \in Packs, FilesFit(pk.files), NEW m \in MatRecord
  PROVE  Addition(pk, m, AddedTo(pk, m))
  <1> DEFINE new == NewKitFiles(m.release, m.ns)
             ids == Registered(pk.bound, m.release, m.ns)
             shared == {m.target, Lock}
             unlocked == [p \in Paths |->
                            IF p \in new THEN m.release
                            ELSE IF p = m.target THEN WithImport(pk.files[p], ImportOf(m))
                            ELSE pk.files[p]]
             files == WithLock(unlocked)
             owners == [p \in Paths |->
                          IF p \in new THEN {m.ns}
                          ELSE IF p \notin shared THEN pk.owners[p]
                          ELSE pk.owners[p] \cup {m.ns} \cup
                                 IF pk.owners[p] = {} THEN {PackAuthor} ELSE {}]
             rows == [p \in Paths |->
                        IF p \in new \/ (p \in shared /\ pk.owners[p] = {}) THEN ids[p]
                        ELSE pk.rows[p]]
             mt == Materialized(pk, ids, m, new)
  <1>1. mt = [pk EXCEPT !.files = files, !.mats = pk.mats \cup {m},
                        !.owners = owners, !.rows = rows]
    BY DEF Materialized, ImportOf
  <1>2. /\ m.release \in Releases /\ m.ns \in Namespaces /\ m.target \in Targets
        /\ m.parameters \in ParameterSets
    BY DEF MatRecord
  <1>3. new \subseteq KitPaths /\ ModuleOf(m.release, m.ns) \in Modules
    BY <1>2, NewFilesAreKitPaths
  <1>4. ImportOf(m) \in Import
    BY <1>2, <1>3 DEF ImportOf, Import
  <1>5. \A p \in KitPaths : files[p] = IF p \in new THEN m.release ELSE pk.files[p]
    BY <1>2, PathKinds DEF WithLock
  <1>6. \A t \in Targets :
          /\ files[t] \in SdlText
          /\ files[t].imports = IF t = m.target THEN pk.files[t].imports \cup {ImportOf(m)}
                                ELSE pk.files[t].imports
    <2>1. \A t \in Targets :
            files[t] = IF t = m.target THEN WithImport(pk.files[t], ImportOf(m)) ELSE pk.files[t]
      BY <1>3, PathKinds DEF WithLock
    <2> HIDE DEF files
    <2> SUFFICES ASSUME NEW t \in Targets
                 PROVE  /\ files[t] \in SdlText
                        /\ files[t].imports =
                             IF t = m.target THEN pk.files[t].imports \cup {ImportOf(m)}
                             ELSE pk.files[t].imports
      OBVIOUS
    <2>2. pk.files[t] \in SdlText
      BY DEF FilesFit
    <2>3. /\ WithImport(pk.files[t], ImportOf(m)) \in SdlText
          /\ WithImport(pk.files[t], ImportOf(m)).imports = pk.files[t].imports \cup {ImportOf(m)}
      BY <1>4, <2>2, ImportEdits
    <2> QED BY <2>1, <2>2, <2>3
  <1>7. files[Lock] = Locked(ImportsOf(unlocked)) /\ ImportsOf(files) = ImportsOf(unlocked)
    BY PathKinds DEF WithLock, ImportsOf
  <1>8. files[Lock] \in LockText
    <2>1. \A t \in Targets : files[t].imports \subseteq Import
      BY <1>6 DEF SdlText
    <2>2. ImportsOf(files) \subseteq Import
      BY <2>1 DEF ImportsOf
    <2>3. {<<i.module, i.release>> : i \in ImportsOf(files)} \subseteq Modules \X Releases
      <3>1. \A i \in ImportsOf(files) : i.module \in Modules /\ i.release \in Releases
        BY <2>2 DEF Import
      <3> HIDE DEF files
      <3> QED BY <3>1
    <2>4. Locked(ImportsOf(files)) \in LockText
      BY <2>3 DEF Locked, LockText
    <2> QED BY <1>7, <2>4
  <1>9. FilesFit(files)
    BY <1>2, <1>5, <1>6, <1>8 DEF FilesFit
  <1>10. ids \in [Paths -> ArtifactIds]
    BY <1>2, RegisteredType DEF Packs
  <1>11. mt \in Packs /\ mt.files = files /\ mt.owners = owners /\ mt.rows = rows
         /\ mt.mats = pk.mats \cup {m} /\ mt.bound = pk.bound
    <2>1. files \in [Paths -> FileValues]
      <3>1. \A p \in Paths : files[p] \in FileValues
        BY <1>9, PathKinds DEF FilesFit, FileValues
      <3> QED BY <3>1 DEF WithLock
    <2>2. owners \in [Paths -> SUBSET Owners]
      BY <1>2 DEF Packs, Owners
    <2>3. rows \in [Paths -> ArtifactIds]
      BY <1>10 DEF Packs
    <2> HIDE DEF files, owners, rows, mt
    <2> QED BY <1>1, <2>1, <2>2, <2>3 DEF Packs
  <1>12. \A p \in KitPaths : owners[p] = IF p \in new THEN {m.ns} ELSE pk.owners[p]
    BY <1>2, PathKinds
  <1>13. \A t \in Targets :
           owners[t] \ {PackAuthor} =
             IF t = m.target THEN (pk.owners[t] \cup {m.ns}) \ {PackAuthor}
             ELSE pk.owners[t] \ {PackAuthor}
    BY <1>3, PathKinds
  <1>22. /\ \A p \in Targets \cup {Lock} :
              /\ owners[p] \subseteq pk.owners[p] \cup {m.ns, PackAuthor}
              /\ pk.owners[p] \subseteq owners[p]
         /\ m.ns \in owners[m.target]
    BY <1>2, <1>3, PathKinds
  <1>23. \A p \in Paths :
           rows[p] = IF p \in new \/ (p \in {m.target, Lock} /\ pk.owners[p] = {})
                     THEN ids[p] ELSE pk.rows[p]
    OBVIOUS
  <1> DEFINE rb == Rebaselined(mt)
             r == AddedTo(pk, m)
  <1>14. r = Refreshed(rb, ids)
    BY DEF AddedTo, WithIds
  <1> HIDE DEF mt, files, owners, rows, unlocked, ids, new
  <1>15. /\ rb \in Packs /\ FilesFit(rb.files)
         /\ rb.mats = pk.mats \cup {m} /\ rb.owners = owners /\ rb.bound = pk.bound
         /\ rb.rows = rows
         /\ \A p \in KitPaths \cup {Lock} : rb.files[p] = files[p]
         /\ \A t \in Targets : rb.files[t].imports = files[t].imports
    BY <1>9, <1>11, RebaselineFields
  <1> HIDE DEF rb, r
  <1>16. /\ r \in Packs /\ r.mats = rb.mats /\ r.owners = rb.owners /\ r.files = rb.files
         /\ r.rows = rb.rows
         /\ \A p \in Paths :
              r.bound[p] = IF rb.files[p] = Absent THEN Unbound
                           ELSE IF rb.bound[p] # Unbound THEN rb.bound[p] ELSE ids[p]
    BY <1>10, <1>14, <1>15, RefreshedFields DEF Member
  <1>17. ImportsOf(r.files) = ImportsOf(files)
    BY <1>15, <1>16 DEF ImportsOf
  <1>18. \A p \in KitPaths :
           /\ r.files[p] = IF p \in new THEN m.release ELSE pk.files[p]
           /\ r.owners[p] = IF p \in new THEN {m.ns} ELSE pk.owners[p]
    BY <1>5, <1>12, <1>15, <1>16
  <1>19. \A t \in Targets :
           /\ r.files[t].imports =
                IF t = m.target THEN pk.files[t].imports \cup {ImportOf(m)}
                ELSE pk.files[t].imports
           /\ r.owners[t] \ {PackAuthor} =
                IF t = m.target THEN (pk.owners[t] \cup {m.ns}) \ {PackAuthor}
                ELSE pk.owners[t] \ {PackAuthor}
    BY <1>6, <1>13, <1>15, <1>16
  <1>20. r.files[Lock] = Locked(ImportsOf(r.files))
    BY <1>7, <1>15, <1>16, <1>17
  <1>21. \A p \in Paths :
           r.bound[p] = IF r.files[p] = Absent THEN Unbound
                        ELSE IF pk.bound[p] # Unbound THEN pk.bound[p] ELSE ids[p]
    BY <1>15, <1>16
  <1>24. /\ r \in Packs /\ FilesFit(r.files) /\ r.mats = pk.mats \cup {m}
         /\ r.owners = owners /\ r.rows = rows
    BY <1>15, <1>16
  <1>25. Addition(pk, m, r)
    BY <1>18, <1>19, <1>20, <1>21, <1>22, <1>23, <1>24 DEF Addition, new, ids
  <1> QED BY <1>25 DEF r

--------------------------------------------------------------------------------
(* The invariant of a pack, in an operation as between operations: what the *)
(* ledger, the imports and the files say of the materializations, and the   *)
(* artifact ids apart from one another.                                     *)
OneNamespace(mats) == \A m, n \in mats : m.ns = n.ns => m = n

OneVersion(mats) ==
  \A m, n \in mats :
    KitOf(CoordinateOf[m.release]) = KitOf(CoordinateOf[n.release])
      => CoordinateOf[m.release] = CoordinateOf[n.release]

At(mats, t) == {m \in mats : m.target = t}

ImportsTell(pk) ==
  \A t \in Targets : pk.files[t].imports = {ImportOf(m) : m \in At(pk.mats, t)}

TargetsOwned(pk) ==
  \A t \in Targets : pk.owners[t] \ {PackAuthor} \subseteq {m.ns : m \in At(pk.mats, t)}

KitFileOwned(pk, p) ==
  \E m \in pk.mats :
    /\ pk.owners[p] = {m.ns}
    /\ pk.files[p] = m.release
    /\ p \in NewKitFiles(m.release, m.ns)

KitFilesOwned(pk) == \A p \in KitPaths : pk.files[p] \in Releases => KitFileOwned(pk, p)

(* No kit file has two owners, or an owner that is gone.                    *)
KitPathsOwned(pk) ==
  \A p \in KitPaths : pk.owners[p] # {} => \E m \in pk.mats : pk.owners[p] = {m.ns}

(* The artifact ids of the ledger's rows: a kit file's is its owner's.      *)
RowsFit(pk) ==
  /\ \A p \in KitPaths : pk.rows[p] # Unbound => pk.owners[p] = {pk.rows[p][1]}
  /\ \A p \in Targets \cup {Lock} : pk.rows[p] \in {Unbound, Generated(p)}

RowsApart(rows) ==
  \A p, q \in Paths : rows[p] # Unbound /\ rows[p] = rows[q] => p = q

(* A suffix is the path's own; only kit files have an id in a namespace.    *)
InNamespace(p, id) == p \in KitPaths /\ id[1] \in Namespaces /\ id[3] \in {{}, {p}}

IdsFit(bound) ==
  \A p \in Paths :
    bound[p] # Unbound => bound[p] = Generated(p) \/ InNamespace(p, bound[p])

(* An id in a namespace is that of a file with an owner, or, while a        *)
(* materialization is being replaced, of a file that is gone.               *)
IdOwned(pk, p) == pk.bound[p] # Unbound /\ pk.bound[p][1] \in Namespaces => pk.owners[p] # {}
IdsOwned(pk) == \A p \in KitPaths : IdOwned(pk, p)
IdsLeft(pk) == \A p \in KitPaths : pk.files[p] = Absent \/ IdOwned(pk, p)

IdsApart(bound) ==
  \A p, q \in Paths : bound[p] # Unbound /\ bound[p] = bound[q] => p = q

Inert(m) ==
  /\ m.release \in SourceRelease(m.source, CoordinateOf[m.release]) \cap InertReleases
  /\ \A x \in m.parameters :
       /\ x[1] \in Draft[m.release].module.parsed.parameters \ SecretNames
       /\ x[2] \notin SecretValues

Sound(pk) ==
  /\ pk \in Packs /\ FilesFit(pk.files)
  /\ OneNamespace(pk.mats) /\ OneVersion(pk.mats)
  /\ ImportsTell(pk) /\ TargetsOwned(pk) /\ KitFilesOwned(pk)
  /\ KitPathsOwned(pk) /\ RowsFit(pk) /\ RowsApart(pk.rows)
  /\ IdsFit(pk.bound) /\ IdsApart(pk.bound) /\ IdsLeft(pk)
  /\ \A m \in pk.mats : Inert(m)

(* What of it no artifact id and no other pack can break.                   *)
Accounted(pk) ==
  /\ pk \in Packs /\ FilesFit(pk.files)
  /\ OneNamespace(pk.mats) /\ ImportsTell(pk) /\ TargetsOwned(pk) /\ KitFilesOwned(pk)
  /\ KitPathsOwned(pk) /\ RowsFit(pk) /\ RowsApart(pk.rows)

(* Before the first operation is through there may be no lock.              *)
LockTells(pk) == Member(pk, Lock) => pk.files[Lock] = Locked(ImportsOf(pk.files))

(* Every operation commits what validates; the author leaves the ledger.    *)
LedgerInv ==
  Sound(pack) /\ LockTells(pack) /\ IdsOwned(pack) /\ LedgerContract(pack)

(* Binding every member for the first time.                                 *)
LEMMA EnsureSound ==
  ASSUME NEW pk, Sound(pk)
  PROVE  Sound(EnsureIdentity(pk))
  <1> DEFINE e == EnsureIdentity(pk)
  <1>1. /\ e \in Packs
        /\ e.mats = pk.mats /\ e.owners = pk.owners /\ e.files = pk.files
        /\ e.rows = pk.rows
        /\ \/ e.bound = pk.bound
           \/ \A p \in Paths : e.bound[p] \in {Generated(p), Unbound}
    BY EnsuredFields DEF Sound
  <1> HIDE DEF e
  <1>2. IdsFit(e.bound)
    BY <1>1 DEF Sound, IdsFit
  <1>3. IdsApart(e.bound)
    <2>1. \A p, q \in Paths : Generated(p) = Generated(q) => p = q
      BY DEF Generated, Named
    <2> QED BY <1>1, <2>1 DEF Sound, IdsApart
  <1>4. ImportsTell(e) /\ TargetsOwned(e) /\ KitFilesOwned(e)
    BY <1>1 DEF Sound, ImportsTell, TargetsOwned, KitFilesOwned, KitFileOwned
  <1>5. KitPathsOwned(e) /\ RowsFit(e) /\ RowsApart(e.rows)
    BY <1>1 DEF Sound, KitPathsOwned, RowsFit, RowsApart
  <1>6. IdsLeft(e)
    <2>1. \A p \in Paths : Generated(p)[1] \notin Namespaces
      BY PathKinds DEF Generated, Named
    <2> QED BY <1>1, <2>1, PathKinds DEF Sound, IdsLeft, IdOwned
  <1> QED BY <1>1, <1>2, <1>3, <1>4, <1>5, <1>6 DEF Sound, e

(* A removal leaves every other materialization as it was, and no file of   *)
(* the one that goes.                                                       *)
LEMMA RemovalSound ==
  ASSUME NEW pk, Sound(pk), NEW m \in pk.mats
  PROVE  /\ Sound(StageRemoval(pk, m))
         /\ StageRemoval(pk, m).files[Lock] = pk.files[Lock]
         /\ StageRemoval(pk, m).bound = pk.bound
         /\ StageRemoval(pk, m).mats = pk.mats \ {m}
         /\ \A p \in KitPaths : pk.owners[p] = {} =>
              StageRemoval(pk, m).files[p] = pk.files[p]
  <1> DEFINE r == StageRemoval(pk, m)
  <1>1. \A t \in Targets : m.ns \in pk.owners[t] => t = m.target
    <2> SUFFICES ASSUME NEW t \in Targets, m.ns \in pk.owners[t] PROVE t = m.target
      OBVIOUS
    <2>1. m.ns # PackAuthor
      BY PathKinds DEF Sound, Packs, MatRecord
    <2>2. PICK n \in At(pk.mats, t) : n.ns = m.ns
      BY <2>1 DEF Sound, TargetsOwned
    <2> QED BY <2>2 DEF Sound, OneNamespace, At
  <1> HIDE DEF r
  <1>2. /\ r \in Packs /\ FilesFit(r.files)
        /\ r.mats = pk.mats \ {m} /\ r.bound = pk.bound
        /\ \A p \in Paths :
             /\ r.owners[p] = OnlyKitOwned(pk.owners[p] \ {m.ns})
             /\ r.rows[p] = IF r.owners[p] = {} THEN Unbound ELSE pk.rows[p]
        /\ \A p \in KitPaths :
             r.files[p] = IF m.ns \in pk.owners[p] /\ OnlyKitOwned(pk.owners[p] \ {m.ns}) = {}
                          THEN Absent ELSE pk.files[p]
        /\ \A t \in Targets :
             r.files[t].imports =
               IF t = m.target THEN {i \in pk.files[t].imports : i.module[1] # m.ns}
               ELSE pk.files[t].imports
        /\ r.files[Lock] = pk.files[Lock]
    <2>1. Removal(pk, m, r)
      BY <1>1, RemovalFields DEF Sound, r
    <2> QED BY <2>1 DEF Removal
  <1>3. OneNamespace(r.mats) /\ OneVersion(r.mats) /\ \A n \in r.mats : Inert(n)
    BY <1>2 DEF Sound, OneNamespace, OneVersion
  <1>4. ImportsTell(r)
    <2> SUFFICES ASSUME NEW t \in Targets
                 PROVE  r.files[t].imports = {ImportOf(n) : n \in At(r.mats, t)}
      BY DEF ImportsTell
    <2>1. pk.files[t].imports = {ImportOf(n) : n \in At(pk.mats, t)}
      BY DEF Sound, ImportsTell
    <2>2. \A n \in pk.mats : ImportOf(n).module[1] = n.ns
      BY DEF ImportOf, ModuleOf
    <2>3. At(r.mats, t) = {n \in At(pk.mats, t) : n # m}
      BY <1>2 DEF At
    <2>4. \A n \in At(pk.mats, t) : n # m <=> n.ns # m.ns
      BY DEF At, Sound, OneNamespace
    <2>5. CASE t = m.target
      <3>1. {i \in pk.files[t].imports : i.module[1] # m.ns}
              = {ImportOf(n) : n \in {n \in At(pk.mats, t) : n.ns # m.ns}}
        BY <2>1, <2>2 DEF At
      <3> QED BY <1>2, <2>3, <2>4, <2>5, <3>1
    <2>6. CASE t # m.target
      <3>1. At(r.mats, t) = At(pk.mats, t)
        BY <1>2, <2>6 DEF At
      <3> QED BY <1>2, <2>1, <2>6, <3>1
    <2> QED BY <2>5, <2>6
  <1>5. TargetsOwned(r)
    <2> SUFFICES ASSUME NEW t \in Targets, NEW ns \in r.owners[t] \ {PackAuthor}
                 PROVE  \E n \in At(r.mats, t) : n.ns = ns
      BY DEF TargetsOwned
    <2>1. ns \in pk.owners[t] /\ ns # m.ns
      <3>1. r.owners[t] = OnlyKitOwned(pk.owners[t] \ {m.ns})
        BY <1>2, PathKinds
      <3> QED BY <3>1 DEF OnlyKitOwned
    <2>2. PICK n \in At(pk.mats, t) : n.ns = ns
      BY <2>1 DEF Sound, TargetsOwned
    <2> QED BY <1>2, <2>1, <2>2 DEF At
  <1>6. KitFilesOwned(r)
    <2> SUFFICES ASSUME NEW p \in KitPaths, r.files[p] \in Releases
                 PROVE  KitFileOwned(r, p)
      BY DEF KitFilesOwned
    <2>1. /\ r.files[p] = pk.files[p]
          /\ m.ns \in pk.owners[p] => OnlyKitOwned(pk.owners[p] \ {m.ns}) # {}
      BY <1>2, PathKinds
    <2>2. PICK n \in pk.mats : /\ pk.owners[p] = {n.ns} /\ pk.files[p] = n.release
                               /\ p \in NewKitFiles(n.release, n.ns)
      BY <2>1 DEF Sound, KitFilesOwned, KitFileOwned
    <2>3. n.ns # m.ns
      BY <2>1, <2>2 DEF OnlyKitOwned
    <2>4. n.ns # PackAuthor
      BY PathKinds DEF Sound, Packs, MatRecord
    <2>5. r.owners[p] = {n.ns}
      <3>1. r.owners[p] = OnlyKitOwned(pk.owners[p] \ {m.ns})
        BY <1>2, PathKinds
      <3>2. pk.owners[p] \ {m.ns} = {n.ns}
        BY <2>2, <2>3
      <3> QED BY <2>4, <3>1, <3>2 DEF OnlyKitOwned
    <2> QED BY <1>2, <2>1, <2>2, <2>3, <2>5 DEF KitFileOwned
  <1>7. IdsFit(r.bound) /\ IdsApart(r.bound)
    BY <1>2 DEF Sound
  <1>8. \A p \in KitPaths : pk.owners[p] = {} => r.files[p] = pk.files[p]
    BY <1>2
  <1>9. \A p \in KitPaths :
          \/ r.owners[p] = {} /\ (pk.owners[p] # {} => r.files[p] = Absent)
          \/ r.owners[p] = pk.owners[p] /\ m.ns \notin pk.owners[p]
    <2> SUFFICES ASSUME NEW p \in KitPaths
                 PROVE  \/ r.owners[p] = {} /\ (pk.owners[p] # {} => r.files[p] = Absent)
                        \/ r.owners[p] = pk.owners[p] /\ m.ns \notin pk.owners[p]
      OBVIOUS
    <2>1. p \in Paths
      BY PathKinds
    <2>2. CASE pk.owners[p] = {}
      BY <1>2, <2>1, <2>2 DEF OnlyKitOwned
    <2>3. CASE pk.owners[p] # {}
      <3>1. PICK n \in pk.mats : pk.owners[p] = {n.ns}
        BY <2>3 DEF Sound, KitPathsOwned
      <3>2. n.ns # PackAuthor
        BY PathKinds DEF Sound, Packs, MatRecord
      <3>3. CASE n.ns = m.ns
        <4>1. pk.owners[p] \ {m.ns} = {} /\ m.ns \in pk.owners[p]
          BY <3>1, <3>3
        <4> QED BY <1>2, <2>1, <4>1 DEF OnlyKitOwned
      <3>4. CASE n.ns # m.ns
        <4>1. pk.owners[p] \ {m.ns} = {n.ns}
          BY <3>1, <3>4
        <4> QED BY <1>2, <2>1, <3>1, <3>2, <3>4, <4>1 DEF OnlyKitOwned
      <3> QED BY <3>3, <3>4
    <2> QED BY <2>2, <2>3
  <1>10. KitPathsOwned(r) /\ RowsFit(r) /\ RowsApart(r.rows)
    <2>1. KitPathsOwned(r)
      BY <1>2, <1>9 DEF Sound, KitPathsOwned
    <2>2. RowsFit(r)
      BY <1>2, <1>9, PathKinds DEF Sound, RowsFit
    <2>3. RowsApart(r.rows)
      BY <1>2 DEF Sound, RowsApart
    <2> QED BY <2>1, <2>2, <2>3
  <1>11. IdsLeft(r)
    BY <1>2, <1>9 DEF Sound, IdsLeft, IdOwned
  <1> QED BY <1>2, <1>3, <1>4, <1>5, <1>6, <1>7, <1>8, <1>10, <1>11 DEF Sound, r

(* Two files of one addition are not given the same id: the assets of a     *)
(* release have different ids, and the module avoids theirs.                *)
LEMMA AssetsApart ==
  ASSUME NEW r \in Releases, NEW ns \in Namespaces,
         NEW p \in AssetsOf[r], NEW q \in AssetsOf[r], p # q,
         p # ModuleOf(r, ns), q # ModuleOf(r, ns)
  PROVE  Preferred(r, ns, p)[2] # Preferred(r, ns, q)[2]
  <1> DEFINE rows == Draft[r].document.assets
             a == CHOOSE x \in AssetRows[r] : x.target = p
             b == CHOOSE x \in AssetRows[r] : x.target = q
  <1>1. r \in Staged /\ AssetViolations(Draft[r].document) = {}
    BY DEF Releases, Loads, LoadsDocument, Violations
  <1>2. AssetRows[r] = Range(rows)
    BY <1>1 DEF AssetRows
  <1>3. AssetsOf[r] = {x.target : x \in AssetRows[r]}
    BY <1>1 DEF AssetsOf
  <1>4. a \in Range(rows) /\ a.target = p /\ b \in Range(rows) /\ b.target = q
    BY <1>2, <1>3
  <1>5. Preferred(r, ns, p) = <<ns, a.artifact, {}>> /\ Preferred(r, ns, q) = <<ns, b.artifact, {}>>
    BY DEF Preferred, Named
  <1> HIDE DEF a, b, rows
  <1>6. PICK i \in DOMAIN rows, j \in DOMAIN rows : rows[i] = a /\ rows[j] = b
    BY <1>4 DEF Range
  <1>7. IsInjective(Column(rows, "artifact"))
    BY <1>1 DEF AssetViolations, Flag, rows
  <1>8. i # j
    BY <1>4, <1>6
  <1>9. a.artifact # b.artifact
    BY <1>6, <1>7, <1>8 DEF IsInjective, Column
  <1> QED BY <1>5, <1>9

LEMMA NewIdsApart ==
  ASSUME NEW bound, NEW r \in Releases, NEW ns \in Namespaces,
         NEW p \in NewKitFiles(r, ns), NEW q \in NewKitFiles(r, ns), p # q
  PROVE  Registered(bound, r, ns)[p] # Registered(bound, r, ns)[q]
  <1> DEFINE id(x) == Registered(bound, r, ns)[x]
             module == ModuleOf(r, ns)
  <1>1. /\ NewKitFiles(r, ns) \subseteq Paths
        /\ module \in Modules
        /\ NewKitFiles(r, ns) = {module} \cup AssetsOf[r]
    BY NewFilesAreKitPaths, PathKinds DEF NewKitFiles
  <1>2. AssetsOf[r] \cap Modules = {}
    BY AssetsAreSafe, LedgerAssumption DEF Assets
  <1>3. \A x \in NewKitFiles(r, ns) :
          id(x) = UniqueId(Preferred(r, ns, x), Unavailable(bound, r, ns, x), x)
    BY <1>1 DEF Registered
  <1>4. \A x \in NewKitFiles(r, ns) :
          id(x)[2] = Preferred(r, ns, x)[2] /\ id(x)[3] \in {{}, {x}}
    BY <1>1, <1>3, PreferredIds, AllocatedIds
  <1>5. \A x \in AssetsOf[r] : id(x) = AssetId(bound, r, ns, x)
    BY <1>1, <1>2, <1>3 DEF Unavailable, AssetId
  <1>6. \A x \in AssetsOf[r] : id(x) \in Unavailable(bound, r, ns, module)
    BY <1>1, <1>5 DEF Unavailable
  <1>7. id(module) \notin Unavailable(bound, r, ns, module) \/ id(module)[3] = {module}
    <2>1. KitId(ns, Preferred(r, ns, module))
      BY <1>1, PreferredIds
    <2> DEFINE pref == Preferred(r, ns, module)
    <2>2. id(module) = UniqueId(pref, Unavailable(bound, r, ns, module), module)
      BY <1>1, <1>3
    <2>3. Suffixed(pref, module)[3] = {module}
      BY DEF Suffixed
    <2> HIDE DEF id, pref, module
    <2> QED BY <2>2, <2>3 DEF UniqueId
  <1> HIDE DEF id, module
  <1>8. CASE p \in AssetsOf[r] /\ q \in AssetsOf[r]
    <2>1. p # ModuleOf(r, ns) /\ q # ModuleOf(r, ns)
      BY <1>1, <1>2, <1>8 DEF module
    <2>2. Preferred(r, ns, p)[2] # Preferred(r, ns, q)[2]
      BY <1>8, <2>1, AssetsApart
    <2> QED BY <1>4, <2>2 DEF id
  <1>9. \A x \in AssetsOf[r] : x # module => id(x) # id(module)
    <2> SUFFICES ASSUME NEW x \in AssetsOf[r], x # module PROVE id(x) # id(module)
      OBVIOUS
    <2>1. id(x) \in Unavailable(bound, r, ns, module) /\ id(x)[3] \in {{}, {x}}
      BY <1>1, <1>4, <1>6
    <2> QED BY <1>7, <2>1
  <1> QED BY <1>1, <1>8, <1>9 DEF id

(* Ids that an addition registers: those of the kit's files are in its      *)
(* namespace, the others name their member.                                 *)
LEMMA RegisteredShape ==
  ASSUME NEW bound, IdsFit(bound), NEW r \in Releases, NEW ns \in Namespaces
  PROVE  LET ids == Registered(bound, r, ns)
             Free == {p \in Paths : bound[p] = Unbound}
         IN /\ \A p \in NewKitFiles(r, ns) : ids[p][1] = ns /\ InNamespace(p, ids[p])
            /\ \A p \in Free : p \notin NewKitFiles(r, ns) => ids[p] = Generated(p)
            /\ \A p \in Targets \cup {Lock} : ids[p] = Generated(p)
  <1> DEFINE ids == Registered(bound, r, ns)
             new == NewKitFiles(r, ns)
  <1>1. new \subseteq KitPaths /\ KitPaths \subseteq Paths
    BY NewFilesAreKitPaths, PathKinds
  <1>2. \A p \in new : ids[p] = UniqueId(Preferred(r, ns, p), Unavailable(bound, r, ns, p), p)
    BY <1>1 DEF Registered
  <1>3. \A p \in new : ids[p][1] = ns /\ ids[p][3] \in {{}, {p}}
    BY <1>1, <1>2, PreferredIds, AllocatedIds
  <1>4. \A p \in Paths : p \notin new =>
          ids[p] = IF bound[p] # Unbound THEN bound[p] ELSE Generated(p)
    BY DEF Registered
  <1> HIDE DEF ids, new
  <1>5. \A p \in Targets \cup {Lock} : ids[p] = Generated(p)
    <2>1. \A p \in Targets \cup {Lock} : p \in Paths /\ p \notin KitPaths /\ p \notin new
      BY <1>1, PathKinds
    <2> QED BY <1>4, <2>1 DEF IdsFit, InNamespace
  <1> QED BY <1>1, <1>3, <1>4, <1>5 DEF InNamespace, ids, new

(* Ids registered for members without one are fresh.                        *)
LEMMA RegisteredIds ==
  ASSUME NEW bound, IdsFit(bound), NEW r \in Releases, NEW ns \in Namespaces,
         \A x \in NewKitFiles(r, ns) :
           ~Unallocable(Preferred(r, ns, x), Unavailable(bound, r, ns, x), x)
  PROVE  LET ids == Registered(bound, r, ns)
             Free == {p \in Paths : bound[p] = Unbound}
         IN /\ \A p \in Free : ids[p] = Generated(p) \/ InNamespace(p, ids[p])
            /\ \A p \in Free, q \in Paths : bound[q] # Unbound => bound[q] # ids[p]
            /\ \A p, q \in Free : ids[p] = ids[q] => p = q
  <1> DEFINE ids == Registered(bound, r, ns)
             new == NewKitFiles(r, ns)
             Free == {p \in Paths : bound[p] = Unbound}
  <1>1. new \subseteq Paths /\ PackAuthor \notin Namespaces
    BY NewFilesAreKitPaths, PathKinds
  <1>2. /\ \A p \in Free : p \notin new => ids[p] = Generated(p)
        /\ \A p \in new : InNamespace(p, ids[p])
    BY RegisteredShape
  <1>3. \A p \in new : ids[p] = UniqueId(Preferred(r, ns, p), Unavailable(bound, r, ns, p), p)
    BY <1>1 DEF Registered
  <1>4. \A p \in new : ids[p] \notin Unavailable(bound, r, ns, p) /\ ids[p][1] = ns
    BY <1>1, <1>3, PreferredIds, AllocatedIds
  <1>5. \A p, q \in Paths : Generated(p)[1] = PackAuthor /\ (Generated(p) = Generated(q) => p = q)
    BY DEF Generated, Named
  <1>6. \A p, q \in new : ids[p] = ids[q] => p = q
    BY NewIdsApart
  <1> HIDE DEF ids, new
  <1>7. \A p \in Free, q \in Paths : bound[q] # Unbound => bound[q] # ids[p]
    <2> SUFFICES ASSUME NEW p \in Free, NEW q \in Paths, bound[q] # Unbound
                 PROVE  bound[q] # ids[p]
      OBVIOUS
    <2>1. CASE p \in new
      <3>1. bound[q] \in Unavailable(bound, r, ns, p)
        BY DEF Unavailable, Taken
      <3> QED BY <1>4, <2>1, <3>1
    <2>2. CASE p \notin new
      <3>1. ids[p] = Generated(p) /\ bound[p] = Unbound
        BY <1>2, <2>2
      <3>2. bound[q] = Generated(q) \/ bound[q][1] \in Namespaces
        BY DEF IdsFit, InNamespace
      <3> QED BY <1>1, <1>5, <3>1, <3>2
    <2> QED BY <2>1, <2>2
  <1>8. \A p, q \in Free : ids[p] = ids[q] => p = q
    BY <1>1, <1>2, <1>4, <1>5, <1>6
  <1>9. \A p \in Free : ids[p] = Generated(p) \/ InNamespace(p, ids[p])
    BY <1>2
  <1> QED BY <1>7, <1>8, <1>9 DEF ids

(* An addition in a new namespace is accounted for, whatever its ids.       *)
LEMMA AdditionAccounted ==
  ASSUME NEW pk, Sound(pk), NEW m \in MatRecord, \A n \in pk.mats : n.ns # m.ns
  PROVE  Accounted(AddedTo(pk, m))
  <1> DEFINE r == AddedTo(pk, m)
             new == NewKitFiles(m.release, m.ns)
             ids == Registered(pk.bound, m.release, m.ns)
  <1> HIDE DEF r
  <1>1. /\ r \in Packs /\ FilesFit(r.files)
        /\ r.mats = pk.mats \cup {m}
        /\ \A p \in KitPaths :
             /\ r.files[p] = IF p \in new THEN m.release ELSE pk.files[p]
             /\ r.owners[p] = IF p \in new THEN {m.ns} ELSE pk.owners[p]
        /\ \A t \in Targets :
             /\ r.files[t].imports =
                  IF t = m.target THEN pk.files[t].imports \cup {ImportOf(m)}
                  ELSE pk.files[t].imports
             /\ r.owners[t] \ {PackAuthor} =
                  IF t = m.target THEN (pk.owners[t] \cup {m.ns}) \ {PackAuthor}
                  ELSE pk.owners[t] \ {PackAuthor}
        /\ \A p \in Paths :
             r.rows[p] = IF p \in new \/ (p \in {m.target, Lock} /\ pk.owners[p] = {})
                         THEN ids[p] ELSE pk.rows[p]
        /\ r.files[Lock] = Locked(ImportsOf(r.files))
        /\ \A p \in Paths :
             r.bound[p] = IF r.files[p] = Absent THEN Unbound
                          ELSE IF pk.bound[p] # Unbound THEN pk.bound[p] ELSE ids[p]
    <2>1. Addition(pk, m, r)
      BY AdditionFields DEF Sound, r
    <2> QED BY <2>1 DEF Addition
  <1>2. m.release \in Releases /\ m.ns \in Namespaces /\ m.target \in Targets
    BY DEF MatRecord
  <1>3. /\ \A p \in new : ids[p][1] = m.ns
        /\ \A p \in Targets \cup {Lock} : ids[p] = Generated(p)
    BY <1>2, RegisteredShape DEF Sound
  <1> HIDE DEF ids
  <1>4. OneNamespace(r.mats)
    BY <1>1 DEF Sound, OneNamespace
  <1>5. ImportsTell(r)
    <2> SUFFICES ASSUME NEW t \in Targets
                 PROVE  r.files[t].imports = {ImportOf(n) : n \in At(r.mats, t)}
      BY DEF ImportsTell
    <2>1. pk.files[t].imports = {ImportOf(n) : n \in At(pk.mats, t)}
      BY DEF Sound, ImportsTell
    <2>2. CASE t = m.target
      <3>1. At(r.mats, t) = At(pk.mats, t) \cup {m}
        BY <1>1, <2>2 DEF At
      <3>2. r.files[t].imports = pk.files[t].imports \cup {ImportOf(m)}
        BY <1>1, <2>2
      <3> QED BY <2>1, <3>1, <3>2
    <2>3. CASE t # m.target
      <3>1. At(r.mats, t) = At(pk.mats, t)
        BY <1>1, <2>3 DEF At
      <3> QED BY <1>1, <2>1, <2>3, <3>1
    <2> QED BY <2>2, <2>3
  <1>6. TargetsOwned(r)
    <2> SUFFICES ASSUME NEW t \in Targets, NEW ns \in r.owners[t] \ {PackAuthor}
                 PROVE  \E n \in At(r.mats, t) : n.ns = ns
      BY DEF TargetsOwned
    <2>1. ns \in pk.owners[t] \ {PackAuthor} \/ (t = m.target /\ ns = m.ns)
      <3>1. ns \in IF t = m.target THEN (pk.owners[t] \cup {m.ns}) \ {PackAuthor}
                   ELSE pk.owners[t] \ {PackAuthor}
        BY <1>1
      <3> QED BY <3>1
    <2>2. CASE ns \in pk.owners[t] \ {PackAuthor}
      BY <1>1, <2>2 DEF Sound, TargetsOwned, At
    <2>3. CASE t = m.target /\ ns = m.ns
      BY <1>1, <2>3 DEF At
    <2> QED BY <2>1, <2>2, <2>3
  <1>7. KitFilesOwned(r)
    <2> SUFFICES ASSUME NEW p \in KitPaths, r.files[p] \in Releases
                 PROVE  KitFileOwned(r, p)
      BY DEF KitFilesOwned
    <2>1. CASE p \in new
      BY <1>1, <2>1 DEF KitFileOwned
    <2>2. CASE p \notin new
      BY <1>1, <2>2 DEF Sound, KitFilesOwned, KitFileOwned
    <2> QED BY <2>1, <2>2
  <1>8. KitPathsOwned(r)
    BY <1>1 DEF Sound, KitPathsOwned
  <1>9. /\ new \subseteq KitPaths /\ m.target \notin KitPaths /\ Lock \notin KitPaths
         /\ KitPaths \subseteq Paths /\ Targets \cup {Lock} \subseteq Paths
    BY <1>2, NewFilesAreKitPaths, PathKinds
  <1>10. \A p \in KitPaths : p \notin new => r.rows[p] = pk.rows[p]
    BY <1>1, <1>9
  <1>11. RowsFit(r)
    <2>1. \A p \in KitPaths : r.rows[p] # Unbound => r.owners[p] = {r.rows[p][1]}
      BY <1>1, <1>3, <1>9, <1>10 DEF Sound, RowsFit
    <2>2. \A p \in Targets \cup {Lock} : r.rows[p] \in {Unbound, Generated(p)}
      BY <1>1, <1>3, <1>9, PathKinds DEF Sound, RowsFit
    <2> QED BY <2>1, <2>2 DEF RowsFit
  <1>12. RowsApart(r.rows)
    <2> SUFFICES ASSUME NEW p \in Paths, NEW q \in Paths, r.rows[p] # Unbound,
                        r.rows[p] = r.rows[q]
                 PROVE  p = q
      BY DEF RowsApart
    <2>1. CASE p \in Targets \cup {Lock} /\ q \in Targets \cup {Lock}
      BY <1>11, <2>1 DEF RowsFit, Generated, Named
    <2>2. ASSUME NEW x \in KitPaths, NEW y \in Targets \cup {Lock}
          PROVE  ~(r.rows[x] # Unbound /\ r.rows[x] = r.rows[y])
      <3> SUFFICES ASSUME r.rows[x] # Unbound, r.rows[x] = r.rows[y] PROVE FALSE
        OBVIOUS
      <3>1. r.owners[x] = {r.rows[x][1]} /\ r.rows[y] = Generated(y)
        BY <1>11 DEF RowsFit
      <3>2. PICK n \in r.mats : r.owners[x] = {n.ns}
        BY <1>8, <3>1 DEF KitPathsOwned
      <3>3. n.ns # PackAuthor
        BY <1>1, PathKinds DEF Packs, MatRecord
      <3> QED BY <3>1, <3>2, <3>3 DEF Generated, Named
    <2>3. CASE p \in KitPaths /\ q \in KitPaths
      <3>1. CASE p \in new /\ q \in new
        <4>1. r.rows[p] = ids[p] /\ r.rows[q] = ids[q]
          BY <1>1, <3>1
        <4> QED BY <1>2, <2>3, <3>1, <4>1, NewIdsApart DEF ids
      <3>2. CASE p \notin new /\ q \notin new
        BY <1>10, <2>3, <3>2 DEF Sound, RowsApart
      <3>3. r.owners[p] = r.owners[q]
        BY <1>11, <2>3 DEF RowsFit
      <3>4. \A x \in KitPaths : x \notin new /\ r.rows[x] # Unbound => r.owners[x] # {m.ns}
        <4> SUFFICES ASSUME NEW x \in KitPaths, x \notin new, r.rows[x] # Unbound
                     PROVE  r.owners[x] # {m.ns}
          OBVIOUS
        <4>1. pk.rows[x] # Unbound /\ r.owners[x] = pk.owners[x]
          BY <1>1, <1>10
        <4>2. PICK n \in pk.mats : pk.owners[x] = {n.ns}
          BY <4>1 DEF Sound, RowsFit, KitPathsOwned
        <4> QED BY <4>1, <4>2
      <3>5. \A x \in new : r.owners[x] = {m.ns}
        BY <1>1, <1>9
      <3> QED BY <2>3, <3>1, <3>2, <3>3, <3>4, <3>5
    <2> QED BY <2>1, <2>2, <2>3, PathKinds
  <1> QED BY <1>1, <1>4, <1>5, <1>6, <1>7, <1>8, <1>11, <1>12 DEF Accounted, r

(* An admitted addition changes nothing that was there.                     *)
Fresh(pk, m) ==
  /\ \A n \in pk.mats : n.ns # m.ns
  /\ \A n \in pk.mats : KitOf(CoordinateOf[n.release]) = KitOf(CoordinateOf[m.release])
                          => CoordinateOf[n.release] = CoordinateOf[m.release]
  /\ \A p \in NewKitFiles(m.release, m.ns) :
       /\ pk.files[p] = Absent
       /\ ~Unallocable(Preferred(m.release, m.ns, p),
                       Unavailable(pk.bound, m.release, m.ns, p), p)

LEMMA AdditionSound ==
  ASSUME NEW pk, Sound(pk), NEW m \in MatRecord, Inert(m), Fresh(pk, m)
  PROVE  /\ Sound(AddedTo(pk, m)) /\ LockTells(AddedTo(pk, m)) /\ IdsOwned(AddedTo(pk, m))
         /\ \A p \in KitPaths : pk.files[p] # Absent => AddedTo(pk, m).files[p] = pk.files[p]
         /\ \A p, q \in Paths : pk.bound[p] # Unbound =>
              /\ AddedTo(pk, m).files[p] # Absent => AddedTo(pk, m).bound[p] = pk.bound[p]
              /\ AddedTo(pk, m).bound[q] = pk.bound[p] => p = q
  <1> DEFINE r == AddedTo(pk, m)
             new == NewKitFiles(m.release, m.ns)
             ids == Registered(pk.bound, m.release, m.ns)
  <1> HIDE DEF r
  <1>1. /\ r \in Packs /\ FilesFit(r.files)
        /\ r.mats = pk.mats \cup {m}
        /\ \A p \in KitPaths :
             /\ r.files[p] = IF p \in new THEN m.release ELSE pk.files[p]
             /\ r.owners[p] = IF p \in new THEN {m.ns} ELSE pk.owners[p]
        /\ \A t \in Targets :
             /\ r.files[t].imports =
                  IF t = m.target THEN pk.files[t].imports \cup {ImportOf(m)}
                  ELSE pk.files[t].imports
             /\ r.owners[t] \ {PackAuthor} =
                  IF t = m.target THEN (pk.owners[t] \cup {m.ns}) \ {PackAuthor}
                  ELSE pk.owners[t] \ {PackAuthor}
        /\ \A p \in Paths :
             r.rows[p] = IF p \in new \/ (p \in {m.target, Lock} /\ pk.owners[p] = {})
                         THEN ids[p] ELSE pk.rows[p]
        /\ r.files[Lock] = Locked(ImportsOf(r.files))
        /\ \A p \in Paths :
             r.bound[p] = IF r.files[p] = Absent THEN Unbound
                          ELSE IF pk.bound[p] # Unbound THEN pk.bound[p] ELSE ids[p]
    <2>1. Addition(pk, m, r)
      BY AdditionFields DEF Sound, r
    <2> QED BY <2>1 DEF Addition
  <1>2. m.release \in Releases /\ m.ns \in Namespaces /\ m.target \in Targets
    BY DEF MatRecord
  <1>3. LET Free == {p \in Paths : pk.bound[p] = Unbound}
        IN /\ \A p \in Free : ids[p] = Generated(p) \/ InNamespace(p, ids[p])
           /\ \A p \in Free, q \in Paths : pk.bound[q] # Unbound => pk.bound[q] # ids[p]
           /\ \A p, q \in Free : ids[p] = ids[q] => p = q
           /\ \A p \in Free : p \notin new => ids[p] = Generated(p)
    BY <1>2, RegisteredIds, RegisteredShape DEF Sound, Fresh
  <1> HIDE DEF ids
  <1>4. OneVersion(r.mats) /\ \A n \in r.mats : Inert(n)
    BY <1>1 DEF Sound, OneVersion, Fresh
  <1>5. Accounted(r)
    BY AdditionAccounted DEF Fresh, r
  <1>6. new \subseteq KitPaths /\ KitPaths \subseteq Paths
    BY <1>2, NewFilesAreKitPaths, PathKinds
  <1>7. IdsFit(r.bound)
    BY <1>1, <1>3 DEF Sound, IdsFit
  <1>8. \A p, q \in Paths : pk.bound[p] # Unbound =>
          /\ r.files[p] # Absent => r.bound[p] = pk.bound[p]
          /\ r.bound[q] = pk.bound[p] => p = q
    BY <1>1, <1>3 DEF Sound, IdsApart
  <1>9. IdsApart(r.bound)
    BY <1>1, <1>3, <1>8 DEF Sound, IdsApart
  <1>10. \A p \in KitPaths : pk.files[p] # Absent => r.files[p] = pk.files[p]
    BY <1>1 DEF Fresh
  <1>11. LockTells(r)
    BY <1>1 DEF LockTells
  <1>12. IdsOwned(r)
    <2> SUFFICES ASSUME NEW p \in KitPaths, r.bound[p] # Unbound, r.bound[p][1] \in Namespaces
                 PROVE  r.owners[p] # {}
      BY DEF IdsOwned, IdOwned
    <2>1. CASE p \in new
      BY <1>1, <2>1
    <2>2. CASE p \notin new
      <3>1. /\ r.owners[p] = pk.owners[p] /\ r.files[p] = pk.files[p] /\ r.files[p] # Absent
            /\ r.bound[p] = IF pk.bound[p] # Unbound THEN pk.bound[p] ELSE ids[p]
        BY <1>1, <1>6, <2>2
      <3>2. CASE pk.bound[p] # Unbound
        BY <3>1, <3>2 DEF Sound, IdsLeft, IdOwned
      <3>3. CASE pk.bound[p] = Unbound
        BY <1>3, <1>6, <2>2, <3>1, <3>3, PathKinds DEF Generated, Named
      <3> QED BY <3>2, <3>3
    <2> QED BY <2>1, <2>2
  <1>13. IdsLeft(r)
    BY <1>12 DEF IdsOwned, IdsLeft
  <1> QED BY <1>1, <1>4, <1>5, <1>7, <1>8, <1>9, <1>10, <1>11, <1>12, <1>13
          DEF Sound, Accounted, r

(* What a removal commits: the staged removal, its lock and its manifest.   *)
Settled(st, r) ==
  /\ r \in Packs /\ FilesFit(r.files)
  /\ r.mats = st.mats /\ r.owners = st.owners /\ r.rows = st.rows
  /\ \A p \in KitPaths : r.files[p] = st.files[p]
  /\ \A t \in Targets : r.files[t].imports = st.files[t].imports
  /\ r.files[Lock] = Locked(ImportsOf(st.files))
  /\ \A p \in Paths :
       r.bound[p] = IF r.files[p] = Absent THEN Unbound
                    ELSE IF st.bound[p] # Unbound THEN st.bound[p] ELSE Generated(p)

LEMMA RemovedFields ==
  ASSUME NEW pk, Sound(pk), NEW m \in pk.mats
  PROVE  Settled(StageRemoval(pk, m), Removed(pk, m))
  <1> DEFINE st == StageRemoval(pk, m)
             lk == [st EXCEPT !.files = WithLock(st.files)]
             rb == Rebaselined(lk)
             ids == [p \in Paths |-> Generated(p)]
             r == Removed(pk, m)
  <1>1. Sound(st) /\ st.bound = pk.bound
    BY RemovalSound
  <1>2. r = Refreshed(rb, ids)
    BY DEF Removed
  <1> HIDE DEF st, r
  <1>3. /\ DOMAIN WithLock(st.files) = Paths
        /\ \A p \in KitPaths \cup Targets : WithLock(st.files)[p] = st.files[p]
        /\ WithLock(st.files)[Lock] = Locked(ImportsOf(st.files))
    BY <1>1, PathKinds DEF WithLock, Sound, Packs
  <1>4. Locked(ImportsOf(st.files)) \in LockText
    <2>1. \A t \in Targets : st.files[t].imports \subseteq Import
      BY <1>1 DEF Sound, FilesFit, SdlText
    <2>2. ImportsOf(st.files) \subseteq Import
      BY <2>1 DEF ImportsOf
    <2> QED BY <2>2 DEF Locked, Import, LockText
  <1>5. FilesFit(WithLock(st.files))
    BY <1>1, <1>3, <1>4 DEF FilesFit, Sound
  <1>6. WithLock(st.files) \in [Paths -> FileValues]
    <2>1. \A p \in Paths : WithLock(st.files)[p] \in FileValues
      BY <1>5, PathKinds DEF FilesFit, FileValues
    <2> QED BY <1>3, <2>1 DEF WithLock
  <1>7. /\ lk \in Packs /\ FilesFit(lk.files) /\ lk.files = WithLock(st.files)
        /\ lk.mats = st.mats /\ lk.owners = st.owners /\ lk.bound = st.bound
        /\ lk.rows = st.rows
    BY <1>1, <1>5, <1>6 DEF Sound, Packs
  <1> HIDE DEF lk
  <1>8. /\ rb \in Packs /\ FilesFit(rb.files)
        /\ rb.mats = lk.mats /\ rb.owners = lk.owners /\ rb.bound = lk.bound
        /\ rb.rows = lk.rows
        /\ \A p \in KitPaths \cup {Lock} : rb.files[p] = lk.files[p]
        /\ \A t \in Targets : rb.files[t].imports = lk.files[t].imports
    BY <1>7, RebaselineFields
  <1> HIDE DEF rb
  <1>9. ids \in [Paths -> ArtifactIds]
    <2>1. \A p \in Paths : p \in ArtifactNames
      BY DEF ArtifactNames
    <2> QED BY <2>1 DEF Generated, Named, ArtifactIds, Owners
  <1>10. /\ r \in Packs /\ r.mats = rb.mats /\ r.owners = rb.owners /\ r.files = rb.files
         /\ r.rows = rb.rows
         /\ \A p \in Paths :
              r.bound[p] = IF rb.files[p] = Absent THEN Unbound
                           ELSE IF rb.bound[p] # Unbound THEN rb.bound[p] ELSE Generated(p)
    BY <1>2, <1>8, <1>9, RefreshedFields DEF Member
  <1>11. Settled(st, r)
    BY <1>1, <1>3, <1>5, <1>7, <1>8, <1>10 DEF Settled
  <1> QED BY <1>11 DEF st, r

LEMMA RemovedSound ==
  ASSUME NEW pk, Sound(pk), NEW m \in pk.mats
  PROVE  /\ Sound(Removed(pk, m)) /\ LockTells(Removed(pk, m)) /\ IdsOwned(Removed(pk, m))
         /\ \A p \in KitPaths : pk.owners[p] = {} => Removed(pk, m).files[p] = pk.files[p]
         /\ \A p, q \in Paths : pk.bound[p] # Unbound =>
              /\ Removed(pk, m).files[p] # Absent => Removed(pk, m).bound[p] = pk.bound[p]
              /\ Removed(pk, m).bound[q] = pk.bound[p] => p = q
  <1> DEFINE st == StageRemoval(pk, m)
             r == Removed(pk, m)
  <1>1. /\ Sound(st) /\ st.bound = pk.bound
        /\ \A p \in KitPaths : pk.owners[p] = {} => st.files[p] = pk.files[p]
    BY RemovalSound
  <1>2. Settled(st, r)
    BY RemovedFields
  <1> HIDE DEF st, r
  <1>3. /\ r \in Packs /\ FilesFit(r.files)
        /\ r.mats = st.mats /\ r.owners = st.owners /\ r.rows = st.rows
        /\ \A p \in KitPaths : r.files[p] = st.files[p]
        /\ \A t \in Targets : r.files[t].imports = st.files[t].imports
        /\ r.files[Lock] = Locked(ImportsOf(st.files))
        /\ \A p \in Paths :
             r.bound[p] = IF r.files[p] = Absent THEN Unbound
                          ELSE IF pk.bound[p] # Unbound THEN pk.bound[p] ELSE Generated(p)
    BY <1>1, <1>2 DEF Settled
  <1>4. LockTells(r)
    <2>1. ImportsOf(r.files) = ImportsOf(st.files)
      BY <1>3 DEF ImportsOf
    <2> QED BY <1>3, <2>1 DEF LockTells
  <1>5. ImportsTell(r) /\ TargetsOwned(r) /\ KitFilesOwned(r)
    <2>1. ImportsTell(r)
      <3>1. ImportsTell(st)
        BY <1>1 DEF Sound
      <3> QED BY <1>3, <3>1 DEF ImportsTell
    <2>2. TargetsOwned(r)
      BY <1>1, <1>3 DEF Sound, TargetsOwned
    <2>3. KitFilesOwned(r)
      BY <1>1, <1>3 DEF Sound, KitFilesOwned, KitFileOwned
    <2> QED BY <2>1, <2>2, <2>3
  <1>6. /\ IdsFit(r.bound) /\ IdsApart(r.bound)
        /\ \A p, q \in Paths : pk.bound[p] # Unbound =>
             /\ r.files[p] # Absent => r.bound[p] = pk.bound[p]
             /\ r.bound[q] = pk.bound[p] => p = q
    <2>1. \A p, q \in Paths : Generated(p)[1] = PackAuthor /\ (Generated(p) = Generated(q) => p = q)
      BY DEF Generated, Named
    <2>2. \A p, q \in Paths : pk.bound[p] # Unbound /\ pk.bound[p] = Generated(q) => p = q
      BY <2>1, PathKinds DEF Sound, IdsFit, InNamespace
    <2>3. IdsFit(pk.bound) /\ IdsApart(pk.bound)
      BY DEF Sound
    <2>5. IdsFit(r.bound)
      BY <1>3, <2>3 DEF IdsFit
    <2>6. IdsApart(r.bound)
      BY <1>3, <2>1, <2>2, <2>3 DEF IdsApart
    <2>7. \A p, q \in Paths : pk.bound[p] # Unbound =>
            /\ r.files[p] # Absent => r.bound[p] = pk.bound[p]
            /\ r.bound[q] = pk.bound[p] => p = q
      BY <1>3, <2>1, <2>2, <2>3 DEF IdsApart
    <2> QED BY <2>5, <2>6, <2>7
  <1>7. \A p \in KitPaths : pk.owners[p] = {} => r.files[p] = pk.files[p]
    BY <1>1, <1>3
  <1>8. KitPathsOwned(r) /\ RowsFit(r) /\ RowsApart(r.rows)
    BY <1>1, <1>3 DEF Sound, KitPathsOwned, RowsFit
  <1>9. IdsOwned(r) /\ IdsLeft(r)
    <2>1. \A p \in Paths : Generated(p)[1] \notin Namespaces
      BY PathKinds DEF Generated, Named
    <2>2. IdsOwned(r)
      <3>1. IdsLeft(st)
        BY <1>1 DEF Sound
      <3> QED BY <1>1, <1>3, <2>1, <3>1, PathKinds DEF IdsLeft, IdsOwned, IdOwned
    <2> QED BY <2>2 DEF IdsOwned, IdsLeft
  <1> QED BY <1>1, <1>3, <1>4, <1>5, <1>6, <1>7, <1>8, <1>9 DEF Sound, r

(* What a release that was loaded and is admitted brings is inert.          *)
LEMMA LoadedReleases ==
  ASSUME NEW r \in Releases
  PROVE  /\ DeclaredCoordinate(r) \in KitIds \X Versions
         /\ CoordinateOf[r] = DeclaredCoordinate(r)
         /\ Draft[r].module.parsed.parameters \cap SecretNames = {}
         /\ (Draft[r].module.raw.sections \cup Draft[r].module.parsed.sections) \cap Behavior = {}
         /\ \A member \in Draft[r].members \ {Draft[r].document.artifacts} :
              \E a \in Draft[r].manifest.bound : Draft[r].manifest.paths[a] = member
         /\ \A a \in AssetRows[r] : a.target \in SafeTargets
  <1>1. /\ r \in Staged /\ Violations(Draft[r].document) = {}
        /\ LoadsScenario(Draft[r]) /\ LoadsArtifacts(Draft[r])
    BY DEF Releases, Loads, LoadsDocument, LoadsManifest
  <1>2. Draft[r].document.schema = {}
    BY <1>1 DEF Violations
  <1>3. DeclaredCoordinate(r) \in KitIds \X Versions /\ CoordinateOf[r] = DeclaredCoordinate(r)
    BY <1>1, <1>2, KitReleaseAssumption DEF CoordinateOf
  <1>4. \A member \in Draft[r].members \ {Draft[r].document.artifacts} :
          \E a \in Draft[r].manifest.bound : Draft[r].manifest.paths[a] = member
    BY <1>1 DEF LoadsArtifacts, Range
  <1>5. \A a \in AssetRows[r] : a.target \in SafeTargets
    BY <1>1, AssetsAreSafe DEF AssetsOf, Assets
  <1> QED BY <1>1, <1>3, <1>4, <1>5 DEF LoadsScenario, RawModuleAdmitted

LEMMA AdmittedIsInert ==
  ASSUME NEW m \in MatRecord, SourceMatches(m.source, m.release),
         ParameterIssues(m.release, m.parameters) = {},
         VisibilityConflicts(m.release) = {}
  PROVE  Inert(m)
  <1> DEFINE r == m.release
  <1>1. r \in Releases /\ r \in Staged /\ Loads(r)
    BY DEF MatRecord, Releases
  <1>2. r \in SourceRelease(m.source, CoordinateOf[r])
    BY <1>1, LoadedReleases DEF SourceRelease, SourceMatches
  <1>3. r \in InertReleases
    BY <1>1, LoadedReleases DEF InertReleases, VisibilityConflicts
  <1>4. \A x \in m.parameters :
          x[1] \in Draft[r].module.parsed.parameters /\ x[2] \notin SecretValues
    BY DEF ParameterIssues
  <1> QED BY <1>1, <1>2, <1>3, <1>4, LoadedReleases DEF Inert

--------------------------------------------------------------------------------
(* One kit operation.  `pk` is the pack, or the pack without what is to be  *)
(* replaced.                                                                *)
Kept(pk, successor) ==
  \A p, q \in Paths : pk.bound[p] # Unbound =>
    /\ successor.files[p] # Absent => successor.bound[p] = pk.bound[p]
    /\ successor.bound[q] = pk.bound[p] => p = q

(* What one operation does to the set of materializations.                  *)
MatsStep(mats, new) ==
  \/ new \subseteq mats
  \/ \E base \in SUBSET mats, m \in MatRecord :
       new = base \cup {m} /\ DepsOf[m.release] \subseteq Installed(base)

LEMMA ProposeAddSound ==
  ASSUME NEW pk, Sound(pk), NEW x \in Offers, NEW ns \in Namespaces,
         NEW targets \in SUBSET Targets,
         ProposeAdd(pk, x[1], x[2], ns, targets)
  PROVE  /\ LedgerInv'
         /\ \A p \in KitPaths : pk.files[p] # Absent => pack'.files[p] = pk.files[p]
         /\ Kept(pk, pack')
         /\ \E m \in MatRecord : pack'.mats = pk.mats \cup {m}
                               /\ DepsOf[m.release] \subseteq Installed(pk.mats)
  <1> DEFINE s == x[1]
             r == x[2]
             e == EnsureIdentity(pk)
  <1>1. s \in Sources /\ r \in Releases /\ SourceMatches(s, r)
    BY DEF Offers
  <1>2. PICK y \in Requests(s, r) : y[1] \in targets /\ pack' = Added(pk, s, r, ns, y[1], y[2])
    BY DEF ProposeAdd, Commit
  <1> DEFINE m == [ns |-> ns, release |-> r, target |-> y[1], source |-> s,
                   parameters |-> y[2]]
  <1>3. /\ pack' = AddedTo(e, m)
        /\ y[1] \in Targets /\ y[2] \in ParameterSets /\ ParameterIssues(r, y[2]) = {}
    BY <1>2 DEF Added, Requests
  <1>4. m \in MatRecord
    BY <1>1, <1>3 DEF MatRecord
  <1>5. /\ \A n \in pk.mats : n.ns # ns
        /\ VersionConflicts(pk, r) = {} /\ VisibilityConflicts(r) = {}
        /\ PathConflicts(pk, r, ns) = {} /\ DepsOf[r] \subseteq Installed(pk.mats)
    BY DEF ProposeAdd, AddDiagnostics, MissingDependencies
  <1>6. Inert(m)
    BY <1>1, <1>3, <1>4, <1>5, AdmittedIsInert
  <1>7. /\ Sound(e) /\ e.mats = pk.mats /\ e.files = pk.files
        /\ \A p \in Paths : pk.bound[p] # Unbound => e.bound = pk.bound
    BY EnsureSound, EnsuredFields DEF Sound
  <1> HIDE DEF e, m
  <1>8. m.ns = ns /\ m.release = r
    BY DEF m
  <1>9. Fresh(e, m)
    <2>1. \A n \in e.mats : KitOf(CoordinateOf[n.release]) = KitOf(CoordinateOf[r])
                              => CoordinateOf[n.release] = CoordinateOf[r]
      BY <1>5, <1>7 DEF VersionConflicts
    <2>2. \A p \in NewKitFiles(r, ns) : e.files[p] = Absent
      BY <1>5, <1>7 DEF PathConflicts, Member
    <2>3. \A p \in NewKitFiles(r, ns) :
            ~Unallocable(Preferred(r, ns, p), Unavailable(e.bound, r, ns, p), p)
      BY DEF ProposeAdd, Collides, e
    <2> QED BY <1>5, <1>7, <1>8, <2>1, <2>2, <2>3 DEF Fresh
  <1>10. /\ Sound(pack') /\ LockTells(pack') /\ IdsOwned(pack')
         /\ \A p \in KitPaths : e.files[p] # Absent => pack'.files[p] = e.files[p]
         /\ \A p, q \in Paths : e.bound[p] # Unbound =>
              /\ pack'.files[p] # Absent => pack'.bound[p] = e.bound[p]
              /\ pack'.bound[q] = e.bound[p] => p = q
    BY <1>3, <1>4, <1>6, <1>7, <1>9, AdditionSound
  <1>11. Kept(pk, pack')
    BY <1>7, <1>10 DEF Kept
  <1>12. LedgerContract(pack')
    BY DEF ProposeAdd, Commit, Valid
  <1>13. pack'.mats = pk.mats \cup {m}
    <2>1. Addition(e, m, AddedTo(e, m))
      BY <1>4, <1>7, AdditionFields DEF Sound
    <2> QED BY <1>3, <1>7, <2>1 DEF Addition
  <1> QED BY <1>4, <1>5, <1>7, <1>8, <1>10, <1>11, <1>12, <1>13 DEF LedgerInv

(* What a kit operation does to a pack, for each operation.                 *)
LEMMA KitStepSound ==
  ASSUME LedgerInv, KitStep
  PROVE  /\ LedgerInv'
         /\ \A p \in KitPaths : Member(pack, p) /\ pack.owners[p] = {} =>
              pack'.files[p] = pack.files[p]
         /\ Kept(pack, pack')
         /\ MatsStep(pack.mats, pack'.mats)
  <1>1. Sound(pack)
    BY DEF LedgerInv
  <1>2. ASSUME NEW x \in Offers, NEW ns \in Namespaces, KitAdd(x[1], x[2], ns)
        PROVE  /\ LedgerInv'
               /\ \A p \in KitPaths : Member(pack, p) => pack'.files[p] = pack.files[p]
               /\ Kept(pack, pack') /\ MatsStep(pack.mats, pack'.mats)
    <2>1. ProposeAdd(pack, x[1], x[2], ns, Targets)
      BY <1>2 DEF KitAdd
    <2>2. /\ LedgerInv'
          /\ \A p \in KitPaths : pack.files[p] # Absent => pack'.files[p] = pack.files[p]
          /\ Kept(pack, pack')
          /\ \E m \in MatRecord : pack'.mats = pack.mats \cup {m}
                                /\ DepsOf[m.release] \subseteq Installed(pack.mats)
      BY <1>1, <2>1, ProposeAddSound
    <2> QED BY <2>2 DEF Member, MatsStep
  <1>3. ASSUME NEW m \in pack.mats, KitRemove(m)
        PROVE  /\ LedgerInv'
               /\ \A p \in KitPaths : pack.owners[p] = {} => pack'.files[p] = pack.files[p]
               /\ Kept(pack, pack') /\ MatsStep(pack.mats, pack'.mats)
    <2>1. pack' = Removed(pack, m)
      BY <1>3 DEF KitRemove, Commit
    <2>2. /\ Sound(pack') /\ LockTells(pack') /\ IdsOwned(pack')
          /\ \A p \in KitPaths : pack.owners[p] = {} => pack'.files[p] = pack.files[p]
          /\ \A p, q \in Paths : pack.bound[p] # Unbound =>
               /\ pack'.files[p] # Absent => pack'.bound[p] = pack.bound[p]
               /\ pack'.bound[q] = pack.bound[p] => p = q
      BY <1>1, <2>1, RemovedSound
    <2>3. LedgerContract(pack')
      BY <1>3, <2>1 DEF KitRemove, Commit, Valid
    <2>4. pack'.mats = pack.mats \ {m}
      BY <1>1, <2>1, RemovalSound, RemovedFields DEF Settled
    <2> QED BY <2>2, <2>3, <2>4 DEF LedgerInv, Kept, MatsStep
  <1>4. ASSUME NEW m \in pack.mats, NEW x \in Offers, NEW ns \in Namespaces,
               NEW targets \in SUBSET Targets,
               ProposeAdd(StageRemoval(pack, m), x[1], x[2], ns, targets)
        PROVE  /\ LedgerInv'
               /\ \A p \in KitPaths : Member(pack, p) /\ pack.owners[p] = {} =>
                    pack'.files[p] = pack.files[p]
               /\ Kept(pack, pack') /\ MatsStep(pack.mats, pack'.mats)
    <2> DEFINE st == StageRemoval(pack, m)
    <2>1. /\ Sound(st) /\ st.bound = pack.bound /\ st.mats = pack.mats \ {m}
          /\ \A p \in KitPaths : pack.owners[p] = {} => st.files[p] = pack.files[p]
      BY <1>1, RemovalSound
    <2>2. /\ LedgerInv'
          /\ \A p \in KitPaths : st.files[p] # Absent => pack'.files[p] = st.files[p]
          /\ Kept(st, pack')
          /\ \E n \in MatRecord : pack'.mats = st.mats \cup {n}
                                /\ DepsOf[n.release] \subseteq Installed(st.mats)
      BY <1>4, <2>1, ProposeAddSound
    <2> HIDE DEF st
    <2>3. MatsStep(pack.mats, pack'.mats)
      BY <2>1, <2>2 DEF MatsStep
    <2> QED BY <2>1, <2>2, <2>3 DEF Member, Kept
  <1>5. CASE \E x \in Offers, ns \in Namespaces : KitAdd(x[1], x[2], ns)
    BY <1>2, <1>5
  <1>6. CASE \E m \in pack.mats : KitRemove(m)
    BY <1>3, <1>6
  <1>7. CASE \E m \in pack.mats : \E staged \in {StageRemoval(pack, m)}, x \in Offers :
               \/ KitUpdate(m, staged, x[1], x[2])
               \/ \E ns \in Namespaces : KitReplace(m, staged, x[1], x[2], ns, Targets)
    <2>1. PICK m \in pack.mats, x \in Offers :
            \/ KitUpdate(m, StageRemoval(pack, m), x[1], x[2])
            \/ \E ns \in Namespaces : KitReplace(m, StageRemoval(pack, m), x[1], x[2], ns, Targets)
      BY <1>7
    <2>2. m.ns \in Namespaces /\ m.target \in Targets
      BY <1>1 DEF Sound, Packs, MatRecord
    <2>3. PICK ns \in Namespaces, targets \in SUBSET Targets :
            ProposeAdd(StageRemoval(pack, m), x[1], x[2], ns, targets)
      <3>1. CASE KitUpdate(m, StageRemoval(pack, m), x[1], x[2])
        <4>1. ProposeAdd(StageRemoval(pack, m), x[1], x[2], m.ns, {m.target})
          BY <3>1 DEF KitUpdate, KitReplace
        <4>2. {m.target} \in SUBSET Targets
          BY <2>2
        <4> QED BY <2>2, <4>1, <4>2
      <3>2. CASE \E ns \in Namespaces :
                   KitReplace(m, StageRemoval(pack, m), x[1], x[2], ns, Targets)
        <4>1. PICK ns \in Namespaces :
                ProposeAdd(StageRemoval(pack, m), x[1], x[2], ns, Targets)
          BY <3>2 DEF KitReplace
        <4>2. Targets \in SUBSET Targets
          OBVIOUS
        <4> QED BY <4>1, <4>2
      <3> QED BY <2>1, <3>1, <3>2
    <2> QED BY <1>4, <2>3
  <1> QED BY <1>5, <1>6, <1>7 DEF KitStep

(* The author's edits of kit files make none of them a kit's, and edits of  *)
(* documents leave their imports.                                           *)
LEMMA AuthorStepSound ==
  ASSUME LedgerInv, AuthorStep
  PROVE  LedgerInv' /\ pack'.bound = pack.bound /\ pack'.mats = pack.mats
  <1>1. Sound(pack) /\ LockTells(pack)
    BY DEF LedgerInv
  <1>2. PICK f \in [Paths -> FileValues] :
          /\ pack' = [pack EXCEPT !.files = f]
          /\ \A p \in KitPaths : f[p] = pack.files[p] \/ f[p] \in {Authored, Absent}
          /\ \A t \in Targets : f[t] \in SdlText /\ f[t].imports = pack.files[t].imports
          /\ f[Lock] = pack.files[Lock]
    <2>1. ASSUME NEW p \in KitPaths, NEW v \in {Authored, Absent},
                 pack' = [pack EXCEPT !.files[p] = v]
          PROVE  LET g == [pack.files EXCEPT ![p] = v]
                 IN /\ g \in [Paths -> FileValues] /\ pack' = [pack EXCEPT !.files = g]
                    /\ \A q \in KitPaths : g[q] = pack.files[q] \/ g[q] \in {Authored, Absent}
                    /\ \A t \in Targets : g[t] \in SdlText /\ g[t].imports = pack.files[t].imports
                    /\ g[Lock] = pack.files[Lock]
      <3>1. pack.files \in [Paths -> FileValues] /\ v \in FileValues /\ p \in Paths
        BY <1>1, PathKinds DEF Sound, Packs, FileValues
      <3>2. pack' = [pack EXCEPT !.files = [pack.files EXCEPT ![p] = v]]
        BY <2>1
      <3> QED BY <1>1, <3>1, <3>2, PathKinds DEF Sound, FilesFit
    <2>2. ASSUME NEW t \in Targets, AuthorRevises(t)
          PROVE  \E g \in [Paths -> FileValues] :
                   /\ pack' = [pack EXCEPT !.files = g]
                   /\ \A q \in KitPaths : g[q] = pack.files[q]
                   /\ \A u \in Targets : g[u] \in SdlText /\ g[u].imports = pack.files[u].imports
                   /\ g[Lock] = pack.files[Lock]
      <3> DEFINE text == [pack.files[t] EXCEPT !.edited = ~pack.files[t].edited]
                 g == [pack.files EXCEPT ![t] = text]
      <3>1. pack.files[t] \in SdlText /\ pack.files \in [Paths -> FileValues] /\ t \in Paths
        BY <1>1, PathKinds DEF Sound, FilesFit, Packs
      <3>2. text \in SdlText /\ text.imports = pack.files[t].imports
        <4>1. (~pack.files[t].edited) \in BOOLEAN
          OBVIOUS
        <4> QED BY <3>1, <4>1 DEF SdlText
      <3>3. pack' = [pack EXCEPT !.files = g]
        BY <2>2 DEF AuthorRevises
      <3> HIDE DEF text
      <3>4. g \in [Paths -> FileValues]
        BY <3>1, <3>2 DEF FileValues
      <3>5. /\ \A q \in KitPaths : g[q] = pack.files[q]
            /\ \A u \in Targets : g[u] \in SdlText /\ g[u].imports = pack.files[u].imports
            /\ g[Lock] = pack.files[Lock]
        BY <1>1, <3>1, <3>2, PathKinds DEF Sound, FilesFit
      <3> QED BY <3>3, <3>4, <3>5
    <2>3. CASE \E p \in Editable : AuthorWrites(p) \/ AuthorDeletes(p)
      <3>1. PICK p \in KitPaths, v \in {Authored, Absent} : pack' = [pack EXCEPT !.files[p] = v]
        BY <2>3, PathKinds DEF AuthorWrites, AuthorDeletes
      <3> QED BY <2>1, <3>1
    <2>4. CASE \E t \in Targets : AuthorRevises(t)
      BY <2>2, <2>4
    <2> QED BY <2>3, <2>4 DEF AuthorStep
  <1>3. /\ pack' \in Packs /\ pack'.files = f
        /\ pack'.mats = pack.mats /\ pack'.owners = pack.owners
        /\ pack'.bound = pack.bound /\ pack'.rows = pack.rows
    BY <1>1, <1>2 DEF Sound, Packs
  <1>4. FilesFit(f)
    BY <1>1, <1>2 DEF Sound, FilesFit
  <1>5. ImportsTell(pack') /\ TargetsOwned(pack')
    BY <1>1, <1>2, <1>3 DEF Sound, ImportsTell, TargetsOwned
  <1>6. KitFilesOwned(pack')
    BY <1>1, <1>2, <1>3, PathKinds DEF Sound, KitFilesOwned, KitFileOwned
  <1>7. ImportsOf(f) = ImportsOf(pack.files)
    BY <1>2 DEF ImportsOf
  <1>8. LockTells(pack')
    BY <1>1, <1>2, <1>3, <1>7 DEF LockTells, Member
  <1>9. KitPathsOwned(pack') /\ RowsFit(pack') /\ RowsApart(pack'.rows)
    BY <1>1, <1>3 DEF Sound, KitPathsOwned, RowsFit
  <1>10. IdsOwned(pack') /\ IdsLeft(pack')
    BY <1>3 DEF LedgerInv, IdsOwned, IdsLeft, IdOwned
  <1>11. LedgerContract(pack')
    BY <1>3 DEF LedgerInv, LedgerContract, FileRows, OwnershipJoins
  <1>12. Sound(pack')
    BY <1>1, <1>3, <1>4, <1>5, <1>6, <1>9, <1>10 DEF Sound
  <1> QED BY <1>3, <1>8, <1>10, <1>11, <1>12 DEF LedgerInv

--------------------------------------------------------------------------------
(* Planning is complete: what an operation without diagnostics makes of a   *)
(* pack whose owned files are intact passes validation.                     *)
Intact(pk) == \A p \in KitPaths : pk.owners[p] # {} => pk.files[p] \in Releases

OwnersNamed(pk) == \A p \in Paths : pk.owners[p] \subseteq {PackAuthor} \cup Ids(pk.mats)

LEMMA RowsCounted ==
  ASSUME NEW rows, RowsApart(rows)
  PROVE  Cardinality(Taken(rows)) = Cardinality({p \in Paths : rows[p] # Unbound})
  <1> DEFINE bound == {p \in Paths : rows[p] # Unbound}
             f == [p \in bound |-> rows[p]]
  <1>1. IsFiniteSet(bound)
    BY LedgerAssumption, FS_Subset
  <1>2. f \in Bijection(bound, Taken(rows))
    <2>1. f \in [bound -> Taken(rows)]
      BY DEF Taken
    <2>2. f \in Injection(bound, Taken(rows))
      BY <2>1 DEF Injection, IsInjective, RowsApart
    <2>3. f \in Surjection(bound, Taken(rows))
      BY <2>1 DEF Surjection, Taken
    <2> QED BY <2>2, <2>3 DEF Bijection
  <1>3. ExistsBijection(bound, Taken(rows))
    BY <1>2 DEF ExistsBijection
  <1> QED BY <1>1, <1>3, FS_Bijection

(* The module of a materialization holds its release while it is intact.    *)
LEMMA ModulesHold ==
  ASSUME NEW pk, Accounted(pk), Intact(pk), OwnershipJoins(pk), NEW m \in pk.mats
  PROVE  /\ ModuleOf(m.release, m.ns) \in KitPaths
         /\ pk.files[ModuleOf(m.release, m.ns)] = m.release
  <1> DEFINE module == ModuleOf(m.release, m.ns)
  <1>1. m \in MatRecord
    BY DEF Accounted, Packs
  <1>2. module \in KitPaths
    BY <1>1, NewFilesAreKitPaths DEF MatRecord, KitPaths
  <1>3. m.ns \in pk.owners[module]
    BY DEF OwnershipJoins
  <1> HIDE DEF module
  <1>4. pk.files[module] \in Releases
    BY <1>2, <1>3 DEF Intact
  <1>5. PICK n \in pk.mats : pk.owners[module] = {n.ns} /\ pk.files[module] = n.release
    BY <1>2, <1>4 DEF Accounted, KitFilesOwned, KitFileOwned
  <1>6. n = m
    BY <1>3, <1>5 DEF Accounted, OneNamespace
  <1> QED BY <1>2, <1>5, <1>6 DEF module

LEMMA AccountedIsValid ==
  ASSUME NEW pk, Accounted(pk), Intact(pk), pk.files[Lock] # Absent,
         MaterializationRows(pk.mats), DependencyPresence(pk.mats),
         OwnersNamed(pk), OwnershipJoins(pk)
  PROVE  Valid(pk)
  <1>1. ImportsResolve(pk.files)
    <2> SUFFICES ASSUME NEW t \in Targets, NEW i \in pk.files[t].imports
                 PROVE  pk.files[i.module] = i.release
      BY DEF ImportsResolve, ImportsOf
    <2>1. PICK m \in pk.mats : i = ImportOf(m)
      BY DEF Accounted, ImportsTell, At
    <2>2. i.module = ModuleOf(m.release, m.ns) /\ i.release = m.release
      BY <2>1 DEF ImportOf
    <2> QED BY <2>2, ModulesHold
  <1>2. RowsNameMembers(pk)
    <2>1. \A p \in KitPaths : pk.owners[p] # {} => pk.files[p] # Absent
      BY PathKinds DEF Intact
    <2>2. \A t \in Targets : pk.files[t] # Absent
      BY LedgerAssumption DEF Accounted, FilesFit
    <2> QED BY <2>1, <2>2, PathKinds DEF RowsNameMembers, Member
  <1>3. FileRows(pk)
    BY RowsCounted DEF FileRows, OwnersNamed, Accounted
  <1> QED BY <1>1, <1>2, <1>3 DEF Valid, LedgerContract

(* A lock that was written is there.                                        *)
LEMMA LocksExist ==
  ASSUME NEW files, FilesFit(files)
  PROVE  Locked(ImportsOf(files)) # Absent
  <1>1. ImportsOf(files) \subseteq Import
    BY DEF ImportsOf, FilesFit, SdlText
  <1>2. Locked(ImportsOf(files)) \in LockText
    BY <1>1 DEF Locked, Import, LockText
  <1> QED BY <1>2, LedgerAssumption

LEMMA SoundIsAccounted ==
  ASSUME NEW pk, Sound(pk)
  PROVE  Accounted(pk)
  BY DEF Sound, Accounted

(* A staged removal keeps the contract of those that stay.                  *)
LEMMA RemovalContract ==
  ASSUME NEW pk, Sound(pk), Intact(pk), MaterializationRows(pk.mats),
         OwnersNamed(pk), OwnershipJoins(pk), NEW m \in pk.mats
  PROVE  LET st == StageRemoval(pk, m)
         IN Intact(st) /\ MaterializationRows(st.mats) /\ OwnersNamed(st) /\ OwnershipJoins(st)
  <1> DEFINE st == StageRemoval(pk, m)
  <1>1. \A t \in Targets : m.ns \in pk.owners[t] => t = m.target
    <2> SUFFICES ASSUME NEW t \in Targets, m.ns \in pk.owners[t] PROVE t = m.target
      OBVIOUS
    <2>1. m.ns # PackAuthor
      BY PathKinds DEF Sound, Packs, MatRecord
    <2>2. PICK n \in At(pk.mats, t) : n.ns = m.ns
      BY <2>1 DEF Sound, TargetsOwned
    <2> QED BY <2>2 DEF Sound, OneNamespace, At
  <1> HIDE DEF st
  <1>2. /\ st.mats = pk.mats \ {m}
        /\ \A p \in Paths : st.owners[p] = OnlyKitOwned(pk.owners[p] \ {m.ns})
        /\ \A p \in KitPaths :
             \/ st.files[p] = pk.files[p]
             \/ m.ns \in pk.owners[p] /\ OnlyKitOwned(pk.owners[p] \ {m.ns}) = {}
    <2>1. Removal(pk, m, st)
      BY <1>1, RemovalFields DEF Sound, st
    <2> QED BY <2>1 DEF Removal
  <1>3. \A n \in pk.mats : n \in MatRecord /\ n.ns # PackAuthor /\ (n # m => n.ns # m.ns)
    BY PathKinds DEF Sound, Packs, MatRecord, OneNamespace
  <1>4. Intact(st)
    <2> SUFFICES ASSUME NEW p \in KitPaths, st.owners[p] # {}
                 PROVE  st.files[p] \in Releases
      BY DEF Intact
    <2>1. p \in Paths
      BY PathKinds
    <2>2. pk.owners[p] # {}
      BY <1>2, <2>1 DEF OnlyKitOwned
    <2> QED BY <1>2, <2>1, <2>2 DEF Intact
  <1>5. MaterializationRows(st.mats)
    BY <1>2 DEF MaterializationRows
  <1>6. OwnersNamed(st)
    <2> SUFFICES ASSUME NEW p \in Paths, NEW o \in st.owners[p], o # PackAuthor
                 PROVE  o \in Ids(st.mats)
      BY DEF OwnersNamed
    <2>1. o \in pk.owners[p] /\ o # m.ns
      BY <1>2 DEF OnlyKitOwned
    <2>2. PICK n \in pk.mats : n.ns = o
      BY <2>1 DEF OwnersNamed, Ids
    <2> QED BY <1>2, <2>1, <2>2 DEF Ids
  <1>7. OwnershipJoins(st)
    <2> SUFFICES ASSUME NEW n \in pk.mats, n # m
                 PROVE  n.ns \in st.owners[n.target] \cap st.owners[ModuleOf(n.release, n.ns)]
      BY <1>2 DEF OwnershipJoins
    <2>1. \A p \in Paths : n.ns \in pk.owners[p] => n.ns \in st.owners[p]
      BY <1>2, <1>3 DEF OnlyKitOwned
    <2>2. n.target \in Paths /\ ModuleOf(n.release, n.ns) \in Paths
      BY <1>3, NewFilesAreKitPaths, PathKinds DEF MatRecord, KitPaths
    <2> QED BY <2>1, <2>2 DEF OwnershipJoins
  <1> QED BY <1>4, <1>5, <1>6, <1>7 DEF st

LEMMA RemovedIsValid ==
  ASSUME NEW pk, Sound(pk), Intact(pk), LedgerContract(pk), NEW m \in pk.mats,
         RemovalDiagnostics(pk, m, NoSuccessor) = {}
  PROVE  Valid(Removed(pk, m))
  <1> DEFINE st == StageRemoval(pk, m)
             r == Removed(pk, m)
  <1>1. /\ MaterializationRows(pk.mats) /\ DependencyPresence(pk.mats)
        /\ OwnersNamed(pk) /\ OwnershipJoins(pk)
    BY DEF LedgerContract, FileRows, OwnersNamed
  <1>2. Accounted(r)
    BY RemovedSound, SoundIsAccounted
  <1>3. /\ Intact(st) /\ MaterializationRows(st.mats) /\ OwnersNamed(st) /\ OwnershipJoins(st)
    BY <1>1, RemovalContract
  <1>4. st.mats = pk.mats \ {m}
    BY RemovalSound
  <1> HIDE DEF st, r
  <1>5. /\ r.mats = st.mats /\ r.owners = st.owners
        /\ \A p \in KitPaths : r.files[p] = st.files[p]
        /\ r.files[Lock] = Locked(ImportsOf(st.files))
    BY RemovedFields DEF Settled, st, r
  <1>6. Intact(r) /\ MaterializationRows(r.mats) /\ OwnersNamed(r) /\ OwnershipJoins(r)
    BY <1>3, <1>5 DEF Intact, OwnersNamed, OwnershipJoins
  <1>7. r.files[Lock] # Absent
    <2>1. FilesFit(st.files)
      BY RemovalSound DEF Sound, st
    <2> QED BY <1>5, <2>1, LocksExist
  <1>8. DependencyPresence(r.mats)
    <2> SUFFICES ASSUME NEW n \in pk.mats, n # m, NEW d \in DepsOf[n.release]
                 PROVE  \E o \in pk.mats \ {m} : CoordinateOf[o.release] = d
      BY <1>4, <1>5 DEF DependencyPresence, Installed
    <2>1. PICK o \in pk.mats : CoordinateOf[o.release] = d
      BY <1>1 DEF DependencyPresence, Installed
    <2>2. d \notin DependencyConflicts(pk, m, {})
      BY DEF RemovalDiagnostics, NoSuccessor
    <2>3. KitOf(d) # KitOf(CoordinateOf[m.release])
      BY <2>2 DEF DependencyConflicts
    <2> QED BY <2>1, <2>3
  <1> QED BY <1>2, <1>6, <1>7, <1>8, AccountedIsValid DEF r

(* The addition of a release without parameters, to a pack or to what a     *)
(* staged removal left of it.                                               *)
LEMMA AddedIsValid ==
  ASSUME NEW pk, Sound(pk), Intact(pk), MaterializationRows(pk.mats),
         OwnersNamed(pk), OwnershipJoins(pk),
         NEW x \in Offers, NEW ns \in Namespaces, NEW t \in Targets,
         AddDiagnostics(pk, x[2], ns) = {},
         \A n \in pk.mats : DepsOf[n.release] \subseteq
           Installed(pk.mats) \cup {CoordinateOf[x[2]]}
  PROVE  Valid(Added(pk, x[1], x[2], ns, t, {}))
  <1> DEFINE m == [ns |-> ns, release |-> x[2], target |-> t, source |-> x[1],
                   parameters |-> {}]
             e == EnsureIdentity(pk)
             r == AddedTo(e, m)
             new == NewKitFiles(x[2], ns)
  <1>1. Added(pk, x[1], x[2], ns, t, {}) = r
    BY DEF Added
  <1>2. m \in MatRecord /\ x[2] \in Releases
    BY LedgerAssumption DEF Offers, MatRecord
  <1>3. m.ns = ns /\ m.release = x[2] /\ m.target = t /\ m.parameters = {}
    OBVIOUS
  <1>4. /\ Sound(e) /\ e.mats = pk.mats /\ e.owners = pk.owners /\ e.files = pk.files
    BY EnsureSound, EnsuredFields DEF Sound
  <1>5. /\ \A n \in pk.mats : n.ns # ns
        /\ \A p \in new : pk.files[p] = Absent
        /\ DepsOf[x[2]] \subseteq Installed(pk.mats)
    BY DEF AddDiagnostics, PathConflicts, MissingDependencies, Member
  <1> HIDE DEF m, e
  <1>6. Accounted(r)
    BY <1>2, <1>3, <1>4, <1>5, AdditionAccounted
  <1> HIDE DEF r
  <1>7. /\ r.mats = pk.mats \cup {m} /\ FilesFit(r.files)
        /\ \A p \in KitPaths :
             /\ r.files[p] = IF p \in new THEN m.release ELSE pk.files[p]
             /\ r.owners[p] = IF p \in new THEN {ns} ELSE pk.owners[p]
        /\ \A p \in Targets \cup {Lock} :
             /\ r.owners[p] \subseteq pk.owners[p] \cup {ns, PackAuthor}
             /\ pk.owners[p] \subseteq r.owners[p]
        /\ ns \in r.owners[t]
        /\ r.files[Lock] = Locked(ImportsOf(r.files))
    <2>1. Addition(e, m, r)
      BY <1>2, <1>4, AdditionFields DEF Sound, r
    <2>2. /\ r.mats = e.mats \cup {m} /\ FilesFit(r.files)
          /\ \A p \in KitPaths :
               /\ r.files[p] = IF p \in NewKitFiles(m.release, m.ns) THEN m.release ELSE e.files[p]
               /\ r.owners[p] = IF p \in NewKitFiles(m.release, m.ns) THEN {m.ns}
                                ELSE e.owners[p]
          /\ \A p \in Targets \cup {Lock} :
               /\ r.owners[p] \subseteq e.owners[p] \cup {m.ns, PackAuthor}
               /\ e.owners[p] \subseteq r.owners[p]
          /\ m.ns \in r.owners[m.target]
          /\ r.files[Lock] = Locked(ImportsOf(r.files))
      BY <2>1 DEF Addition
    <2> QED BY <1>3, <1>4, <2>2
  <1> HIDE DEF new
  <1>8. Intact(r)
    BY <1>2, <1>3, <1>7 DEF Intact
  <1>9. r.files[Lock] # Absent
    BY <1>7, LocksExist
  <1>10. MaterializationRows(r.mats)
    BY <1>3, <1>5, <1>7 DEF MaterializationRows
  <1>11. DependencyPresence(r.mats)
    <2>1. Installed(r.mats) = Installed(pk.mats) \cup {CoordinateOf[x[2]]}
      BY <1>3, <1>7 DEF Installed
    <2> QED BY <1>3, <1>5, <1>7, <2>1 DEF DependencyPresence
  <1>12. OwnersNamed(r)
    <2>1. Ids(r.mats) = Ids(pk.mats) \cup {ns}
      BY <1>3, <1>7 DEF Ids
    <2>2. \A p \in Paths : r.owners[p] \subseteq pk.owners[p] \cup {ns, PackAuthor}
      BY <1>7, PathKinds
    <2> QED BY <2>1, <2>2 DEF OwnersNamed
  <1>13. OwnershipJoins(r)
    <2>1. ModuleOf(x[2], ns) \in new /\ ModuleOf(x[2], ns) \in KitPaths
      BY <1>2, NewFilesAreKitPaths DEF NewKitFiles, KitPaths, new
    <2>2. ASSUME NEW n \in pk.mats
          PROVE  n.ns \in r.owners[n.target] \cap r.owners[ModuleOf(n.release, n.ns)]
      <3>1. n.ns \in pk.owners[n.target] \cap pk.owners[ModuleOf(n.release, n.ns)]
        BY DEF OwnershipJoins
      <3>2. n.target \in Targets
        BY DEF Sound, Packs, MatRecord
      <3>3. /\ ModuleOf(n.release, n.ns) \in KitPaths
            /\ pk.files[ModuleOf(n.release, n.ns)] = n.release
        BY ModulesHold, SoundIsAccounted
      <3>4. n.release # Absent
        BY PathKinds DEF Sound, Packs, MatRecord
      <3>5. ModuleOf(n.release, n.ns) \notin new
        BY <1>5, <3>3, <3>4
      <3> QED BY <1>7, <3>1, <3>2, <3>3, <3>5
    <2> QED BY <1>3, <1>7, <2>1, <2>2 DEF OwnershipJoins
  <1> QED BY <1>1, <1>6, <1>8, <1>9, <1>10, <1>11, <1>12, <1>13, AccountedIsValid

(* An id that cannot be allocated is the path's own, with its suffix.       *)
LEMMA CollisionsAreSuffixed ==
  ASSUME NEW pk, Sound(pk), NEW r \in Releases, NEW ns \in Namespaces, Collides(pk, r, ns)
  PROVE  \E p \in NewKitFiles(r, ns) :
           /\ p \in KitPaths /\ pk.bound[p] # Unbound
           /\ pk.bound[p][1] \in Namespaces /\ pk.bound[p][3] = {p}
  <1> DEFINE e == EnsureIdentity(pk)
  <1>1. /\ Sound(e)
        /\ \/ e.bound = pk.bound
           \/ \A p \in Paths : e.bound[p] \in {Generated(p), Unbound}
    BY EnsureSound, EnsuredFields DEF Sound
  <1>2. PICK p \in NewKitFiles(r, ns) :
          Unallocable(Preferred(r, ns, p), Unavailable(e.bound, r, ns, p), p)
    BY DEF Collides
  <1> HIDE DEF e
  <1>3. p \in KitPaths /\ p \in Paths
    BY NewFilesAreKitPaths, PathKinds
  <1> DEFINE id == Suffixed(Preferred(r, ns, p), p)
  <1>4. id[1] = ns /\ id[3] = {p} /\ id \in Unavailable(e.bound, r, ns, p)
    <2>1. Preferred(r, ns, p)[1] = ns
      BY PreferredIds DEF KitId
    <2> QED BY <1>2, <2>1 DEF Suffixed, Unallocable
  <1> HIDE DEF id
  <1>5. CASE id \in Taken(e.bound)
    <2>1. PICK q \in Paths : e.bound[q] = id /\ e.bound[q] # Unbound
      BY <1>5 DEF Taken
    <2>2. Generated(q)[1] \notin Namespaces
      BY PathKinds DEF Generated, Named
    <2>3. InNamespace(q, id)
      BY <1>1, <1>4, <2>1, <2>2 DEF Sound, IdsFit
    <2>4. q = p
      BY <1>4, <2>3 DEF InNamespace
    <2>5. e.bound = pk.bound
      BY <1>1, <1>4, <2>1, <2>2
    <2> QED BY <1>3, <1>4, <2>1, <2>4, <2>5
  <1>6. CASE id \notin Taken(e.bound)
    <2>1. p \in Modules
      BY <1>4, <1>6 DEF Unavailable
    <2>2. PICK a \in AssetsOf[r] : id = AssetId(e.bound, r, ns, a)
      BY <1>4, <1>6 DEF Unavailable
    <2>3. a \in NewKitFiles(r, ns) /\ a \in Paths /\ a # p
      BY <2>1, AssetsAreSafe, PathKinds, LedgerAssumption DEF NewKitFiles, Assets, KitPaths
    <2>4. id[3] \in {{}, {a}}
      BY <2>2, <2>3, PreferredIds, AllocatedIds DEF AssetId
    <2> QED BY <1>4, <2>3, <2>4
  <1> QED BY <1>5, <1>6

--------------------------------------------------------------------------------
(* The installed kits can be laid out in layers: to each coordinate belongs *)
(* the set of those below it, which what it depends on has without it.      *)
Coordinates == Range(CoordinateOf)

Layering(f, mats) ==
  /\ f \in [Coordinates -> SUBSET Coordinates]
  /\ \A m \in mats :
       LET c == CoordinateOf[m.release]
       IN /\ c \in f[c] /\ f[c] \subseteq Installed(mats)
          /\ \A d \in DepsOf[m.release] : f[d] \subseteq f[c] /\ c \notin f[d]

Layered(mats) == CoordinateDeterminesDependencies => \E f : Layering(f, mats)

(* What is no new coordinate keeps its place among those that stay.         *)
LEMMA LayersPruned ==
  ASSUME NEW mats \in SUBSET MatRecord, NEW new \in SUBSET MatRecord,
         DependencyPresence(new), NEW f, Layering(f, mats),
         \A n \in new : \E m \in mats :
           /\ CoordinateOf[m.release] = CoordinateOf[n.release]
           /\ DepsOf[m.release] = DepsOf[n.release]
  PROVE  \E g : Layering(g, new)
  <1> DEFINE g == [c \in Coordinates |-> f[c] \cap Installed(new)]
  <1>1. \A m \in MatRecord : CoordinateOf[m.release] \in Coordinates
    BY DEF MatRecord, Releases, Coordinates, CoordinateOf, Range
  <1>2. g \in [Coordinates -> SUBSET Coordinates]
    BY DEF Layering
  <1>3. ASSUME NEW n \in new
        PROVE  LET c == CoordinateOf[n.release]
               IN /\ c \in g[c] /\ g[c] \subseteq Installed(new)
                  /\ \A d \in DepsOf[n.release] : g[d] \subseteq g[c] /\ c \notin g[d]
    <2> DEFINE c == CoordinateOf[n.release]
    <2>1. PICK m \in mats : CoordinateOf[m.release] = c /\ DepsOf[m.release] = DepsOf[n.release]
      OBVIOUS
    <2>2. c \in Coordinates /\ c \in Installed(new)
      BY <1>1 DEF Installed
    <2>3. \A d \in DepsOf[n.release] : d \in Coordinates
      BY <1>1 DEF DependencyPresence, Installed
    <2>4. c \in f[c] /\ \A d \in DepsOf[n.release] : f[d] \subseteq f[c] /\ c \notin f[d]
      BY <2>1 DEF Layering
    <2> QED BY <2>2, <2>3, <2>4
  <1> QED BY <1>2, <1>3 DEF Layering

(* A coordinate that is new goes on top of what is installed.               *)
LEMMA LayersExtended ==
  ASSUME NEW mats \in SUBSET MatRecord, DependencyPresence(mats), NEW f, Layering(f, mats),
         NEW base \in SUBSET mats, NEW m \in MatRecord,
         DepsOf[m.release] \subseteq Installed(base),
         DependencyPresence(base \cup {m}),
         CoordinateOf[m.release] \notin Installed(mats)
  PROVE  \E g : Layering(g, base \cup {m})
  <1> DEFINE new == base \cup {m}
             top == CoordinateOf[m.release]
             g == [c \in Coordinates |-> IF c = top THEN Installed(new)
                                         ELSE f[c] \cap Installed(new)]
  <1>1. \A n \in MatRecord : CoordinateOf[n.release] \in Coordinates
    BY DEF MatRecord, Releases, Coordinates, CoordinateOf, Range
  <1>2. Installed(new) \subseteq Coordinates /\ top \in Installed(new)
    BY <1>1 DEF Installed
  <1>3. g \in [Coordinates -> SUBSET Coordinates]
    BY <1>2 DEF Layering
  <1>4. ASSUME NEW n \in base
        PROVE  LET c == CoordinateOf[n.release]
               IN /\ c \in g[c] /\ g[c] \subseteq Installed(new)
                  /\ \A d \in DepsOf[n.release] : g[d] \subseteq g[c] /\ c \notin g[d]
    <2> DEFINE c == CoordinateOf[n.release]
    <2>1. c \in Coordinates /\ c \in Installed(new) /\ c # top
      BY <1>1 DEF Installed
    <2>2. \A d \in DepsOf[n.release] : d \in Coordinates /\ d # top
      BY <1>1 DEF DependencyPresence, Installed
    <2>3. c \in f[c] /\ \A d \in DepsOf[n.release] : f[d] \subseteq f[c] /\ c \notin f[d]
      BY DEF Layering
    <2> QED BY <2>1, <2>2, <2>3
  <1>5. /\ top \in g[top] /\ g[top] \subseteq Installed(new)
        /\ \A d \in DepsOf[m.release] : g[d] \subseteq g[top] /\ top \notin g[d]
    <2>1. top \in Coordinates
      BY <1>1
    <2>2. ASSUME NEW d \in DepsOf[m.release]
          PROVE  d \in Coordinates /\ d # top /\ top \notin f[d]
      <3>1. PICK n \in base : CoordinateOf[n.release] = d
        BY DEF Installed
      <3>2. f[d] \subseteq Installed(mats)
        BY <3>1 DEF Layering
      <3> QED BY <1>1, <3>1, <3>2 DEF Installed
    <2> QED BY <1>2, <2>1, <2>2
  <1> QED BY <1>3, <1>4, <1>5 DEF Layering

LEMMA LayersStay ==
  ASSUME NEW mats \in SUBSET MatRecord, NEW new \in SUBSET MatRecord, MatsStep(mats, new),
         DependencyPresence(mats), DependencyPresence(new), Layered(mats)
  PROVE  Layered(new)
  <1> SUFFICES ASSUME CoordinateDeterminesDependencies PROVE \E g : Layering(g, new)
    BY DEF Layered
  <1>1. PICK f : Layering(f, mats)
    BY DEF Layered
  <1>2. CASE new \subseteq mats
    BY <1>1, <1>2, LayersPruned
  <1>3. ASSUME NEW base \in SUBSET mats, NEW m \in MatRecord, new = base \cup {m},
               DepsOf[m.release] \subseteq Installed(base)
        PROVE  \E g : Layering(g, new)
    <2>1. CASE CoordinateOf[m.release] \notin Installed(mats)
      BY <1>1, <1>3, <2>1, LayersExtended
    <2>2. CASE CoordinateOf[m.release] \in Installed(mats)
      <3>1. PICK o \in mats : CoordinateOf[o.release] = CoordinateOf[m.release]
        BY <2>2 DEF Installed
      <3>2. o.release \in Releases /\ m.release \in Releases
        BY DEF MatRecord
      <3>3. DepsOf[o.release] = DepsOf[m.release]
        BY <3>1, <3>2 DEF CoordinateDeterminesDependencies
      <3>4. \A n \in new : \E p \in mats :
              /\ CoordinateOf[p.release] = CoordinateOf[n.release]
              /\ DepsOf[p.release] = DepsOf[n.release]
        BY <1>3, <3>1, <3>3
      <3> QED BY <1>1, <3>4, LayersPruned
    <2> QED BY <2>1, <2>2
  <1> QED BY <1>2, <1>3 DEF MatsStep

(* On the highest layer nothing is depended on by any other.                *)
LEMMA TopIsFree ==
  ASSUME NEW pk, Sound(pk), DependencyPresence(pk.mats), pk.mats # {},
         NEW f, Layering(f, pk.mats)
  PROVE  \E m \in pk.mats : DependencyConflicts(pk, m, NoSuccessor) = {}
  <1>1. PICK k \in pk.mats : k \in MatRecord
    BY DEF Sound, Packs
  <1>2. \A m \in pk.mats : CoordinateOf[m.release] \in Coordinates
    BY DEF Sound, Packs, MatRecord, Releases, Coordinates, CoordinateOf, Range
  <1>3. IsFiniteSet(Coordinates)
    <2> DEFINE module == [c \in Coordinates |-> <<k.ns, c>>]
    <2>1. IsFiniteSet(Modules)
      BY LedgerAssumption, FS_Subset DEF Paths
    <2>2. k.ns \in Namespaces
      BY <1>1 DEF MatRecord
    <2>3. module \in Injection(Coordinates, Modules)
      BY <2>2 DEF Injection, IsInjective, Modules, Coordinates
    <2> QED BY <2>1, <2>3, FS_Injection
  <1> DEFINE above(m) == Coordinates \ f[CoordinateOf[m.release]]
             T == {above(m) : m \in pk.mats}
             smaller == StrictSubsetOrdering(Coordinates)
  <1>4. IsWellFoundedOn(smaller, FiniteSubsetsOf(Coordinates))
    BY FS_StrictSubsetOrderingWellFounded
  <1>5. T \subseteq FiniteSubsetsOf(Coordinates) /\ T # {}
    <2>1. \A m \in pk.mats : above(m) \subseteq Coordinates
      OBVIOUS
    <2>2. \A c \in SUBSET Coordinates : IsFiniteSet(c)
      BY <1>3, FS_Subset
    <2>3. \A m \in pk.mats : above(m) \in FiniteSubsetsOf(Coordinates)
      BY <2>1, <2>2 DEF FiniteSubsetsOf
    <2> QED BY <2>3
  <1>6. PICK x \in T : \A y \in T : <<y, x>> \notin smaller
    BY <1>4, <1>5, WFMin
  <1>7. PICK m \in pk.mats : x = above(m)
    BY <1>6
  <1>8. ASSUME NEW n \in pk.mats, CoordinateOf[m.release] \in DepsOf[n.release]
        PROVE  FALSE
    <2>1. above(n) \subseteq above(m) /\ CoordinateOf[n.release] \in above(m) \ above(n)
      BY <1>2, <1>8 DEF Layering
    <2>2. <<above(n), above(m)>> \in smaller
      BY <2>1 DEF StrictSubsetOrdering
    <2> QED BY <1>6, <1>7, <2>2
  <1>9. DependencyConflicts(pk, m, NoSuccessor) = {}
    <2> SUFFICES ASSUME NEW n \in pk.mats, NEW d \in DepsOf[n.release],
                        KitOf(d) = KitOf(CoordinateOf[m.release])
                 PROVE  FALSE
      BY DEF DependencyConflicts
    <2>1. PICK o \in pk.mats : CoordinateOf[o.release] = d
      BY DEF DependencyPresence, Installed
    <2>2. d = CoordinateOf[m.release]
      BY <2>1 DEF Sound, OneVersion
    <2> QED BY <1>8, <2>2
  <1> QED BY <1>9

--------------------------------------------------------------------------------
(* The first pack is sound, and every step keeps it sound.                  *)
LEMMA LedgerInit == Init => LedgerInv
  <1> SUFFICES ASSUME Init PROVE LedgerInv
    OBVIOUS
  <1> DEFINE files == [p \in Paths |->
                         IF p \in Targets THEN [imports |-> {}, edited |-> FALSE] ELSE Absent]
             bound(id) == [p \in Paths |-> IF p \in Targets THEN id[p] ELSE Unbound]
  <1>1. PICK id \in [Targets -> {Unbound}] \cup {[t \in Targets |-> Generated(t)]} :
          pack = [files |-> files, mats |-> {}, owners |-> Everywhere({}),
                  baseline |-> Everywhere(Absent), rows |-> Everywhere(Unbound),
                  bound |-> bound(id)]
    BY DEF Init
  <1>2. /\ files \in [Paths -> FileValues] /\ FilesFit(files)
        /\ files[Lock] = Absent
        /\ \A t \in Targets : files[t].imports = {}
        /\ \A p \in KitPaths : files[p] = Absent
    BY PathKinds DEF FileValues, FilesFit, SdlText
  <1>3. /\ \A p \in Paths : bound(id)[p] \in {Unbound, Generated(p)}
        /\ bound(id) = [p \in Paths |-> bound(id)[p]]
    OBVIOUS
  <1>4. \A p \in Paths : Generated(p) \in ArtifactIds
    <2>1. \A p \in Paths : p \in ArtifactNames
      BY DEF ArtifactNames
    <2> QED BY <2>1 DEF Generated, Named, ArtifactIds, Owners
  <1> HIDE DEF files, bound
  <1>5. bound(id) \in [Paths -> ArtifactIds]
    BY <1>3, <1>4 DEF ArtifactIds
  <1>6. /\ Everywhere({}) \in [Paths -> SUBSET Owners]
        /\ Everywhere(Absent) \in [Paths -> FileValues]
        /\ Everywhere(Unbound) \in [Paths -> ArtifactIds]
        /\ \A p \in Paths : Everywhere({})[p] = {}
    BY DEF Everywhere, FileValues, ArtifactIds
  <1>7. /\ pack \in Packs /\ pack.files = files /\ pack.mats = {}
        /\ pack.owners = Everywhere({}) /\ pack.bound = bound(id)
        /\ \A p \in Paths : pack.rows[p] = Unbound
    BY <1>1, <1>2, <1>5, <1>6 DEF Packs, Everywhere
  <1>8. IdsFit(pack.bound) /\ IdsApart(pack.bound)
    <2>1. \A p, q \in Paths : Generated(p) = Generated(q) => p = q
      BY DEF Generated, Named
    <2> QED BY <1>3, <1>7, <2>1 DEF IdsFit, IdsApart
  <1>9. ImportsTell(pack) /\ TargetsOwned(pack) /\ KitFilesOwned(pack)
    <2>1. ImportsTell(pack)
      BY <1>2, <1>7 DEF ImportsTell, At
    <2>2. TargetsOwned(pack)
      BY <1>6, <1>7, PathKinds DEF TargetsOwned
    <2>3. KitFilesOwned(pack)
      BY <1>2, <1>7, PathKinds DEF KitFilesOwned
    <2> QED BY <2>1, <2>2, <2>3
  <1>10. KitPathsOwned(pack) /\ RowsFit(pack) /\ RowsApart(pack.rows)
    BY <1>6, <1>7, PathKinds DEF KitPathsOwned, RowsFit, RowsApart
  <1>11. IdsOwned(pack) /\ IdsLeft(pack)
    <2>1. \A p \in Paths : Generated(p)[1] \notin Namespaces
      BY PathKinds DEF Generated, Named
    <2> QED BY <1>3, <1>7, <2>1, PathKinds DEF IdsOwned, IdsLeft, IdOwned
  <1>12. LedgerContract(pack)
    <2>1. MaterializationRows(pack.mats) /\ DependencyPresence(pack.mats) /\ OwnershipJoins(pack)
      BY <1>7 DEF MaterializationRows, DependencyPresence, OwnershipJoins
    <2>2. \A p \in Paths : pack.owners[p] \subseteq {PackAuthor} \cup Ids(pack.mats)
      BY <1>6, <1>7
    <2>3. Taken(pack.rows) = {} /\ {p \in Paths : pack.rows[p] # Unbound} = {}
      BY <1>7 DEF Taken
    <2> QED BY <2>1, <2>2, <2>3 DEF LedgerContract, FileRows
  <1> QED BY <1>2, <1>7, <1>8, <1>9, <1>10, <1>11, <1>12
          DEF LedgerInv, Sound, LockTells, Member, OneNamespace, OneVersion

LEMMA LedgerStep == LedgerInv /\ [Next]_pack => LedgerInv'
  <1>1. ASSUME LedgerInv, UNCHANGED pack PROVE LedgerInv'
    BY <1>1 DEF LedgerInv, Sound, LockTells, Member
  <1> QED BY <1>1, KitStepSound, AuthorStepSound DEF Next

LEMMA LedgerInvariant == Spec => []LedgerInv
  BY LedgerInit, LedgerStep, PTL DEF Spec

(* Every field of the pack keeps its type.                                  *)
THEOREM TypeCorrect == Spec => []TypeOK
  <1>1. LedgerInv => TypeOK
    BY PathKinds DEF LedgerInv, Sound, Packs, FilesFit, TypeOK, KitPaths, Owners
  <1> QED BY <1>1, LedgerInvariant, PTL

(* Ledger, imports and lock tell one story, in any pack that any sequence   *)
(* of operations and edits can make.                                        *)
THEOREM LedgerAlwaysTellsOneStory == Spec => []LedgerTellsOneStory
  <1>1. LedgerInv => LedgerTellsOneStory
    BY DEF LedgerInv, Sound, OneVersion, ImportsTell, At, ImportOf, LockTells, LedgerTellsOneStory
  <1> QED BY <1>1, LedgerInvariant, PTL

(* No file that a kit put into a pack outlives its materialization.         *)
THEOREM NoKitFileIsEverOrphaned == Spec => []NoOrphanedKitFile
  <1>1. LedgerInv => NoOrphanedKitFile
    BY DEF LedgerInv, Sound, KitFilesOwned, KitFileOwned, KitPaths, NoOrphanedKitFile
  <1> QED BY <1>1, LedgerInvariant, PTL

(* Kit operations never touch a kit path that no materialization owns.      *)
THEOREM UnownedFilesStay == Spec => UnownedFilesUntouched
  <1>1. LedgerInv /\ [Next]_pack =>
          [AuthorStep \/ \A p \in Modules \cup Assets :
             Member(pack, p) /\ pack.owners[p] = {} => pack'.files[p] = pack.files[p]]_pack
    BY KitStepSound DEF Next, KitPaths
  <1> QED BY <1>1, LedgerInvariant, PTL DEF Spec, UnownedFilesUntouched

(* No single operation, of any kits, ids and suffixes, changes the artifact *)
(* id of a member or hands an id in use on to another path.                 *)
THEOREM ArtifactIdsStay == Spec => ArtifactIdsAreStable
  <1>1. LedgerInv /\ [Next]_pack =>
          [\A p, q \in Paths : pack.bound[p] # Unbound =>
             /\ Member(pack, p) /\ Member(pack, p)' => pack'.bound[p] = pack.bound[p]
             /\ pack'.bound[q] = pack.bound[p] => p = q]_pack
    <2> SUFFICES ASSUME LedgerInv, Next, NEW p \in Paths, NEW q \in Paths,
                        pack.bound[p] # Unbound
                 PROVE  /\ Member(pack, p) /\ Member(pack, p)' =>
                             pack'.bound[p] = pack.bound[p]
                        /\ pack'.bound[q] = pack.bound[p] => p = q
      OBVIOUS
    <2>1. CASE KitStep
      BY <2>1, KitStepSound DEF Kept, Member
    <2>2. CASE AuthorStep
      BY <2>2, AuthorStepSound DEF LedgerInv, Sound, IdsApart
    <2> QED BY <2>1, <2>2 DEF Next
  <1> QED BY <1>1, LedgerInvariant, PTL DEF Spec, ArtifactIdsAreStable

(* A proposal without diagnostics is never refused at its commit, in any    *)
(* pack whose owned files the author left as they were.                     *)
THEOREM DiagnosticsAlwaysSuffice == Spec => []DiagnosticsSuffice
  <1>1. ASSUME LedgerInv, OwnedFilesIntact
        PROVE  DiagnosticsSuffice
    <2>1. /\ Sound(pack) /\ Intact(pack) /\ IdsOwned(pack) /\ LedgerContract(pack)
      BY <1>1 DEF LedgerInv, OwnedFilesIntact, Intact, KitPaths
    <2>2. /\ MaterializationRows(pack.mats) /\ DependencyPresence(pack.mats)
          /\ OwnersNamed(pack) /\ OwnershipJoins(pack)
      BY <2>1 DEF LedgerContract, FileRows, OwnersNamed
    <2>3. ASSUME NEW x \in Offers, NEW ns \in Namespaces, NEW t \in Targets,
                 AddDiagnostics(pack, x[2], ns) = {}
          PROVE  ~Collides(pack, x[2], ns) /\ Valid(Added(pack, x[1], x[2], ns, t, {}))
      <3>1. x[2] \in Releases
        BY DEF Offers
      <3>2. ~Collides(pack, x[2], ns)
        <4> SUFFICES ASSUME Collides(pack, x[2], ns) PROVE FALSE
          OBVIOUS
        <4>1. PICK p \in NewKitFiles(x[2], ns) :
                p \in KitPaths /\ pack.bound[p] # Unbound /\ pack.bound[p][1] \in Namespaces
          BY <2>1, <3>1, CollisionsAreSuffixed
        <4>2. pack.files[p] \in Releases
          BY <2>1, <4>1 DEF IdsOwned, IdOwned, Intact
        <4>3. p \in PathConflicts(pack, x[2], ns)
          BY <4>2, PathKinds DEF PathConflicts, Member
        <4> QED BY <2>3, <4>3 DEF AddDiagnostics
      <3>3. \A n \in pack.mats : DepsOf[n.release] \subseteq
              Installed(pack.mats) \cup {CoordinateOf[x[2]]}
        BY <2>2 DEF DependencyPresence
      <3>4. Valid(Added(pack, x[1], x[2], ns, t, {}))
        BY <2>1, <2>2, <2>3, <3>3, AddedIsValid
      <3> QED BY <3>2, <3>4
    <2>4. ASSUME NEW m \in pack.mats, RemovalDiagnostics(pack, m, NoSuccessor) = {}
          PROVE  Valid(Removed(pack, m))
      BY <2>1, <2>4, RemovedIsValid
    <2>5. ASSUME NEW m \in pack.mats, NEW x \in Offers, NEW ns \in Namespaces,
                 Replaceable(m, StageRemoval(pack, m), x[2]),
                 AddDiagnostics(StageRemoval(pack, m), x[2], ns) = {}
          PROVE  /\ Collides(StageRemoval(pack, m), x[2], ns) => SomeSuffixed(pack.bound)
                 /\ \A t \in Targets :
                      Valid(Added(StageRemoval(pack, m), x[1], x[2], ns, t, {}))
      <3> DEFINE st == StageRemoval(pack, m)
      <3>1. Sound(st) /\ st.bound = pack.bound /\ st.mats = pack.mats \ {m}
        BY <2>1, RemovalSound
      <3>2. /\ Intact(st) /\ MaterializationRows(st.mats)
            /\ OwnersNamed(st) /\ OwnershipJoins(st)
        BY <2>1, <2>2, RemovalContract
      <3>3. AddDiagnostics(st, x[2], ns) = {}
        BY <2>5
      <3> HIDE DEF st
      <3>4. x[2] \in Releases
        BY DEF Offers
      <3>5. Collides(st, x[2], ns) => SomeSuffixed(pack.bound)
        <4> SUFFICES ASSUME Collides(st, x[2], ns) PROVE SomeSuffixed(pack.bound)
          OBVIOUS
        <4>1. PICK p \in KitPaths : pack.bound[p] # Unbound /\ pack.bound[p][3] = {p}
          BY <3>1, <3>4, CollisionsAreSuffixed
        <4> QED BY <4>1, PathKinds DEF SomeSuffixed
      <3>6. \A n \in st.mats : DepsOf[n.release] \subseteq
              Installed(st.mats) \cup {CoordinateOf[x[2]]}
        <4> SUFFICES ASSUME NEW n \in pack.mats, n # m, NEW d \in DepsOf[n.release],
                            d # CoordinateOf[x[2]]
                     PROVE  \E o \in pack.mats \ {m} : CoordinateOf[o.release] = d
          BY <3>1 DEF Installed
        <4>1. PICK o \in pack.mats : CoordinateOf[o.release] = d
          BY <2>2 DEF DependencyPresence, Installed
        <4>2. d \notin DependencyConflicts(pack, m, {CoordinateOf[x[2]]})
          BY <2>5 DEF Replaceable, RemovalDiagnostics
        <4>3. KitOf(d) # KitOf(CoordinateOf[m.release])
          BY <4>2 DEF DependencyConflicts
        <4> QED BY <4>1, <4>3
      <3>7. \A t \in Targets : Valid(Added(st, x[1], x[2], ns, t, {}))
        BY <3>1, <3>2, <3>3, <3>6, AddedIsValid
      <3> QED BY <3>5, <3>7 DEF st
    <2> QED BY <2>3, <2>4, <2>5 DEF DiagnosticsSuffice
  <1>2. LedgerInv => DiagnosticsSuffice
    BY <1>1 DEF DiagnosticsSuffice
  <1> QED BY <1>2, LedgerInvariant, PTL

(* The author can take the installed kits out again, one at a time.         *)
THEOREM RemovalOrderAlwaysExists == Spec => []RemovalOrderExists
  <1>1. Init => Layered(pack.mats)
    <2> SUFFICES ASSUME Init PROVE \E f : Layering(f, pack.mats)
      BY DEF Layered
    <2>1. pack.mats = {}
      BY DEF Init
    <2>2. Layering([c \in Coordinates |-> {}], pack.mats)
      BY <2>1 DEF Layering
    <2> QED BY <2>2
  <1>2. LedgerInv /\ LedgerInv' /\ Layered(pack.mats) /\ [Next]_pack => Layered(pack.mats)'
    <2> SUFFICES ASSUME LedgerInv, LedgerInv', Layered(pack.mats), [Next]_pack
                 PROVE  Layered(pack'.mats)
      BY DEF Layered, Layering, Installed
    <2>1. /\ pack.mats \in SUBSET MatRecord /\ pack'.mats \in SUBSET MatRecord
          /\ DependencyPresence(pack.mats) /\ DependencyPresence(pack'.mats)
      BY DEF LedgerInv, Sound, Packs, LedgerContract
    <2>2. MatsStep(pack.mats, pack'.mats)
      BY KitStepSound, AuthorStepSound DEF Next, MatsStep
    <2> QED BY <2>1, <2>2, LayersStay
  <1>3. LedgerInv /\ Layered(pack.mats) => RemovalOrderExists
    BY TopIsFree DEF LedgerInv, LedgerContract, Layered, RemovalOrderExists
  <1> QED BY <1>1, <1>2, <1>3, LedgerInvariant, PTL DEF Spec

(* A catalog lists only what its source loads.                              *)
LEMMA EntriesLoad == CatalogEntriesLoad
  <1> SUFFICES ASSUME NEW s \in Sources, BuildsCatalog({s}), NEW e \in Catalog({s})
               PROVE  \E r \in SourceRelease(s, e.coordinate) :
                        e.required = ExactCoordinates(Draft[r].document.prerequisites)
    BY DEF CatalogEntriesLoad
  <1>1. PICK x \in Listed({s}) : e = Entry(x[1], x[2])
    BY DEF Catalog
  <1>2. /\ x[1] = s /\ x[2] \in Staged /\ x[2] \in RootsOf(s)
        /\ Loads(x[2]) /\ PathIsIdentity(x[2]) /\ ValidSource(s)
    BY <1>1 DEF Listed, BuildsCatalog
  <1>3. x[2] \in Releases
    BY <1>2 DEF Releases
  <1>4. x[2] \in SourceRelease(s, DeclaredCoordinate(x[2]))
    BY <1>2, <1>3, LoadedReleases DEF SourceRelease, RootsOf, PathIsIdentity
  <1> QED BY <1>1, <1>4 DEF Entry

(* Whatever kits a pack ever holds are inert infrastructure.                *)
THEOREM KitsAreAlwaysInert == Spec => []KitsAreInert
  <1>1. LedgerInv => KitsAreInert
    BY EntriesLoad DEF LedgerInv, Sound, Inert, KitsAreInert
  <1> QED BY <1>1, LedgerInvariant, PTL
================================================================================
