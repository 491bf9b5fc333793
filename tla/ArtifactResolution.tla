--------------------------- MODULE ArtifactResolution ---------------------------
(***************************************************************************)
(* digest.py over the reads of PackFiles: resolve one artifact of a pack,  *)
(* validate its associated-artifact manifest, or derive one, while somebody*)
(* saves, links, replaces or deletes members.  Each operation reads        *)
(* pack.yaml, the manifest, an inventory, the SDL parents, every payload   *)
(* and the inventory again, all below one root descriptor, and nothing     *)
(* holds the directory still (ADR 0012).                                   *)
(*                                                                         *)
(* A content stands for bytes and for their digest.  RAES parses SDL and   *)
(* compares checksums; a document is the parent that a manifest names when *)
(* its content is the one the manifest names.                              *)
(***************************************************************************)
EXTENDS PackFiles

CONSTANTS PackPath, ManifestPath, \* pack.yaml and the member it points to
          SdlMembers,   \* paths a consumer parse may read: documents and locks
          DirectDocs,   \* the sdl/*.sdl.yaml documents among them
          Paths,        \* every member path
          Versions,     \* contents of pack.yaml
          Manifests,    \* contents of the manifest -> [version, of, parent]
          Unparsable,   \* contents that are no SDL document
          Operations,   \* [mode : {"resolve", "validate", "derive"}, selected]
          InitialDirs,
          InitialFiles, \* the contents a pack may have: refreshed, or edited since
          Saves,        \* member name -> contents the author may save there
          MaxChanges    \* bound on changes during one operation

(* Nothing in the pack is outside it to begin with.                          *)
ASSUME ResolutionAssumption ==
  /\ {PackPath, ManifestPath} \subseteq MemberPaths
  /\ InitialDirs \in [Dirs -> [Names -> Entries]]
  /\ \A d \in Dirs \ {Outside}, n \in Names :
       InitialDirs[d][n] \notin {DirEntry(Outside), FileEntry(Secret)}
  /\ \E n \in Names : InitialDirs[Outside][n] = FileEntry(Secret)
  /\ \A o \in Operations : o.mode \in {"resolve", "validate", "derive"}
  /\ \A m \in {Manifests[c] : c \in DOMAIN Manifests} :
       m = [version |-> m.version, of |-> m.of, parent |-> m.parent]

(* A member lies in the pack's directory or in one below it, the manifest in *)
(* the first (pack-layout.md 181-183), and none in the excluded tree; a      *)
(* directory has one name, and no content is taken for an absent one.        *)
ASSUME LayoutAssumption ==
  /\ Paths \subseteq {<<a>> : a \in Names} \cup (Names \X Names)
  /\ DirectDocs \subseteq SdlMembers \cap Paths
  /\ ManifestPath \in Paths /\ Len(ManifestPath) = 1 /\ ExcludedFile = ManifestPath
  /\ \A a, b \in Names : <<a, b>> \in Paths => ~IsPrefix(ExcludedTree, <<a>>)
  /\ \A a, b \in Names, d \in Dirs :
       InitialDirs[Root][a] = DirEntry(d) =>
         d # Root /\ (InitialDirs[Root][b] = DirEntry(d) => a = b)
ASSUME ContentAssumption ==
  /\ \A c \in InitialFiles : c = [f \in Files |-> c[f]] /\ \A f \in Files : c[f] # None
  /\ \A m \in Dirs \X Names : None \notin Saves[m]

VARIABLES op, phase,
          root,      \* the root descriptor
          version,   \* pack.yaml as it was read
          manifest,  \* the manifest as it was read, then as it is derived
          first,     \* the first inventory
          todo,      \* paths this phase still has to read
          reading,   \* the path of `member`
          sources,   \* path -> content, of the SDL sources that were read
          tries,     \* parents of this manifest whose binding was not tried yet
          result,
          changes,   \* changes since the root was opened
          trees      \* the pack at each moment since then (history)

op_vars == <<op, root, version, manifest, first, todo, reading, sources, tries, result>>
vars == <<rootEntry, dirs, files, walk, member, op, phase, root, version, manifest,
          first, todo, reading, sources, tries, result, changes, trees>>

Init ==
  /\ rootEntry = DirEntry(Root)
  /\ dirs = InitialDirs /\ files \in InitialFiles
  /\ walk = NoWalk /\ member = NoMember
  /\ op \in Operations /\ phase = "idle"
  /\ root = None /\ version = None /\ manifest = None /\ first = {} /\ todo = {}
  /\ reading = None /\ sources = <<>> /\ tries = 0 /\ result = None
  /\ changes = 0 /\ trees = {}

Ended == {"ok", "failed"}
Working == phase \notin Ended \cup {"idle"}
Artifacts == DOMAIN manifest.of

(* What the opened tree holds at a path, links not followed. *)
EntryAt(d, path) ==
  LET top == dirs[d][path[1]]
  IN IF Len(path) = 1 THEN top
     ELSE IF top.kind = "dir" THEN dirs[top.of][path[2]] ELSE Absent
TreeOf(d) ==
  [p \in Paths |-> IF EntryAt(d, p).kind = "file" THEN files[EntryAt(d, p).of] ELSE None]

--------------------------------------------------------------------------------
(* _pack_context *)
Begin ==
  /\ phase = "idle" /\ OpenedRoot # Unreachable
  /\ root' = OpenedRoot /\ trees' = {TreeOf(OpenedRoot)}
  /\ member' = MemberFrom(OpenedRoot, PackPath) /\ reading' = PackPath
  /\ phase' = "pack"
  /\ UNCHANGED <<files_vars, walk, op, version, manifest, first, todo, sources, tries,
                 result, changes>>

(* The content of the member being read, within the limits. *)
Gets(where, contents) ==
  phase = where /\ Readable /\ ~ReadOverflows /\ Content \in contents

ReadPack ==
  /\ Gets("pack", Versions)
  /\ version' = Content
  /\ member' = MemberFrom(root, ManifestPath) /\ reading' = ManifestPath
  /\ phase' = "manifest"
  /\ UNCHANGED <<files_vars, walk, op, root, manifest, first, todo, sources, tries,
                 result, changes, trees>>

(* _load_manifest and _validate_pack_manifest_identity *)
IsOfThisPack(m) == m.version = version

ReadManifest ==
  /\ Gets("manifest", DOMAIN Manifests)
  /\ IsOfThisPack(Manifests[Content])
  /\ manifest' = Manifests[Content]
  /\ member' = NoMember /\ reading' = None
  /\ walk' = WalkFrom(root) /\ phase' = "inventory"
  /\ UNCHANGED <<files_vars, op, root, version, first, todo, sources, tries, result,
                 changes, trees>>

(* The inventory is exactly what the manifest declares; then the resolver    *)
(* selects its artifact, and the author lanes parse the parents at once.     *)
Covers == walk.found = Artifacts
Selectable == op.selected \in Artifacts /\ manifest.of[op.selected] \notin Oversize

Inventoried ==
  /\ phase = "inventory" /\ Walked /\ Covers
  /\ op.mode = "resolve" => Selectable
  /\ first' = walk.found /\ walk' = NoWalk
  /\ phase' = IF op.mode = "resolve" THEN "payload" ELSE "parents"
  /\ member' = IF op.mode = "resolve" THEN MemberFrom(root, op.selected) ELSE NoMember
  /\ reading' = IF op.mode = "resolve" THEN op.selected ELSE None
  /\ todo' = IF op.mode = "resolve" THEN {} ELSE walk.found \cap DirectDocs
  /\ UNCHANGED <<files_vars, op, root, version, manifest, sources, tries, result,
                 changes, trees>>

--------------------------------------------------------------------------------
(* A phase that reads the members of `todo` one after another. *)
Reading(where) == phase = where /\ member = NoMember /\ todo # {}

OpenNext ==
  /\ \E where \in {"derive", "sources", "bind"} : Reading(where)
  /\ \E p \in todo : member' = MemberFrom(root, p) /\ reading' = p
  /\ UNCHANGED <<files_vars, walk, op, phase, root, version, manifest, first, todo,
                 sources, tries, result, changes, trees>>

GotMember ==
  /\ todo' = todo \ {reading}
  /\ member' = NoMember /\ reading' = None

(* _materialize_member: the selected payload is read once and kept. *)
ReadPayload ==
  /\ phase = "payload" /\ Readable /\ ~ReadOverflows
  /\ sources' = [p \in {reading} |-> Content]
  /\ todo' = (SdlMembers \cap first) \ {reading}
  /\ member' = NoMember /\ reading' = None /\ phase' = "sources"
  /\ UNCHANGED <<files_vars, walk, op, root, version, manifest, first, tries, result,
                 changes, trees>>

(* _consumer_sdl_sources: the kept payload is not opened a second time. *)
ReadSource ==
  /\ phase = "sources" /\ Readable /\ ~ReadOverflows
  /\ GotMember
  /\ sources' = [p \in DOMAIN sources \cup {reading} |->
                   IF p = reading THEN Content ELSE sources[p]]
  /\ UNCHANGED <<files_vars, walk, op, phase, root, version, manifest, first, tries,
                 result, changes, trees>>

(* _parse_parent_candidates: the author lanes parse by path name, from the   *)
(* root's name down and through links.                                       *)
Followed(entry) ==
  CASE entry.kind = "linkdir" -> DirEntry(entry.of)
    [] entry.kind = "linkfile" -> FileEntry(entry.of)
    [] OTHER -> entry
NamedEntry(path) ==
  LET top == Followed(rootEntry)
      sub == Followed(dirs[top.of][path[1]])
  IN IF Len(path) = 1 THEN sub
     ELSE IF sub.kind = "dir" THEN Followed(dirs[sub.of][path[2]]) ELSE Absent

ParsesByName(path) ==
  /\ NamedEntry(path).kind = "file"
  /\ files[NamedEntry(path).of] \notin Unparsable

ParseByName ==
  /\ phase = "parents" /\ todo # {}
  /\ \E p \in todo :
       /\ ParsesByName(p)
       /\ todo' = todo \ {p}
       /\ sources' = [q \in DOMAIN sources \cup {p} |->
                        IF q = p THEN files[NamedEntry(p).of] ELSE sources[q]]
  /\ UNCHANGED <<files_vars, walk, member, op, phase, root, version, manifest, first,
                 reading, tries, result, changes, trees>>

ParseByNameFails ==
  /\ phase = "parents"
  /\ \E p \in todo : ~ParsesByName(p)

--------------------------------------------------------------------------------
(* Documents that are the parent the manifest names. *)
Parents == {d \in first \cap DirectDocs : sources[d] = manifest.parent}

Parsed ==
  /\ phase \in {"sources", "parents"} /\ todo = {} /\ member = NoMember
  /\ first \cap DirectDocs # {}
  /\ \A d \in first \cap DirectDocs : sources[d] \notin Unparsable

(* _select_single_parent for the resolver; the author lanes try one after    *)
(* another (_validate_with_parent_candidates).                               *)
EnoughParents ==
  IF op.mode = "resolve" THEN Cardinality(Parents) = 1 ELSE Parents # {}

(* Derivation comes after every parent was parsed, and before one is chosen. *)
ParentsParsed ==
  /\ op.mode = "derive" /\ phase = "parents" /\ Parsed
  /\ todo' = Artifacts /\ phase' = "derive"
  /\ UNCHANGED <<files_vars, walk, member, op, root, version, manifest, first, reading,
                 sources, tries, result, changes, trees>>

(* _derived_manifest: the checksums of what is there become the manifest's.  *)
ReadForDerivation ==
  /\ phase = "derive" /\ Readable /\ ~ReadOverflows
  /\ GotMember
  /\ manifest' = [manifest EXCEPT !.of[reading] = Content]
  /\ UNCHANGED <<files_vars, walk, op, phase, root, version, first, sources, tries,
                 result, changes, trees>>

Derived == phase = "derive" /\ todo = {} /\ member = NoMember

(* Defect: only the selected artifact is bound, its siblings are taken on    *)
(* the manifest's word.                                                      *)
BindSelected == {}

(* What the binding pass still has to read: the resolver binds the bytes it  *)
(* kept, every sibling is opened anew.                                       *)
ToBind == IF op.mode = "resolve" THEN Artifacts \ {op.selected} ELSE Artifacts

ParentsKnown ==
  /\ IF op.mode = "derive" THEN Derived ELSE Parsed
  /\ EnoughParents
  /\ op.mode = "resolve" => sources[op.selected] = manifest.of[op.selected]
  /\ tries' = Cardinality(Parents)
  /\ todo' = ToBind /\ phase' = "bind"
  /\ UNCHANGED <<files_vars, walk, member, op, root, version, manifest, first, reading,
                 sources, result, changes, trees>>

ParentsFail ==
  \/ /\ phase \in {"sources", "parents"} /\ todo = {} /\ member = NoMember
     /\ ~Parsed \/ (op.mode # "derive" /\ ~EnoughParents)
  \/ Derived /\ ~EnoughParents
  \/ /\ Parsed /\ op.mode = "resolve"
     /\ sources[op.selected] # manifest.of[op.selected]

(* validate_associated_artifact_manifest over lazy descriptor readers. *)
Matches(p) == Content = manifest.of[p] /\ Content \notin Oversize

BindMember ==
  /\ phase = "bind" /\ Readable /\ Matches(reading)
  /\ todo' = todo \ {reading}
  /\ member' = NoMember /\ reading' = None
  /\ UNCHANGED <<files_vars, walk, op, phase, root, version, manifest, first, sources,
                 tries, result, changes, trees>>

Unbound == phase = "bind" /\ ((Readable /\ ~Matches(reading)) \/ OpenFails)

TryNextParent ==
  /\ Unbound /\ tries > 1
  /\ tries' = tries - 1 /\ todo' = ToBind
  /\ member' = NoMember /\ reading' = None
  /\ UNCHANGED <<files_vars, walk, op, phase, root, version, manifest, first, sources,
                 result, changes, trees>>

Bound ==
  /\ phase = "bind" /\ todo = {} /\ member = NoMember
  /\ walk' = WalkFrom(root) /\ phase' = "again"
  /\ UNCHANGED <<files_vars, member, op, root, version, manifest, first, todo, reading,
                 sources, tries, result, changes, trees>>

(* resolve_pack_artifact returns the bytes it bound, and the identity the    *)
(* manifest gives them.                                                      *)
ResultOf(bytes) ==
  [bytes |-> bytes, digest |-> manifest.of[op.selected], version |-> manifest.version]
(* Defect: the verified artifact is opened again to be returned. *)
Reopened == ResultOf(TreeOf(root)[op.selected])

(* The bytes that were bound. *)
Resolved == ResultOf(sources[op.selected])

Return ==
  /\ phase = "again" /\ Walked /\ walk.found = first
  /\ result' = IF op.mode = "resolve" THEN Resolved ELSE manifest
  /\ walk' = NoWalk /\ phase' = "ok"
  /\ UNCHANGED <<files_vars, member, op, root, version, manifest, first, todo, reading,
                 sources, tries, changes, trees>>

--------------------------------------------------------------------------------
WalkOn ==
  /\ WalkStep
  /\ UNCHANGED <<files_vars, member, op_vars, phase, changes, trees>>

OpenOn ==
  /\ OpenStep
  /\ UNCHANGED <<files_vars, walk, op_vars, phase, changes, trees>>

(* Every error is a PackDigestError, and the descriptors are closed. *)
MustFail ==
  \/ phase = "idle" /\ OpenedRoot = Unreachable
  \/ WalkFails
  \/ phase # "bind" /\ (OpenFails \/ ReadOverflows)
  \/ phase = "pack" /\ Readable /\ Content \notin Versions
  \/ /\ phase = "manifest" /\ Readable
     /\ Content \in DOMAIN Manifests => ~IsOfThisPack(Manifests[Content])
  \/ /\ phase = "inventory" /\ Walked
     /\ ~Covers \/ (op.mode = "resolve" /\ ~Selectable)
  \/ ParseByNameFails
  \/ ParentsFail
  \/ Unbound /\ tries <= 1
  \/ phase = "again" /\ Walked /\ walk.found # first

Fail ==
  /\ MustFail
  /\ phase' = "failed" /\ walk' = NoWalk /\ member' = NoMember /\ reading' = None
  /\ todo' = {}
  /\ UNCHANGED <<files_vars, op, root, version, manifest, first, sources, tries, result,
                 changes, trees>>

--------------------------------------------------------------------------------
(* Whoever else has the directory. *)
Unused(f) == f # Secret /\ LinkCount(f) = 0 /\ (member # NoMember => member.held # f)

MayChange == Working /\ changes < MaxChanges

Change ==
  /\ changes' = changes + 1
  /\ UNCHANGED <<walk, member, op_vars, phase>>
  /\ trees' = trees \cup {TreeOf(root)'}

Below(d) == d = Root \/ \E n \in Names : dirs[Root][n] = DirEntry(d)
PackDirs == {d \in Dirs \ {Outside} : Below(d)}
Bind(d, n, entry) == dirs' = [dirs EXCEPT ![d][n] = entry]

(* A save by rename binds the name to a new file. *)
SaveByRename ==
  /\ MayChange /\ \E g \in Files : Unused(g)
  /\ \E d \in PackDirs, n \in Names : \E c \in Saves[<<d, n>>] :
       LET f == CHOOSE g \in Files : Unused(g)
       IN Bind(d, n, FileEntry(f)) /\ files' = [files EXCEPT ![f] = c]
  /\ UNCHANGED rootEntry
  /\ Change

SaveInPlace ==
  /\ MayChange
  /\ \E d \in PackDirs : \E n \in EntriesOf(d) : \E c \in Saves[<<d, n>>] :
       /\ dirs[d][n].kind = "file" /\ dirs[d][n].of # Secret
       /\ files' = [files EXCEPT ![dirs[d][n].of] = c]
  /\ UNCHANGED <<rootEntry, dirs>>
  /\ Change

Replacements == {Absent, Special, LinkToDir(Outside), LinkToFile(Secret),
                 FileEntry(Secret)}

(* A member is removed, becomes a link or a special file, or a hard link to  *)
(* a file elsewhere; a directory becomes a link to one elsewhere.            *)
Replace ==
  /\ MayChange
  /\ \E d \in PackDirs : \E n \in EntriesOf(d) : \E e \in Replacements : Bind(d, n, e)
  /\ UNCHANGED <<rootEntry, files>>
  /\ Change

(* The pack's path comes to name another directory. *)
ReplaceRoot ==
  /\ MayChange
  /\ rootEntry' \in {DirEntry(Outside), LinkToDir(Outside)}
  /\ rootEntry' # rootEntry
  /\ UNCHANGED <<dirs, files>>
  /\ Change

Author == SaveByRename \/ SaveInPlace \/ Replace \/ ReplaceRoot

Reader ==
  \/ Begin \/ ReadPack \/ ReadManifest \/ Inventoried \/ OpenNext \/ ReadPayload
  \/ ReadSource \/ ReadForDerivation \/ ParseByName \/ ParentsParsed \/ ParentsKnown
  \/ BindMember \/ TryNextParent \/ Bound \/ Return \/ WalkOn \/ OpenOn \/ Fail

Next == Reader \/ Author

Spec == Init /\ [][Next]_vars

--------------------------------------------------------------------------------
(* The descriptors held belong to the pack: a walk or a member that is being *)
(* opened never stands in a directory outside, though links to one appear    *)
(* and directories are replaced between the look and the open; and no single *)
(* change brings in a file outside (ADR 0012 71-74).  Two do: a hard link to *)
(* it that is gone again when the opened descriptor is inspected.            *)
NothingOutsideIsOpened ==
  /\ walk # NoWalk => Outside \notin {walk.dir} \cup {walk.stack[i].dir : i \in DOMAIN walk.stack}
  /\ member # NoMember => member.dir # Outside /\ (changes <= 1 => member.file # Secret)

(* The bytes that are returned have the digest they are returned under,      *)
(* whatever happened to the artifact's file meanwhile (ADR 0033: verified    *)
(* and then opened would not do).                                            *)
ResultIsBound ==
  phase = "ok" /\ op.mode = "resolve" => result.bytes = result.digest

(* A tree that is the pack the accepted manifest describes: every member with *)
(* its content, no other member, and the manifest itself.                     *)
Conforms(t) ==
  /\ \A p \in Paths \ {ManifestPath} :
       t[p] = IF p \in Artifacts THEN manifest.of[p] ELSE None
  /\ t[ManifestPath] \in DOMAIN Manifests
  /\ LET stored == Manifests[t[ManifestPath]]
     IN IF op.mode = "derive" THEN DOMAIN stored.of = Artifacts ELSE stored = manifest

(* One change cannot slip between the members: an operation that accepted a  *)
(* manifest while at most one thing changed accepted members that were there *)
(* at one moment, although it read them one by one, a fault before the       *)
(* change included (digest.py 751-775: the two inventories and the binding). *)
(* Of the parent it says less: what the resolver took for it was an SDL      *)
(* member at some moment, another one perhaps, and of the author lanes, who  *)
(* parse by path name, nothing.  The parents are parsed before the payloads  *)
(* are hashed or bound, so one save in between is enough for a manifest over *)
(* an SDL document whose bytes nobody parsed.                                *)
AcceptedTreeExisted ==
  phase = "ok" /\ changes <= 1 =>
    /\ \E t \in trees : Conforms(t)
    /\ op.mode = "resolve" => \E t \in trees, d \in DirectDocs : t[d] = manifest.parent
================================================================================
