------------------------ MODULE ArtifactResolutionProofs ------------------------
(***************************************************************************)
(* What TLAPS proves of ArtifactResolution and of the reads of PackFiles   *)
(* it is made of, for any directories, manifests, saves and changes.       *)
(***************************************************************************)
EXTENDS ArtifactResolution, FiniteSetTheorems, WellFoundedInduction, TLAPS

(* The directories of the pack's side, and what a descriptor may stand on.  *)
Inner == Dirs \ {Outside}
Held == Files \cup {None}
Linked == \E d \in Inner, n \in Names : dirs[d][n] = FileEntry(Secret)

LEMMA NamesFinite == IsFiniteSet(Names)
  <1>1. NameOrder \in Seq(Names) /\ Len(NameOrder) \in Nat
    BY PackFilesAssumption
  <1>2. NameOrder \in Surjection(1 .. Len(NameOrder), Names)
    BY <1>1 DEF Surjection, Names, ToSet
  <1>3. IsFiniteSet(1 .. Len(NameOrder))
    BY <1>1, FS_Interval
  <1> QED BY <1>2, <1>3, FS_Surjection

(* The name that is visited next is one of those left.                      *)
LEMMA LeastIsOne ==
  ASSUME NEW names \in SUBSET Names, names # {}
  PROVE  Least(names) \in names
  <1> DEFINE places == {i \in DOMAIN NameOrder : NameOrder[i] \in names}
  <1>1. NameOrder \in Seq(Names) /\ DOMAIN NameOrder = 1 .. Len(NameOrder)
        /\ Len(NameOrder) \in Nat
    BY PackFilesAssumption
  <1>2. places # {} /\ places \subseteq Nat
    BY <1>1 DEF Names, ToSet
  <1>3. PICK i \in places : \A j \in places : <<j, i>> \notin OpToRel(<, Nat)
    BY <1>2, NatLessThanWellFounded, WFMin
  <1>4. \A j \in 1 .. i - 1 : NameOrder[j] \notin names
    <2> SUFFICES ASSUME NEW j \in 1 .. i - 1, NameOrder[j] \in names PROVE FALSE
      OBVIOUS
    <2>1. j \in places /\ j < i /\ j \in Nat /\ i \in Nat
      BY <1>1, <1>2
    <2>2. <<j, i>> \in OpToRel(<, Nat)
      BY <2>1 DEF OpToRel
    <2> QED BY <1>3, <2>1, <2>2
  <1>5. \E k \in DOMAIN NameOrder :
          NameOrder[k] \in names /\ \A j \in 1 .. k - 1 : NameOrder[j] \notin names
    BY <1>4
  <1> QED BY <1>5 DEF Least

--------------------------------------------------------------------------------
(* What is open belongs to the pack.                                        *)

(* Outside is no directory of the pack, and the secret is bound out there,  *)
(* so that a name for it in the pack is a second link.                      *)
DirsFit ==
  /\ dirs \in [Dirs -> [Names -> Entries]]
  /\ \A d \in Inner, n \in Names : dirs[d][n] # DirEntry(Outside)
  /\ \E n \in Names : dirs[Outside][n] = FileEntry(Secret)

Frames == [dir : Inner, prefix : Seq(Names), left : (SUBSET Names) \ {{}}]

Walks ==
  [step : {"list", "visit", "enter"}, dir : Inner, prefix : Seq(Names), stack : Seq(Frames),
   seen : SUBSET MemberPaths, met : Nat, found : SUBSET MemberPaths]

WalkFit ==
  walk # NoWalk => walk \in Walks /\ (walk.step = "enter" => walk.stack # <<>>)

MemberFit ==
  member # NoMember =>
    /\ member \in [dir : Inner, rest : MemberPaths, held : Held, file : Held]
    /\ member.file \in {None, member.held}

(* An entry that is a file or a directory names it.                         *)
LEMMA EntryForms ==
  ASSUME NEW e \in Entries
  PROVE  /\ e.kind = "file" => e.of \in Files /\ e = FileEntry(e.of)
         /\ e.kind = "dir" => e.of \in Dirs /\ e = DirEntry(e.of)
         /\ e.kind \in {"file", "dir"} => e # Absent
  BY DEF Entries, Absent, Special, DirEntry, FileEntry, LinkToDir, LinkToFile

(* A directory that is opened inside is inside.                             *)
LEMMA OpenDirInside ==
  ASSUME DirsFit, NEW d \in Inner, NEW n \in Names, OpenDir(dirs[d][n]) # Unreachable
  PROVE  OpenDir(dirs[d][n]) \in Inner
  <1>1. dirs[d][n] \in Entries /\ dirs[d][n] # DirEntry(Outside)
    BY DEF DirsFit, Inner
  <1>2. dirs[d][n].kind = "dir"
    BY DEF OpenDir
  <1>3. PICK e \in Dirs : dirs[d][n] = DirEntry(e)
    BY <1>1, <1>2 DEF Entries, Absent, Special, DirEntry, FileEntry, LinkToDir, LinkToFile
  <1> QED BY <1>1, <1>3 DEF OpenDir, DirEntry, Inner

(* Two names for one file are counted.                                      *)
LEMMA LinksCounted ==
  ASSUME NEW f, NEW a \in Dirs \X Names, NEW b \in Dirs \X Names, a # b,
         dirs[a[1]][a[2]] = FileEntry(f), dirs[b[1]][b[2]] = FileEntry(f)
  PROVE  ~(LinkCount(f) <= 1)
  <1> DEFINE links == {x \in Dirs \X Names : dirs[x[1]][x[2]] = FileEntry(f)}
  <1>1. IsFiniteSet(Dirs \X Names)
    BY NamesFinite, PackFilesAssumption, FS_Product
  <1>2. IsFiniteSet(links) /\ Cardinality(links) \in Nat
    BY <1>1, FS_Subset, FS_CardinalityType
  <1>3. IsFiniteSet({a}) /\ Cardinality({a}) = 1
    BY FS_Singleton
  <1>4. IsFiniteSet({a} \cup {b}) /\ Cardinality({a} \cup {b}) = 2
    <2>1. Cardinality({a} \cup {b}) = Cardinality({a}) + 1 /\ IsFiniteSet({a} \cup {b})
      BY <1>3, FS_AddElement, b \notin {a}
    <2> QED BY <1>3, <2>1
  <1>5. Cardinality({a} \cup {b}) <= Cardinality(links)
    <2>1. {a} \cup {b} \in SUBSET links
      OBVIOUS
    <2> QED BY <1>2, <2>1, FS_Subset
  <1>6. LinkCount(f) = Cardinality(links)
    BY DEF LinkCount
  <1> HIDE DEF links
  <1> QED BY <1>2, <1>4, <1>5, <1>6

(* A file outside that has a name inside has two.                           *)
LEMMA LinkedIsRefused ==
  ASSUME DirsFit, Linked
  PROVE  ~Admissible(Secret)
  <1>1. PICK m \in Names : dirs[Outside][m] = FileEntry(Secret)
    BY DEF DirsFit
  <1>2. PICK d \in Inner, n \in Names : dirs[d][n] = FileEntry(Secret)
    BY DEF Linked
  <1>3. <<Outside, m>> \in Dirs \X Names /\ <<d, n>> \in Dirs \X Names
        /\ <<Outside, m>> # <<d, n>>
    BY PackFilesAssumption DEF Inner
  <1> QED BY <1>1, <1>2, <1>3, LinksCounted DEF Admissible

(* The frame at hand, and the name that is visited in it.                   *)
LEMMA AtHand ==
  ASSUME WalkFit, walk # NoWalk, walk.stack # <<>>
  PROVE  /\ Frame \in Frames /\ Visited \in Frame.left /\ Visited \in Names
         /\ VisitedPath \in MemberPaths
         /\ Past \in Seq(Frames)
  <1>1. walk.stack \in Seq(Frames) /\ Len(walk.stack) \in Nat \ {0}
    BY DEF WalkFit, Walks
  <1>2. Frame \in Frames
    BY <1>1 DEF Frame, Last
  <1>3. Visited \in Frame.left /\ Frame.left \subseteq Names
    BY <1>2, LeastIsOne DEF Visited, Frames
  <1>4. VisitedPath \in MemberPaths
    BY <1>2, <1>3 DEF VisitedPath, MemberPaths, Frames
  <1>5. Past \in Seq(Frames)
    <2>1. Front(walk.stack) \in Seq(Frames)
      BY <1>1 DEF Front
    <2> DEFINE rest == [Frame EXCEPT !.left = @ \ {Visited}]
    <2>2. Frame.left # {Visited} => rest \in Frames
      BY <1>2, <1>3 DEF Frames
    <2>3. [walk.stack EXCEPT ![Len(walk.stack)].left = @ \ {Visited}]
            = [walk.stack EXCEPT ![Len(walk.stack)] = rest]
      BY <1>1 DEF Frame, Last
    <2> HIDE DEF rest
    <2>4. Frame.left # {Visited} => [walk.stack EXCEPT ![Len(walk.stack)] = rest] \in Seq(Frames)
      BY <1>1, <2>2
    <2> QED BY <2>1, <2>3, <2>4 DEF Past
  <1> QED BY <1>2, <1>3, <1>4, <1>5

(* A step of the walk opens nothing outside.                                *)
LEMMA WalkStepFits ==
  ASSUME DirsFit, WalkFit, WalkStep
  PROVE  WalkFit'
  <1>0. walk # NoWalk /\ walk \in Walks
    BY DEF WalkStep, ListDirectory, VisitFile, VisitDirectory, EnterDirectory, At, WalkFit
  <1>1. CASE ListDirectory
    <2>1. EntriesOf(walk.dir) \subseteq Names /\ IsFiniteSet(EntriesOf(walk.dir))
      BY NamesFinite, FS_Subset DEF EntriesOf
    <2>2. MetWithListing \in Nat
      BY <1>0, <2>1, FS_CardinalityType DEF MetWithListing, Walks
    <2>3. Listed.left # {} => Listed \in Frames
      BY <1>0, <2>1 DEF Listed, Frames, Walks
    <2>4. (IF Listed.left = {} THEN walk.stack ELSE Append(walk.stack, Listed)) \in Seq(Frames)
      BY <1>0, <2>3 DEF Walks
    <2>5. walk' \in Walks /\ walk'.step = "visit"
      BY <1>0, <1>1, <2>2, <2>4 DEF ListDirectory, Walks
    <2> QED BY <2>5 DEF WalkFit
  <1>2. CASE VisitFile
    <2>1. VisitedPath \in MemberPaths /\ Past \in Seq(Frames)
      BY <1>0, <1>2, AtHand DEF VisitFile
    <2>2. walk' \in Walks /\ walk'.step = "visit"
      BY <1>0, <1>2, <2>1 DEF VisitFile, SeenNow, Walks, At
    <2> QED BY <2>2 DEF WalkFit
  <1>3. CASE VisitDirectory
    <2>1. VisitedPath \in MemberPaths /\ Past \in Seq(Frames)
      BY <1>0, <1>3, AtHand DEF VisitDirectory
    <2>2. walk' \in Walks /\ (walk'.step = "enter" => walk'.stack # <<>>)
      BY <1>0, <1>3, <2>1 DEF VisitDirectory, SeenNow, Walks, At
    <2> QED BY <2>2 DEF WalkFit
  <1>4. CASE EnterDirectory
    <2>1. walk.stack # <<>>
      BY <1>0, <1>4 DEF EnterDirectory, At, WalkFit
    <2>2. VisitedPath \in MemberPaths /\ Past \in Seq(Frames) /\ Visited \in Names
          /\ Frame.dir \in Inner
      BY <1>0, <2>1, AtHand DEF Frames
    <2>3. OpenDir(VisitedEntry) \in Inner
      BY <1>4, <2>2, OpenDirInside DEF EnterDirectory, VisitedEntry
    <2>4. walk' \in Walks /\ walk'.step = "list"
      BY <1>0, <1>4, <2>2, <2>3 DEF EnterDirectory, Walks, MemberPaths
    <2> QED BY <2>4 DEF WalkFit
  <1> QED BY <1>1, <1>2, <1>3, <1>4 DEF WalkStep

LEMMA WalkFromFits ==
  ASSUME NEW d \in Inner
  PROVE  WalkFrom(d) \in Walks /\ WalkFrom(d).step = "list"
  BY DEF WalkFrom, Walks

(* A path with a component is a path of a member.                            *)
LEMMA LongerPaths ==
  ASSUME NEW path \in Seq(Names), Len(path) > 0
  PROVE  path \in MemberPaths
  <1>1. Len(<<>>) = 0
    OBVIOUS
  <1>2. path # <<>>
    BY <1>1
  <1> QED BY <1>2 DEF MemberPaths

(* Nor does the opening of a member.                                        *)
LEMMA OpenStepFits ==
  ASSUME DirsFit, MemberFit, OpenStep
  PROVE  MemberFit'
  <1> DEFINE Members == [dir : Inner, rest : MemberPaths, held : Held, file : Held]
  <1>0. /\ member # NoMember /\ member \in Members /\ Head(member.rest) \in Names
        /\ member.file \in {None, member.held}
    BY DEF OpenStep, OpenComponent, OpenFile, AdmitFile, Opening, Inspecting, MemberFit,
       MemberPaths
  <1>1. CASE OpenComponent
    <2>1. OpenDir(Component) \in Inner
      BY <1>0, <1>1, OpenDirInside DEF OpenComponent, Component
    <2>2. Tail(member.rest) \in MemberPaths
      <3>1. member.rest \in Seq(Names) /\ Len(member.rest) > 1
        BY <1>0, <1>1 DEF OpenComponent, MemberPaths
      <3>2. Tail(member.rest) \in Seq(Names) /\ Len(Tail(member.rest)) > 0
        BY <3>1
      <3> QED BY <3>2, LongerPaths
    <2>3. member' \in Members /\ member'.file \in {None, member'.held}
      BY <1>0, <1>1, <2>1, <2>2 DEF OpenComponent
    <2> QED BY <2>3 DEF MemberFit
  <1>2. CASE OpenFile
    <2>1. Component \in Entries
      BY <1>0 DEF Component, DirsFit, Inner
    <2>2. OpenedFile(Component) \in Held
      BY <2>1, EntryForms DEF OpenedFile, Unreachable, Held
    <2>3. member.held = None /\ member.file = None
      BY <1>0, <1>2 DEF OpenFile, Opening
    <2>4. member' \in Members /\ member'.file \in {None, member'.held}
      BY <1>0, <1>2, <2>2, <2>3 DEF OpenFile
    <2> QED BY <2>4 DEF MemberFit
  <1>3. CASE AdmitFile
    <2>1. member' \in Members /\ member'.file \in {None, member'.held}
      BY <1>0, <1>3 DEF AdmitFile
    <2> QED BY <2>1 DEF MemberFit
  <1> QED BY <1>1, <1>2, <1>3 DEF OpenStep

LEMMA MemberFromFits ==
  ASSUME NEW d \in Inner, NEW p \in MemberPaths
  PROVE  /\ MemberFrom(d, p) \in [dir : Inner, rest : MemberPaths, held : Held, file : Held]
         /\ MemberFrom(d, p).held = None /\ MemberFrom(d, p).file = None
  BY DEF MemberFrom, Held

--------------------------------------------------------------------------------
(* The operation asks only for paths of members below its own root.         *)
Shaped(m) == m = [version |-> m.version, of |-> m.of, parent |-> m.parent]

Phases == {"idle", "pack", "manifest", "inventory", "payload", "sources", "derive",
           "parents", "bind", "again", "ok", "failed"}
Known(after) == phase \in Phases \ ({"idle", "failed"} \cup after)

OpFit ==
  /\ op \in Operations /\ phase \in Phases
  /\ phase = "idle" => rootEntry = DirEntry(Root) /\ walk = NoWalk /\ member = NoMember
  /\ Known({}) => root \in Inner
  /\ first \subseteq MemberPaths /\ todo \subseteq MemberPaths
  /\ Known({"pack", "manifest"}) => Shaped(manifest)
  /\ Known({"pack", "manifest", "inventory"}) => Artifacts \subseteq MemberPaths

InsideInv == DirsFit /\ WalkFit /\ MemberFit /\ OpFit

LEMMA InitInside == Init => InsideInv
  <1> SUFFICES ASSUME Init PROVE InsideInv OBVIOUS
  <1>1. DirsFit
    BY ResolutionAssumption DEF Init, DirsFit, Inner
  <1>2. OpFit
    BY DEF Init, OpFit, Known, Phases
  <1> QED BY <1>1, <1>2 DEF Init, InsideInv, WalkFit, MemberFit

(* Whoever changes the pack binds nothing to what is outside but links and  *)
(* the secret, which then has two names.                                    *)
LEMMA AuthorInside ==
  ASSUME InsideInv, Author
  PROVE  InsideInv'
  <1>0. /\ UNCHANGED <<walk, member, op_vars, phase>>
        /\ phase \notin {"idle", "ok", "failed"}
    BY DEF Author, SaveByRename, SaveInPlace, Replace, ReplaceRoot, Change, MayChange,
           Working, Ended
  <1>1. PackDirs \subseteq Inner
    BY DEF PackDirs, Inner
  <1>2. ASSUME NEW d \in PackDirs, NEW n \in Names, NEW e \in Entries \ {DirEntry(Outside)},
               Bind(d, n, e)
        PROVE  DirsFit'
    <2>1. dirs' \in [Dirs -> [Names -> Entries]]
      BY <1>1, <1>2 DEF Bind, InsideInv, DirsFit, Inner
    <2>2. d \in Dirs /\ d # Outside
      BY <1>1 DEF Inner
    <2>3. \A c \in Inner, m \in Names : dirs'[c][m] # DirEntry(Outside)
      BY <1>2, <2>2 DEF Bind, InsideInv, DirsFit, Inner
    <2>4. dirs'[Outside] = dirs[Outside]
      BY <1>2, <2>2, PackFilesAssumption DEF Bind, InsideInv, DirsFit
    <2> QED BY <2>1, <2>3, <2>4 DEF InsideInv, DirsFit
  <1>3. DirsFit'
    <2>1. CASE SaveByRename
      <3>1. PICK d \in PackDirs, n \in Names, f \in Files : Bind(d, n, FileEntry(f))
        BY <2>1 DEF SaveByRename
      <3>2. FileEntry(f) \in Entries \ {DirEntry(Outside)}
        BY DEF Entries, FileEntry, DirEntry
      <3> QED BY <1>2, <3>1, <3>2
    <2>2. CASE Replace
      <3>1. PICK d \in PackDirs, n \in Names, e \in Replacements : Bind(d, n, e)
        BY <2>2 DEF Replace, EntriesOf
      <3>2. Replacements \subseteq Entries \ {DirEntry(Outside)}
        BY PackFilesAssumption DEF Replacements, Entries, Absent, Special, FileEntry,
           DirEntry, LinkToDir, LinkToFile
      <3> QED BY <1>2, <3>1, <3>2
    <2>3. CASE SaveInPlace \/ ReplaceRoot
      BY <2>3 DEF SaveInPlace, ReplaceRoot, InsideInv, DirsFit
    <2> QED BY <2>1, <2>2, <2>3 DEF Author
  <1>4. WalkFit' /\ MemberFit'
    BY <1>0 DEF InsideInv, WalkFit, MemberFit, NoWalk, NoMember
  <1>5. OpFit'
    BY <1>0 DEF InsideInv, OpFit, Known, op_vars, Artifacts
  <1> QED BY <1>3, <1>4, <1>5 DEF InsideInv

(* A hash that goes into the manifest changes none of its other parts.      *)
LEMMA HashKeepsTheRest ==
  ASSUME Shaped(manifest), NEW p, NEW c, manifest' = [manifest EXCEPT !.of[p] = c]
  PROVE  Shaped(manifest') /\ Artifacts' = Artifacts
  BY DEF Shaped, Artifacts

(* What the reader asks for next.                                           *)
LEMMA ReaderInside ==
  ASSUME InsideInv, Reader
  PROVE  InsideInv'
  <1> USE DEF InsideInv
  <1>0. DirsFit'
    BY DEF Reader, Begin, ReadPack, ReadManifest, Inventoried, OpenNext, ReadPayload,
           ReadSource, ReadForDerivation, ParseByName, ParentsParsed, ParentsKnown, BindMember,
           TryNextParent, Bound, Return, WalkOn, OpenOn, Fail, files_vars, DirsFit
  <1>a. ASSUME UNCHANGED <<walk, member>> PROVE WalkFit' /\ MemberFit'
    BY <1>a DEF WalkFit, MemberFit, NoWalk, NoMember
  <1>b. ASSUME walk' = walk \/ walk' = NoWalk \/ \E d \in Inner : walk' = WalkFrom(d)
        PROVE  WalkFit'
    BY <1>b, WalkFromFits DEF WalkFit, NoWalk
  <1>c. ASSUME \/ member' = member \/ member' = NoMember
               \/ \E d \in Inner, p \in MemberPaths : member' = MemberFrom(d, p)
        PROVE  MemberFit'
    BY <1>c, MemberFromFits DEF MemberFit, NoMember
  <1> USE DEF OpFit, Known, Phases, files_vars
  <1>1. CASE Begin
    <2>1. OpenedRoot = Root /\ Root \in Inner
      BY <1>1, PackFilesAssumption DEF Begin, OpenedRoot, OpenDir, DirEntry, Inner
    <2> QED BY <1>0, <1>1, <1>b, <1>c, <2>1, ResolutionAssumption DEF Begin, Artifacts
  <1>2. CASE ReadPack
    BY <1>0, <1>2, <1>b, <1>c, ResolutionAssumption DEF ReadPack, Gets, Artifacts
  <1>3. CASE ReadManifest
    <2>1. Shaped(manifest')
      BY <1>3, ResolutionAssumption DEF ReadManifest, Gets, Shaped
    <2> QED BY <1>0, <1>3, <1>b, <1>c, <2>1 DEF ReadManifest, Gets, Artifacts
  <1>4. CASE Inventoried
    <2>1. walk.found = Artifacts /\ walk.found \subseteq MemberPaths /\ root \in Inner
      BY <1>4 DEF Inventoried, Covers, Walked, At, WalkFit, Walks
    <2>2. phase' \in {"payload", "parents"}
      BY <1>4 DEF Inventoried
    <2>3. todo' \subseteq MemberPaths
      BY <1>4, <2>1, ResolutionAssumption DEF Inventoried
    <2>4. MemberFit'
      BY <1>4, <1>c, <2>1 DEF Inventoried, Selectable
    <2>5. UNCHANGED <<op, root, manifest, Artifacts>> /\ first' = walk.found /\ Shaped(manifest)
      BY <1>4 DEF Inventoried, Artifacts
    <2> QED BY <1>0, <1>4, <1>b, <2>1, <2>2, <2>3, <2>4, <2>5 DEF Inventoried
  <1>5. CASE OpenNext
    <2>1. MemberFit'
      BY <1>5, <1>c DEF OpenNext, Reading
    <2> QED BY <1>0, <1>5, <1>b, <2>1 DEF OpenNext, Reading, Artifacts
  <1>6. CASE ReadPayload
    BY <1>0, <1>6, <1>b, <1>c DEF ReadPayload, Artifacts
  <1>7. CASE ReadSource
    BY <1>0, <1>7, <1>b, <1>c DEF ReadSource, GotMember, Artifacts
  <1>8. CASE ReadForDerivation
    <2>1. Shaped(manifest)
      BY <1>8 DEF ReadForDerivation
    <2>2. Shaped(manifest') /\ Artifacts' = Artifacts
      BY <1>8, <2>1, HashKeepsTheRest DEF ReadForDerivation
    <2> QED BY <1>0, <1>8, <1>b, <1>c, <2>2 DEF ReadForDerivation, GotMember
  <1>9. CASE ParseByName
    BY <1>0, <1>9, <1>a DEF ParseByName, Artifacts
  <1>10. CASE ParentsParsed \/ ParentsKnown
    <2>1. phase \in {"sources", "parents", "derive"}
      BY <1>10 DEF ParentsParsed, ParentsKnown, Parsed, Derived
    <2>2. ToBind \subseteq MemberPaths /\ Artifacts \subseteq MemberPaths
      BY <2>1 DEF ToBind
    <2> QED BY <1>0, <1>10, <1>a, <2>1, <2>2 DEF ParentsParsed, ParentsKnown, Artifacts
  <1>11. CASE BindMember
    BY <1>0, <1>11, <1>b, <1>c DEF BindMember, Artifacts
  <1>12. CASE TryNextParent
    <2>1. ToBind \subseteq MemberPaths
      BY <1>12 DEF TryNextParent, Unbound, ToBind
    <2> QED BY <1>0, <1>12, <1>b, <1>c, <2>1 DEF TryNextParent, Artifacts
  <1>13. CASE Bound
    BY <1>0, <1>13, <1>b, <1>c DEF Bound, Artifacts
  <1>14. CASE Return
    BY <1>0, <1>14, <1>b, <1>c DEF Return, Artifacts
  <1>15. CASE WalkOn
    <2>1. walk # NoWalk
      BY <1>15 DEF WalkOn, WalkStep, ListDirectory, VisitFile, VisitDirectory, EnterDirectory,
         At
    <2> QED BY <1>0, <1>15, <1>c, <2>1, WalkStepFits DEF WalkOn, op_vars, Artifacts
  <1>16. CASE OpenOn
    <2>1. member # NoMember
      BY <1>16 DEF OpenOn, OpenStep, OpenComponent, OpenFile, AdmitFile, Opening, Inspecting
    <2> QED BY <1>0, <1>16, <1>b, <2>1, OpenStepFits DEF OpenOn, op_vars, Artifacts
  <1>17. CASE Fail
    BY <1>0, <1>17, <1>b, <1>c DEF Fail
  <1> QED BY <1>1, <1>2, <1>3, <1>4, <1>5, <1>6, <1>7, <1>8, <1>9, <1>10, <1>11, <1>12,
             <1>13, <1>14, <1>15, <1>16, <1>17 DEF Reader

LEMMA InsideStep == InsideInv /\ [Next]_vars => InsideInv'
  <1> SUFFICES ASSUME InsideInv, [Next]_vars PROVE InsideInv' OBVIOUS
  <1>1. CASE UNCHANGED vars
    BY <1>1 DEF vars, InsideInv, DirsFit, WalkFit, MemberFit, NoWalk, NoMember, OpFit, Known,
       Artifacts
  <1> QED BY <1>1, ReaderInside, AuthorInside DEF Next

(* A file outside is opened only by a hard link to it in the pack, which    *)
(* takes a change, and admitted only without one, which takes another.      *)
SecretInv ==
  /\ changes \in Nat
  /\ changes = 0 => ~Linked
  /\ member # NoMember /\ member.held = Secret => changes >= 1 /\ (changes = 1 => Linked)
  /\ member # NoMember /\ member.file = Secret => changes >= 2

LEMMA InitSecret == Init => SecretInv
  <1> SUFFICES ASSUME Init PROVE SecretInv OBVIOUS
  <1>1. ~Linked
    BY ResolutionAssumption DEF Init, Linked, Inner
  <1> QED BY <1>1 DEF Init, SecretInv

LEMMA ReaderSecret ==
  ASSUME InsideInv, SecretInv, Reader
  PROVE  SecretInv'
  <1>1. UNCHANGED <<dirs, changes>>
    BY DEF Reader, Begin, ReadPack, ReadManifest, Inventoried, OpenNext, ReadPayload,
           ReadSource, ReadForDerivation, ParseByName, ParentsParsed, ParentsKnown, BindMember,
           TryNextParent, Bound, Return, WalkOn, OpenOn, Fail, files_vars
  <1>2. Linked' <=> Linked
    BY <1>1 DEF Linked
  <1>3. CASE member' = member \/ member' = NoMember
    BY <1>1, <1>2, <1>3 DEF SecretInv, NoMember
  <1>4. CASE \E d, p : member' = MemberFrom(d, p)
    <2>1. member'.held # Secret /\ member'.file # Secret
      BY <1>4, PackFilesAssumption DEF MemberFrom
    <2> QED BY <1>1, <1>2, <2>1 DEF SecretInv
  <1>5. CASE OpenStep
    <2>0. member # NoMember /\ DirsFit
          /\ member \in [dir : Inner, rest : MemberPaths, held : Held, file : Held]
      BY <1>5 DEF OpenStep, OpenComponent, OpenFile, AdmitFile, Opening, Inspecting,
         InsideInv, MemberFit
    <2>1. CASE OpenComponent
      <3>1. UNCHANGED <<member.held, member.file>>
        BY <2>0, <2>1 DEF OpenComponent
      <3> QED BY <1>1, <1>2, <2>0, <3>1 DEF SecretInv
    <2>2. CASE OpenFile
      <3>1. /\ member'.held = OpenedFile(Component) /\ member'.file = member.file
            /\ OpenedFile(Component) # Unreachable
        BY <2>0, <2>2 DEF OpenFile
      <3>2. Head(member.rest) \in Names /\ member.dir \in Inner
        BY <2>0 DEF MemberPaths
      <3>3. Component.kind = "file" /\ Component \in Entries
        BY <2>0, <3>1, <3>2 DEF OpenedFile, Component, DirsFit, Inner
      <3>4. Component = FileEntry(member'.held)
        BY <3>1, <3>3, EntryForms DEF OpenedFile
      <3>5. member'.held = Secret => Linked
        BY <3>2, <3>4 DEF Linked, Component
      <3> QED BY <1>1, <1>2, <2>0, <3>1, <3>5 DEF SecretInv
    <2>3. CASE AdmitFile
      <3>1. member'.held = member.held /\ member'.file = member.held /\ Admissible(member.held)
        BY <2>0, <2>3 DEF AdmitFile
      <3>2. member.held = Secret => ~Linked
        BY <2>0, <3>1, LinkedIsRefused
      <3> QED BY <1>1, <1>2, <2>0, <3>1, <3>2 DEF SecretInv
    <2> QED BY <1>5, <2>1, <2>2, <2>3 DEF OpenStep
  <1>6. \/ member' = member \/ member' = NoMember \/ OpenStep
        \/ \E d, p : member' = MemberFrom(d, p)
    <2>1. CASE Begin \/ ReadPack \/ ReadManifest \/ Inventoried \/ OpenNext
      BY <2>1 DEF Begin, ReadPack, ReadManifest, Inventoried, OpenNext
    <2>2. CASE ReadPayload \/ ReadSource \/ ReadForDerivation \/ BindMember \/ TryNextParent
      BY <2>2 DEF ReadPayload, ReadSource, ReadForDerivation, GotMember, BindMember,
         TryNextParent
    <2>3. CASE ParseByName \/ ParentsParsed \/ ParentsKnown \/ Bound \/ Return \/ WalkOn
               \/ OpenOn \/ Fail
      BY <2>3 DEF ParseByName, ParentsParsed, ParentsKnown, Bound, Return, WalkOn, OpenOn, Fail
    <2> QED BY <2>1, <2>2, <2>3 DEF Reader
  <1> QED BY <1>3, <1>4, <1>5, <1>6

LEMMA SecretStep == InsideInv /\ SecretInv /\ [Next]_vars => SecretInv'
  <1> SUFFICES ASSUME InsideInv, SecretInv, [Next]_vars PROVE SecretInv' OBVIOUS
  <1>1. CASE Author
    <2>1. changes' = changes + 1 /\ UNCHANGED member
      BY <1>1 DEF Author, SaveByRename, SaveInPlace, Replace, ReplaceRoot, Change
    <2> QED BY <2>1 DEF SecretInv, NoMember
  <1>2. CASE UNCHANGED vars
    <2>1. Linked' <=> Linked
      BY <1>2 DEF vars, Linked
    <2> QED BY <1>2, <2>1 DEF vars, SecretInv, NoMember
  <1> QED BY <1>1, <1>2, ReaderSecret DEF Next

(* No walk and no member that is opened ever stands in a directory outside  *)
(* the pack, and no single change brings in a file outside.                 *)
THEOREM NothingOutsideIsEverOpened == Spec => []NothingOutsideIsOpened
  <1>1. InsideInv /\ SecretInv => NothingOutsideIsOpened
    <2> SUFFICES ASSUME InsideInv, SecretInv PROVE NothingOutsideIsOpened OBVIOUS
    <2>1. ASSUME walk # NoWalk
          PROVE  Outside \notin {walk.dir} \cup {walk.stack[i].dir : i \in DOMAIN walk.stack}
      <3>1. walk.dir \in Inner /\ walk.stack \in Seq(Frames)
        BY <2>1 DEF InsideInv, WalkFit, Walks
      <3>2. \A i \in DOMAIN walk.stack : walk.stack[i] \in Frames
        BY <3>1
      <3> QED BY <3>1, <3>2 DEF Frames, Inner
    <2>2. ASSUME member # NoMember PROVE member.dir # Outside
      BY <2>2 DEF InsideInv, MemberFit, Inner
    <2>3. ASSUME member # NoMember, changes <= 1 PROVE member.file # Secret
      BY <2>3 DEF SecretInv
    <2> QED BY <2>1, <2>2, <2>3 DEF NothingOutsideIsOpened
  <1> QED BY <1>1, InitInside, InsideStep, InitSecret, SecretStep, PTL DEF Spec

--------------------------------------------------------------------------------
(* The bytes that are returned are those that were compared.                *)
BoundInv ==
  op.mode = "resolve" =>
    /\ phase \in {"bind", "again", "ok"} => sources[op.selected] = manifest.of[op.selected]
    /\ phase = "ok" => result = Resolved

LEMMA BoundStep == BoundInv /\ [Next]_vars => BoundInv'
  <1> SUFFICES ASSUME BoundInv, [Next]_vars PROVE BoundInv' OBVIOUS
  <1>0. UNCHANGED op
    BY DEF Next, Reader, Begin, ReadPack, ReadManifest, Inventoried, OpenNext, ReadPayload,
           ReadSource, ReadForDerivation, ParseByName, ParentsParsed, ParentsKnown, BindMember,
           TryNextParent, Bound, Return, WalkOn, OpenOn, Fail, Author, SaveByRename,
           SaveInPlace, Replace, ReplaceRoot, Change, op_vars, vars
  <1> USE <1>0 DEF BoundInv
  <1>1. CASE phase' \notin {"bind", "again", "ok"}
    BY <1>1
  <1>2. CASE ParentsKnown
    BY <1>2 DEF ParentsKnown
  <1>3. CASE Return
    BY <1>3 DEF Return, Resolved, ResultOf
  <1>4. CASE OpenNext \/ BindMember \/ TryNextParent \/ Bound
    BY <1>4 DEF OpenNext, Reading, BindMember, TryNextParent, Unbound, Bound
  <1>5. CASE WalkOn \/ OpenOn \/ Author \/ UNCHANGED vars
    BY <1>5 DEF WalkOn, OpenOn, Author, SaveByRename, SaveInPlace, Replace, ReplaceRoot,
       Change, op_vars, vars, Resolved, ResultOf
  <1>6. CASE Begin \/ ReadPack \/ ReadManifest \/ Inventoried \/ ReadPayload \/ ReadSource
               \/ ReadForDerivation \/ ParseByName \/ ParentsParsed \/ Fail
    BY <1>1, <1>6
       DEF Begin, ReadPack, ReadManifest, Inventoried, ReadPayload, ReadSource,
           ReadForDerivation, ParseByName, ParentsParsed, Fail
  <1> QED BY <1>2, <1>3, <1>4, <1>5, <1>6 DEF Next, Reader

(* Whatever happens to its file meanwhile, an artifact is returned as the   *)
(* bytes that have the digest it is returned under.                         *)
THEOREM ResultsAreBound == Spec => []ResultIsBound
  <1>1. Init => BoundInv
    BY DEF Init, BoundInv
  <1>2. BoundInv => ResultIsBound
    BY DEF BoundInv, ResultIsBound, Resolved, ResultOf
  <1> QED BY <1>1, <1>2, BoundStep, PTL DEF Spec
--------------------------------------------------------------------------------
(* What the opened tree was when at most one change happened to it.         *)
Now == TreeOf(Root)
WasDir(a) == InitialDirs[Root][a].kind = "dir"
DirThen(a) == InitialDirs[Root][a].of
EntryThen(path) ==
  LET top == InitialDirs[Root][path[1]]
  IN IF Len(path) = 1 THEN top
     ELSE IF top.kind = "dir" THEN InitialDirs[top.of][path[2]] ELSE Absent

(* A moment at which a member had this content.                             *)
Tells(path, content) == content # None /\ \E t \in trees : t[path] = content

(* What one change can do: another content for all names of a file, another *)
(* member, or a directory that is gone.                                     *)
OneFile(t) ==
  dirs = InitialDirs
    /\ \E f \in Files : \A p \in Paths : EntryThen(p) # FileEntry(f) => t[p] = Now[p]
OnePath(t) == \E q \in MemberPaths : \A p \in Paths \ {q} : t[p] = Now[p]
OneDirectory(t) ==
  \E a \in Names : /\ WasDir(a) /\ dirs[Root][a].kind # "dir"
                   /\ dirs[DirThen(a)] = InitialDirs[DirThen(a)]
                   /\ \A p \in Paths : p[1] # a => t[p] = Now[p]

HadFiles(t) == \A p \in Paths : t[p] # None <=> EntryThen(p).kind = "file"
OneTree == dirs = InitialDirs /\ trees = {Now}
TwoTrees ==
  \E t : trees = {t, Now} /\ HadFiles(t) /\ (OneFile(t) \/ OnePath(t) \/ OneDirectory(t))

(* A directory that was opened still leads to contents of some moment.      *)
LostTells ==
  \A a, x \in Names, f \in Files :
    WasDir(a) /\ <<a, x>> \in Paths /\ dirs[DirThen(a)][x] = FileEntry(f)
      => Tells(<<a, x>>, files[f])

ContentsFit == files = [f \in Files |-> files[f]] /\ \A f \in Files : files[f] # None
NoNewDirectory ==
  \A d \in Dirs, n \in Names : dirs[d][n].kind = "dir" => dirs[d][n] = InitialDirs[d][n]

History ==
  /\ ContentsFit /\ NoNewDirectory
  /\ phase = "idle" => changes = 0 /\ dirs = InitialDirs
  /\ Known({}) => /\ root = Root
                  /\ changes = 0 => OneTree
                  /\ changes = 1 => TwoTrees
                  /\ LostTells

--------------------------------------------------------------------------------
(* What a walk has yet to visit, and what it found of the rest.             *)
TopWaiting ==
  {a \in Names :
    \/ walk.step = "list" /\ walk.prefix = <<>>
    \/ walk.stack # <<>> /\ walk.stack[1].prefix = <<>> /\ a \in walk.stack[1].left}
SubWaiting ==
  {b \in Names \X Names :
    \/ b[1] \in TopWaiting
    \/ walk.step = "list" /\ walk.prefix = <<b[1]>>
    \/ \E i \in DOMAIN walk.stack :
         walk.stack[i].prefix = <<b[1]>> /\ b[2] \in walk.stack[i].left}

(* A directory was listed as it was at first, or met after it was gone.     *)
SeenThere(a, found, sub) ==
  /\ <<a>> # ManifestPath /\ <<a>> \notin found
  /\ \A x \in Names :
       /\ <<a, x>> \in Paths \ sub
       /\ InitialDirs[DirThen(a)][x].kind = "file" /\ dirs[DirThen(a)][x].kind = "file"
       => <<a, x>> \in found
SeenGone(a, found) ==
  /\ dirs[Root][a].kind # "dir"
  /\ \A x \in Names : <<a, x>> \notin found
  /\ dirs[Root][a].kind = "file" /\ <<a>> # ManifestPath => <<a>> \in found
SeenFile(a, found) ==
  /\ InitialDirs[Root][a].kind = "file" /\ dirs[Root][a].kind = "file"
  /\ <<a>> # ManifestPath
  => <<a>> \in found
SingleLinks(found) ==
  dirs = InitialDirs => \A p \in found \cap Paths :
    EntryThen(p).kind = "file" /\ LinkCount(EntryThen(p).of) <= 1
Told(found, top, sub) ==
  /\ \A a \in Names \ top :
       SeenFile(a, found) /\ (WasDir(a) => SeenThere(a, found, sub) \/ SeenGone(a, found))
  /\ SingleLinks(found)

StandsAt(dir, prefix) ==
  /\ prefix = <<>> => dir = Root
  /\ \A a \in Names : prefix = <<a>> =>
       /\ InitialDirs[Root][a] = DirEntry(dir)
       /\ a \notin TopWaiting /\ SeenThere(a, walk.found, SubWaiting)

(* The pack's directory is listed first, and stays at the bottom.           *)
RootFirst ==
  /\ walk.step = "list" /\ walk.prefix = <<>> => walk.stack = <<>> /\ walk.found = {}
  /\ walk.step = "list" /\ walk.stack # <<>> => walk.prefix # <<>>
  /\ \A i \in DOMAIN walk.stack : i # 1 => walk.stack[i].prefix # <<>>
Standing ==
  /\ StandsAt(walk.dir, walk.prefix)
  /\ \A i \in DOMAIN walk.stack : StandsAt(walk.stack[i].dir, walk.stack[i].prefix)
Unseen(a) == <<a>> \notin walk.found /\ \A x \in Names : <<a, x>> \notin walk.found

WalkTells ==
  phase = "inventory" =>
    /\ RootFirst /\ Standing
    /\ \A a \in TopWaiting : Unseen(a)
    /\ Told(walk.found, TopWaiting, SubWaiting)
FirstTells ==
  Known({"pack", "manifest", "inventory"}) => first = Artifacts /\ Told(first, {}, {})

--------------------------------------------------------------------------------
(* What a member that is opened or was read tells.                          *)
Below1(path) ==
  \E a, x \in Names : /\ path = <<a, x>> /\ member.rest = <<x>>
                      /\ InitialDirs[Root][a] = DirEntry(member.dir)
ReadingTells ==
  Known({}) /\ member # NoMember /\ reading \in Paths =>
    /\ (member.dir = Root /\ member.rest = reading) \/ Below1(reading)
    /\ member.held # None =>
         /\ Tells(reading, files[member.held])
         /\ changes = 0 => EntryThen(reading) = FileEntry(member.held)
ManifestTells ==
  Known({"pack", "manifest"}) =>
    \E t \in trees : /\ t[ManifestPath] # None /\ t[ManifestPath] \in DOMAIN Manifests
                     /\ DOMAIN Manifests[t[ManifestPath]].of = Artifacts
                     /\ op.mode # "derive" => Manifests[t[ManifestPath]] = manifest
ArtifactsTell ==
  /\ phase = "manifest" => reading = ManifestPath
  /\ phase = "payload" => reading = op.selected
  /\ op.mode = "resolve" /\ phase \in {"sources", "bind"} =>
       /\ op.selected \in DOMAIN sources
       /\ \A p \in DOMAIN sources \cap Paths : Tells(p, sources[p])
  /\ op.mode = "resolve" /\ phase = "sources" =>
       SdlMembers \cap first \subseteq DOMAIN sources \cup todo
  /\ op.mode = "resolve" /\ phase \in {"bind", "again", "ok"} =>
       \E p \in DirectDocs : Tells(p, manifest.parent)
  /\ phase = "bind" => \A p \in (Artifacts \cap Paths) \ todo : Tells(p, manifest.of[p])
  /\ phase \in {"again", "ok"} => \A p \in Artifacts \cap Paths : Tells(p, manifest.of[p])
  /\ phase = "parents" => op.mode # "resolve"
  /\ phase = "derive" => op.mode = "derive"

OneChange ==
  /\ History /\ WalkTells /\ FirstTells
  /\ ReadingTells /\ ManifestTells /\ ArtifactsTell
TreeInv == InsideInv /\ BoundInv /\ changes \in Nat /\ (changes <= 1 => OneChange)

--------------------------------------------------------------------------------
(* One change, and the two trees it leaves.                                 *)
LEMMA PathForms ==
  ASSUME NEW p \in Paths
  PROVE  (\E a \in Names : p = <<a>>) \/ (\E a, x \in Names : p = <<a, x>>)
  BY LayoutAssumption

(* What a path of one or two names leads to, now and at first.              *)
LEMMA EntriesAt ==
  ASSUME NEW a \in Names, NEW x \in Names
  PROVE  /\ EntryAt(Root, <<a>>) = dirs[Root][a]
         /\ dirs[Root][a].kind = "dir" =>
              EntryAt(Root, <<a, x>>) = dirs[dirs[Root][a].of][x]
         /\ dirs[Root][a].kind # "dir" => EntryAt(Root, <<a, x>>) = Absent
  BY DEF EntryAt

LEMMA EntriesThen ==
  ASSUME NEW a \in Names, NEW x \in Names
  PROVE  /\ EntryThen(<<a>>) = InitialDirs[Root][a]
         /\ WasDir(a) => EntryThen(<<a, x>>) = InitialDirs[DirThen(a)][x]
         /\ ~WasDir(a) => EntryThen(<<a, x>>) = Absent
  BY DEF EntryThen, WasDir, DirThen

(* The directories of the pack lie inside, and are not the root.            *)
LEMMA InitialForms ==
  /\ \A d \in Dirs, n \in Names : InitialDirs[d][n] \in Entries
  /\ \A a \in Names : WasDir(a) =>
       /\ DirThen(a) \in Inner /\ DirThen(a) # Root
       /\ InitialDirs[Root][a] = DirEntry(DirThen(a))
  <1>1. \A d \in Dirs, n \in Names : InitialDirs[d][n] \in Entries
    BY ResolutionAssumption
  <1>2. ASSUME NEW a \in Names, WasDir(a)
        PROVE  /\ DirThen(a) \in Inner /\ DirThen(a) # Root
               /\ InitialDirs[Root][a] = DirEntry(DirThen(a))
    <2>1. Root \in Dirs \ {Outside}
      BY PackFilesAssumption
    <2>2. DirThen(a) \in Dirs /\ InitialDirs[Root][a] = DirEntry(DirThen(a))
      BY <1>1, <1>2, <2>1, EntryForms DEF WasDir, DirThen
    <2>3. InitialDirs[Root][a] # DirEntry(Outside)
      BY <2>1, ResolutionAssumption
    <2> QED BY <2>2, <2>3, LayoutAssumption DEF Inner
  <1> QED BY <1>1, <1>2

(* A member path that leads to a file leads over a name bound to it.        *)
LEMMA EntryBound ==
  ASSUME DirsFit, NoNewDirectory, NEW p \in Paths, EntryAt(Root, p).kind = "file"
  PROVE  /\ EntryAt(Root, p).of \in Files
         /\ EntryAt(Root, p) = FileEntry(EntryAt(Root, p).of)
         /\ \E c \in Dirs, m \in Names : dirs[c][m] = EntryAt(Root, p)
  <1>0. Root \in Dirs
    BY PackFilesAssumption
  <1>1. ASSUME NEW a \in Names, p = <<a>>
        PROVE  \E c \in Dirs, m \in Names : EntryAt(Root, p) = dirs[c][m]
    BY <1>0, <1>1, EntriesAt
  <1>2. ASSUME NEW a \in Names, NEW x \in Names, p = <<a, x>>
        PROVE  \E c \in Dirs, m \in Names : EntryAt(Root, p) = dirs[c][m]
    <2>1. dirs[Root][a].kind = "dir"
      BY <1>2 DEF EntryAt, Absent
    <2>2. dirs[Root][a].of \in Dirs
      BY <1>0, <2>1, EntryForms DEF DirsFit
    <2> QED BY <1>2, <2>1, <2>2, EntriesAt
  <1>3. PICK c \in Dirs, m \in Names : EntryAt(Root, p) = dirs[c][m]
    BY <1>1, <1>2, PathForms
  <1> QED BY <1>3, EntryForms DEF DirsFit

(* A file without links is bound nowhere.                                   *)
LEMMA UnusedIsUnbound ==
  ASSUME NEW f, LinkCount(f) = 0, NEW d \in Dirs, NEW n \in Names
  PROVE  dirs[d][n] # FileEntry(f)
  <1> DEFINE links == {b \in Dirs \X Names : dirs[b[1]][b[2]] = FileEntry(f)}
  <1>1. IsFiniteSet(Dirs \X Names)
    BY NamesFinite, PackFilesAssumption, FS_Product
  <1>2. IsFiniteSet(links)
    BY <1>1, FS_Subset
  <1>3. links = {}
    BY <1>2, FS_EmptySet DEF LinkCount
  <1>4. <<d, n>> \in Dirs \X Names
    OBVIOUS
  <1> QED BY <1>3, <1>4

(* Contents of files that have a name are left alone, or nothing else is.   *)
Untouched == \A f \in Files : files'[f] = files[f] \/ LinkCount(f) = 0

(* A path that leads where it led has the content it had.                   *)
LEMMA SameEntry ==
  ASSUME DirsFit, NoNewDirectory, Untouched, NEW p \in Paths, EntryAt(Root, p)' = EntryAt(Root, p)
  PROVE  Now'[p] = Now[p]
  <1>1. /\ Now[p] = IF EntryAt(Root, p).kind = "file" THEN files[EntryAt(Root, p).of] ELSE None
        /\ Now'[p] = IF EntryAt(Root, p)'.kind = "file" THEN files'[EntryAt(Root, p)'.of] ELSE None
    BY DEF Now, TreeOf
  <1>2. CASE EntryAt(Root, p).kind # "file"
    BY <1>1, <1>2
  <1>3. CASE EntryAt(Root, p).kind = "file"
    <2> DEFINE f == EntryAt(Root, p).of
    <2>1. f \in Files /\ \E c \in Dirs, m \in Names : dirs[c][m] = FileEntry(f)
      BY <1>3, EntryBound
    <2>2. files'[f] = files[f]
      BY <2>1, UnusedIsUnbound DEF Untouched
    <2> QED BY <1>1, <1>3, <2>2
  <1> QED BY <1>2, <1>3

(* Binding one name changes one path, or all below one directory.           *)
LEMMA BindLeavesOne ==
  ASSUME InsideInv, NoNewDirectory, dirs = InitialDirs, Untouched,
         NEW d \in PackDirs, NEW n \in Names, NEW e \in Entries, e.kind # "dir", Bind(d, n, e),
         NEW t, t = Now
  PROVE  OnePath(t)' \/ OneDirectory(t)'
  <1>0. Root \in Dirs /\ d \in Dirs /\ DirsFit
    BY PackFilesAssumption DEF PackDirs, InsideInv
  <1>1. /\ dirs'[d][n] = e
        /\ \A c \in Dirs, m \in Names : c # d \/ m # n => dirs'[c][m] = dirs[c][m]
    BY <1>0 DEF Bind, DirsFit
  <1>2. ASSUME NEW p \in Paths, EntryAt(Root, p)' = EntryAt(Root, p) PROVE t[p] = Now'[p]
    BY <1>0, <1>2, SameEntry
  <1>4. \A a \in Names : dirs[Root][a].kind = "dir" =>
          dirs[Root][a].of \in Dirs \ {Root} /\ dirs[Root][a] = DirEntry(dirs[Root][a].of)
    BY InitialForms DEF WasDir, DirThen, Inner
  <1>5. CASE d = Root
    <2>1. ASSUME NEW a \in Names, a # n
          PROVE  /\ EntryAt(Root, <<a>>)' = EntryAt(Root, <<a>>)
                 /\ \A x \in Names : EntryAt(Root, <<a, x>>)' = EntryAt(Root, <<a, x>>)
      <3>1. dirs'[Root][a] = dirs[Root][a]
        BY <1>0, <1>1, <2>1
      <3>2. ASSUME NEW x \in Names, dirs[Root][a].kind = "dir"
            PROVE  dirs'[dirs[Root][a].of][x] = dirs[dirs[Root][a].of][x]
        BY <1>1, <1>4, <1>5, <3>2
      <3> QED BY <3>1, <3>2 DEF EntryAt
    <2>2. CASE dirs[Root][n].kind = "dir"
      <3>1. \A p \in Paths : p[1] # n => t[p] = Now'[p]
        <4> SUFFICES ASSUME NEW p \in Paths, p[1] # n PROVE EntryAt(Root, p)' = EntryAt(Root, p)
          BY <1>2
        <4>1. ASSUME NEW a \in Names, p = <<a>> PROVE EntryAt(Root, p)' = EntryAt(Root, p)
          BY <2>1, <4>1
        <4>2. ASSUME NEW a \in Names, NEW x \in Names, p = <<a, x>>
              PROVE  EntryAt(Root, p)' = EntryAt(Root, p)
          BY <2>1, <4>2
        <4> QED BY <4>1, <4>2, PathForms
      <3>2. WasDir(n) /\ DirThen(n) # d
        BY <1>5, <2>2, InitialForms DEF WasDir
      <3>3. dirs'[DirThen(n)] = dirs[DirThen(n)]
        BY <1>0, <3>2 DEF Bind, DirsFit
      <3> QED BY <1>1, <1>5, <3>1, <3>2, <3>3 DEF OneDirectory, WasDir, DirThen
    <2>3. CASE dirs[Root][n].kind # "dir"
      <3>1. \A x \in Names : EntryAt(Root, <<n, x>>)' = EntryAt(Root, <<n, x>>)
        BY <1>1, <1>5, <2>3 DEF EntryAt
      <3>2. \A p \in Paths \ {<<n>>} : t[p] = Now'[p]
        BY <1>2, <2>1, <3>1, PathForms
      <3>3. <<n>> \in MemberPaths
        BY DEF MemberPaths
      <3> QED BY <3>2, <3>3 DEF OnePath
    <2> QED BY <2>2, <2>3
  <1>6. CASE d # Root
    <2>1. PICK b \in Names : dirs[Root][b] = DirEntry(d)
      BY <1>6 DEF PackDirs, Below
    <2>2. \A a \in Names : dirs'[Root][a] = dirs[Root][a]
      BY <1>0, <1>1, <1>6
    <2>3. \A a \in Names : dirs[Root][a] = DirEntry(d) => a = b
      BY <1>0, <2>1, LayoutAssumption
    <2>4. ASSUME NEW a \in Names, NEW x \in Names, <<a, x>> # <<b, n>>
          PROVE  EntryAt(Root, <<a, x>>)' = EntryAt(Root, <<a, x>>)
      <3>1. CASE dirs[Root][a].kind # "dir"
        BY <2>2, <3>1 DEF EntryAt
      <3>2. CASE dirs[Root][a].kind = "dir"
        <4>1. dirs[Root][a].of # d \/ x # n
          BY <1>4, <2>3, <2>4, <3>2
        <4>2. dirs'[dirs[Root][a].of][x] = dirs[dirs[Root][a].of][x]
          BY <1>1, <1>4, <3>2, <4>1
        <4> QED BY <2>2, <3>2, <4>2 DEF EntryAt
      <3> QED BY <3>1, <3>2
    <2>5. \A p \in Paths \ {<<b, n>>} : t[p] = Now'[p]
      <3> SUFFICES ASSUME NEW p \in Paths, p # <<b, n>> PROVE EntryAt(Root, p)' = EntryAt(Root, p)
        BY <1>2
      <3>1. \A a \in Names : EntryAt(Root, <<a>>)' = EntryAt(Root, <<a>>)
        BY <2>2 DEF EntryAt
      <3> QED BY <2>4, <3>1, PathForms
    <2>6. <<b, n>> \in MemberPaths
      BY DEF MemberPaths
    <2> QED BY <2>5, <2>6 DEF OnePath
  <1> QED BY <1>5, <1>6

(* A tree has a content exactly where a path leads to a file.               *)
LEMMA NowHas ==
  ASSUME DirsFit, NoNewDirectory, ContentsFit, NEW p \in Paths
  PROVE  /\ Now[p] # None <=> EntryAt(Root, p).kind = "file"
         /\ \A f \in Files : EntryAt(Root, p) = FileEntry(f) => Now[p] = files[f]
  <1>1. Now[p] = IF EntryAt(Root, p).kind = "file" THEN files[EntryAt(Root, p).of] ELSE None
    BY DEF Now, TreeOf
  <1>2. EntryAt(Root, p).kind = "file" => EntryAt(Root, p).of \in Files
    BY EntryBound
  <1> QED BY <1>1, <1>2 DEF ContentsFit, FileEntry

(* Before anything changes, a path leads where it led at first.             *)
LEMMA AtIsThen ==
  ASSUME dirs = InitialDirs, NEW p \in Paths
  PROVE  EntryAt(Root, p) = EntryThen(p)
  BY DEF EntryAt, EntryThen

(* What somebody does to the pack between two steps of the reader.          *)
HeldStays ==
  member # NoMember /\ member.held \in Files => files'[member.held] = files[member.held]
Binds ==
  /\ \E d \in PackDirs, n \in Names, e \in Entries : e.kind # "dir" /\ Bind(d, n, e)
  /\ Untouched /\ HeldStays
Rewrites ==
  UNCHANGED dirs
    /\ \E f \in Files : \E c : c # None /\ files' = [files EXCEPT ![f] = c]

(* The author binds a name, rewrites a file, or touches no member.          *)
LEMMA AuthorForms ==
  ASSUME InsideInv, ContentsFit, Author
  PROVE  /\ UNCHANGED <<walk, member, op_vars, phase>>
         /\ changes' = changes + 1 /\ trees' = trees \cup {TreeOf(root)'} /\ Known({})
         /\ Binds \/ Rewrites \/ UNCHANGED <<dirs, files>>
         /\ ContentsFit'
  <1>1. /\ UNCHANGED <<walk, member, op_vars, phase>>
        /\ changes' = changes + 1 /\ trees' = trees \cup {TreeOf(root)'}
        /\ phase \notin {"idle", "ok", "failed"}
    BY DEF Author, SaveByRename, SaveInPlace, Replace, ReplaceRoot, Change, MayChange,
           Working, Ended
  <1>2. Known({})
    BY <1>1 DEF InsideInv, OpFit, Known
  <1>3. PackDirs \subseteq Dirs
    BY DEF PackDirs
  <1>4. CASE SaveByRename
    <2> DEFINE f == CHOOSE g \in Files : Unused(g)
    <2>0. f \in Files /\ Unused(f)
      BY <1>4 DEF SaveByRename
    <2>1. PICK d, n, c :
            /\ d \in PackDirs /\ n \in Names /\ c \in Saves[<<d, n>>]
            /\ Bind(d, n, FileEntry(f)) /\ files' = [files EXCEPT ![f] = c]
      BY <1>4 DEF SaveByRename
    <2> HIDE DEF f
    <2>2. FileEntry(f) \in Entries /\ FileEntry(f).kind # "dir"
      BY <2>0 DEF Entries, FileEntry
    <2>3. Untouched /\ HeldStays
      BY <2>0, <2>1 DEF Unused, Untouched, HeldStays, ContentsFit
    <2>4. <<d, n>> \in Dirs \X Names
      BY <1>3, <2>1
    <2>5. c # None
      BY <2>1, <2>4, ContentAssumption
    <2>6. ContentsFit'
      BY <2>1, <2>5 DEF ContentsFit
    <2> QED BY <1>1, <1>2, <2>1, <2>2, <2>3, <2>6 DEF Binds
  <1>5. CASE SaveInPlace
    <2>1. PICK d, n, c :
            /\ d \in PackDirs /\ n \in EntriesOf(d) /\ c \in Saves[<<d, n>>]
            /\ dirs[d][n].kind = "file" /\ files' = [files EXCEPT ![dirs[d][n].of] = c]
      BY <1>5 DEF SaveInPlace
    <2>2. <<d, n>> \in Dirs \X Names /\ dirs[d][n] \in Entries
      BY <1>3, <2>1 DEF EntriesOf, InsideInv, DirsFit
    <2>3. c # None /\ dirs[d][n].of \in Files
      BY <2>1, <2>2, EntryForms, ContentAssumption
    <2>4. ContentsFit'
      BY <2>1, <2>3 DEF ContentsFit
    <2>5. UNCHANGED dirs
      BY <1>5 DEF SaveInPlace
    <2>6. Rewrites
      BY <2>1, <2>3, <2>5 DEF Rewrites
    <2> QED BY <1>1, <1>2, <2>4, <2>6
  <1>6. CASE Replace
    <2>1. PICK d, n, e :
            d \in PackDirs /\ n \in EntriesOf(d) /\ e \in Replacements /\ Bind(d, n, e)
      BY <1>6 DEF Replace
    <2>2. n \in Names
      BY <2>1 DEF EntriesOf
    <2>3. Replacements \subseteq Entries /\ e.kind # "dir"
      BY <2>1, PackFilesAssumption DEF Replacements, Entries, Absent, Special, FileEntry,
         DirEntry, LinkToDir, LinkToFile
    <2>4. UNCHANGED files
      BY <1>6 DEF Replace
    <2>5. Untouched /\ HeldStays /\ ContentsFit'
      BY <2>4 DEF Untouched, HeldStays, ContentsFit
    <2> QED BY <1>1, <1>2, <2>1, <2>2, <2>3, <2>5 DEF Binds
  <1>7. CASE ReplaceRoot
    BY <1>1, <1>2, <1>7 DEF ReplaceRoot, ContentsFit
  <1> QED BY <1>4, <1>5, <1>6, <1>7 DEF Author

(* No change brings a directory.                                            *)
LEMMA NoDirectoryComes ==
  ASSUME InsideInv, NoNewDirectory, Binds \/ UNCHANGED dirs
  PROVE  NoNewDirectory'
  <1>1. CASE UNCHANGED dirs
    BY <1>1 DEF NoNewDirectory
  <1>2. CASE Binds
    <2>1. PICK d \in PackDirs, n \in Names, e \in Entries : e.kind # "dir" /\ Bind(d, n, e)
      BY <1>2 DEF Binds
    <2> QED BY <2>1 DEF Bind, InsideInv, DirsFit, NoNewDirectory
  <1> QED BY <1>1, <1>2

(* The first change leaves two trees that differ as one change makes them.  *)
LEMMA HistoryGoesOn ==
  ASSUME InsideInv, InsideInv', History, changes = 0, Author
  PROVE  History'
  <1>0. /\ ContentsFit /\ NoNewDirectory /\ Known({}) /\ root = Root
        /\ dirs = InitialDirs /\ trees = {Now} /\ DirsFit /\ DirsFit'
    BY AuthorForms DEF History, OneTree, InsideInv
  <1>1. /\ UNCHANGED <<root, phase>> /\ changes' = 1 /\ ContentsFit'
        /\ trees' = trees \cup {Now'}
        /\ Binds \/ Rewrites \/ UNCHANGED <<dirs, files>>
    BY <1>0, AuthorForms DEF op_vars, Now
  <1>2. NoNewDirectory'
    BY <1>0, <1>1, NoDirectoryComes DEF Rewrites
  <1>3. PICK t : t = Now
    OBVIOUS
  <1>4. HadFiles(t)'
    <2>1. \A p \in Paths : t[p] # None <=> EntryThen(p).kind = "file"
      BY <1>0, <1>3, NowHas, AtIsThen
    <2> QED BY <2>1 DEF HadFiles, EntryThen
  <1>5. OneFile(t)' \/ OnePath(t)' \/ OneDirectory(t)'
    <2>1. CASE Binds
      BY <1>0, <1>3, <2>1, BindLeavesOne DEF Binds
    <2>2. CASE Rewrites
      <3>1. PICK f, c : f \in Files /\ files' = [files EXCEPT ![f] = c]
        BY <2>2 DEF Rewrites
      <3>2. UNCHANGED dirs
        BY <2>2 DEF Rewrites
      <3>3. ASSUME NEW p \in Paths, EntryThen(p) # FileEntry(f) PROVE t[p] = Now'[p]
        <4>1. EntryAt(Root, p) # FileEntry(f) /\ EntryAt(Root, p)' = EntryAt(Root, p)
          BY <1>0, <3>2, <3>3, AtIsThen DEF EntryAt
        <4>2. /\ Now[p] = IF EntryAt(Root, p).kind = "file"
                          THEN files[EntryAt(Root, p).of] ELSE None
              /\ Now'[p] = IF EntryAt(Root, p)'.kind = "file"
                           THEN files'[EntryAt(Root, p)'.of] ELSE None
          BY DEF Now, TreeOf
        <4>3. EntryAt(Root, p).kind = "file" =>
                EntryAt(Root, p).of \in Files /\ EntryAt(Root, p) = FileEntry(EntryAt(Root, p).of)
          BY <1>0, EntryBound
        <4> QED BY <1>0, <1>3, <3>1, <4>1, <4>2, <4>3 DEF ContentsFit
      <3>4. dirs' = InitialDirs
        BY <1>0, <3>2
      <3> QED BY <3>1, <3>3, <3>4 DEF OneFile, EntryThen
    <2>3. CASE UNCHANGED <<dirs, files>>
      <3>1. Now' = t
        BY <1>3, <2>3 DEF Now, TreeOf, EntryAt
      <3>2. PICK q : q \in MemberPaths
        BY ResolutionAssumption
      <3> QED BY <3>1, <3>2 DEF OnePath
    <2> QED BY <1>1, <2>1, <2>2, <2>3
  <1>6. TwoTrees'
    BY <1>0, <1>1, <1>3, <1>4, <1>5 DEF TwoTrees
  <1>7. LostTells'
    <2> SUFFICES ASSUME NEW a \in Names, NEW x \in Names, NEW f \in Files, WasDir(a),
                        <<a, x>> \in Paths, dirs'[DirThen(a)][x] = FileEntry(f)
                 PROVE  Tells(<<a, x>>, files[f])'
      BY DEF LostTells, WasDir, DirThen
    <2>1. files'[f] # None
      BY <1>1 DEF ContentsFit
    <2>2. CASE dirs'[Root][a].kind = "dir"
      <3>1. dirs'[Root][a] = InitialDirs[Root][a]
        BY <1>2, <2>2, PackFilesAssumption DEF NoNewDirectory
      <3>2. EntryAt(Root, <<a, x>>)' = FileEntry(f)
        BY <2>2, <3>1 DEF EntryAt, DirThen
      <3>3. Now'[<<a, x>>] = files'[f]
        BY <3>2 DEF Now, TreeOf, FileEntry
      <3> QED BY <1>1, <2>1, <3>3 DEF Tells
    <2>3. CASE dirs'[Root][a].kind # "dir"
      <3>1. Binds
        BY <1>0, <1>1, <2>3 DEF Rewrites, WasDir
      <3>2. PICK d \in PackDirs, n \in Names, e \in Entries : Bind(d, n, e)
        BY <3>1 DEF Binds
      <3>3. dirs'[DirThen(a)][x] = dirs[DirThen(a)][x] /\ DirThen(a) \in Dirs
        BY <1>0, <2>3, <3>2, InitialForms, PackFilesAssumption
           DEF Bind, DirsFit, WasDir, Inner, PackDirs
      <3>4. Untouched
        BY <3>1 DEF Binds
      <3>5. files'[f] = files[f]
        BY <3>3, <3>4, UnusedIsUnbound DEF Untouched
      <3>6. EntryAt(Root, <<a, x>>) = FileEntry(f)
        BY <1>0, <3>3 DEF EntryAt, WasDir, DirThen
      <3>7. Now[<<a, x>>] = files[f]
        BY <3>6 DEF Now, TreeOf, FileEntry
      <3> QED BY <1>0, <1>1, <2>1, <3>5, <3>7 DEF Tells
    <2> QED BY <2>2, <2>3
  <1> QED BY <1>0, <1>1, <1>2, <1>6, <1>7 DEF History, Known

(* What was told of the first tree stays told.                              *)
LEMMA SeenThereStays ==
  ASSUME dirs = InitialDirs, NEW a, NEW found, NEW sub, SeenThere(a, found, sub)
  PROVE  SeenThere(a, found, sub)'
  BY DEF SeenThere, DirThen

(* What was seen of the names before the first change stays said of them.   *)
LEMMA ToldStays ==
  ASSUME dirs = InitialDirs, NEW found, NEW top, NEW sub, Told(found, top, sub)
  PROVE  Told(found, top, sub)'
  <1>1. ASSUME NEW a \in Names \ top
        PROVE  /\ SeenFile(a, found)'
               /\ WasDir(a)' => (SeenThere(a, found, sub) \/ SeenGone(a, found))'
    <2>1. SeenFile(a, found)'
      BY DEF Told, SeenFile
    <2>2. ASSUME WasDir(a) PROVE SeenThere(a, found, sub)'
      <3>1. ~SeenGone(a, found)
        BY <2>2 DEF SeenGone, WasDir
      <3> QED BY <2>2, <3>1, SeenThereStays DEF Told
    <2> QED BY <2>1, <2>2 DEF WasDir
  <1>2. SingleLinks(found)'
    BY DEF Told, SingleLinks, LinkCount, EntryThen
  <1> QED BY <1>1, <1>2 DEF Told

(* A content that was there at some moment stays so.                        *)
LEMMA TellsStays ==
  ASSUME trees \subseteq trees'
  PROVE  \A p, c : Tells(p, c) => Tells(p, c)'
  BY DEF Tells

(* The other parts of the invariant under a change.                         *)
LEMMA WalkTellsGoesOn ==
  ASSUME WalkTells, dirs = InitialDirs, UNCHANGED <<walk, phase>>
  PROVE  WalkTells'
  <1> SUFFICES ASSUME phase = "inventory"
               PROVE  /\ RootFirst' /\ Standing'
                      /\ \A a \in TopWaiting' : Unseen(a)'
                      /\ Told(walk.found, TopWaiting, SubWaiting)'
    BY DEF WalkTells
  <1>1. TopWaiting' = TopWaiting /\ SubWaiting' = SubWaiting
    BY DEF TopWaiting, SubWaiting
  <1>2. PICK top, sub, found : top = TopWaiting /\ sub = SubWaiting /\ found = walk.found
    OBVIOUS
  <1>3. Told(found, top, sub)'
    BY <1>2, ToldStays DEF WalkTells
  <1>4. Told(walk.found, TopWaiting, SubWaiting)'
    BY <1>1, <1>2, <1>3
  <1>5. ASSUME NEW dir, NEW prefix, StandsAt(dir, prefix) PROVE StandsAt(dir, prefix)'
    <2>1. \A a : SeenThere(a, found, sub) => SeenThere(a, found, sub)'
      BY SeenThereStays
    <2>2. \A a : SeenThere(a, walk.found, SubWaiting) => SeenThere(a, walk.found, SubWaiting)'
      BY <1>1, <1>2, <2>1
    <2> QED BY <1>1, <1>5, <2>2 DEF StandsAt
  <1>6. Standing'
    <2>1. PICK w : w = walk
      OBVIOUS
    <2>2. /\ StandsAt(w.dir, w.prefix)'
          /\ \A i \in DOMAIN w.stack : StandsAt(w.stack[i].dir, w.stack[i].prefix)'
      BY <1>5, <2>1 DEF WalkTells, Standing
    <2> QED BY <2>1, <2>2 DEF Standing
  <1>7. RootFirst' /\ \A a \in TopWaiting' : Unseen(a)'
    BY <1>1 DEF WalkTells, RootFirst, Unseen
  <1> QED BY <1>4, <1>6, <1>7

(* A file that is open keeps its content, or gets one the new tree has.     *)
LEMMA ReadingTellsGoesOn ==
  ASSUME InsideInv, History, ReadingTells, changes = 0, Author
  PROVE  ReadingTells'
  <1>0. /\ ContentsFit /\ Known({}) /\ root = Root /\ dirs = InitialDirs
    BY AuthorForms DEF History, OneTree
  <1>1. /\ UNCHANGED <<root, phase, member, reading>> /\ changes' = 1 /\ ContentsFit'
        /\ trees' = trees \cup {Now'}
        /\ Binds \/ Rewrites \/ UNCHANGED <<dirs, files>>
    BY <1>0, AuthorForms DEF op_vars, Now
  <1>2. PICK p, f : p = reading /\ f = member.held
    OBVIOUS
  <1>3. ASSUME member # NoMember, p \in Paths, f # None
        PROVE  Tells(p, files[f])'
    <2>1. f \in Files
      BY <1>2, <1>3 DEF InsideInv, MemberFit, Held
    <2>2. Tells(p, files[f]) /\ EntryThen(p) = FileEntry(f)
      BY <1>0, <1>2, <1>3 DEF ReadingTells
    <2>3. CASE files'[f] = files[f]
      BY <1>1, <2>2, <2>3 DEF Tells
    <2>4. CASE Rewrites
      <3>1. EntryAt(Root, p) = FileEntry(f) /\ UNCHANGED dirs
        BY <1>0, <1>3, <2>2, <2>4, AtIsThen DEF Rewrites
      <3>2. EntryAt(Root, p)' = FileEntry(f)
        BY <3>1 DEF EntryAt
      <3>3. Now'[p] = files'[f]
        BY <1>3, <3>2 DEF Now, TreeOf, FileEntry
      <3>4. files'[f] # None
        BY <1>1, <2>1 DEF ContentsFit
      <3> QED BY <1>1, <3>3, <3>4 DEF Tells
    <2>5. CASE Binds
      BY <1>2, <1>3, <2>1, <2>3, <2>5 DEF Binds, HeldStays
    <2>6. CASE UNCHANGED <<dirs, files>>
      BY <2>3, <2>6
    <2> QED BY <1>1, <2>4, <2>5, <2>6
  <1>4. ASSUME member' # NoMember, reading' \in Paths
        PROVE  /\ (member.dir = Root /\ member.rest = reading)' \/ Below1(reading)'
               /\ member'.held # None =>
                    /\ Tells(reading, files[member.held])'
                    /\ (changes = 0 => EntryThen(reading) = FileEntry(member.held))'
    <2>1. p \in Paths /\ member # NoMember
      BY <1>1, <1>2, <1>4 DEF NoMember
    <2>2. (member.dir = Root /\ member.rest = reading)' \/ Below1(reading)'
      BY <1>0, <1>1, <1>2, <2>1 DEF ReadingTells, Below1
    <2>3. member'.held # None => Tells(reading, files[member.held])'
      BY <1>1, <1>2, <1>3, <2>1
    <2> QED BY <1>1, <2>2, <2>3
  <1> QED BY <1>4 DEF ReadingTells

(* The first change preserves every part.                                   *)
LEMMA OneChangeGoesOn ==
  ASSUME InsideInv, InsideInv', OneChange, changes = 0, Author
  PROVE  OneChange'
  <1>1. /\ UNCHANGED <<walk, member, op_vars, phase>> /\ trees \subseteq trees'
    BY AuthorForms DEF OneChange, History
  <1>2. History' /\ ReadingTells'
    BY HistoryGoesOn, ReadingTellsGoesOn DEF OneChange
  <1>3. dirs = InitialDirs
    BY AuthorForms DEF OneChange, History, OneTree
  <1>4. WalkTells'
    BY <1>1, <1>3, WalkTellsGoesOn DEF OneChange
  <1>5. FirstTells'
    <2>1. PICK found : found = first
      OBVIOUS
    <2>2. Told(found, {}, {}) => Told(found, {}, {})'
      BY <1>3, ToldStays
    <2>3. Told(first, {}, {}) => Told(first, {}, {})'
      BY <1>1, <2>1, <2>2 DEF op_vars
    <2> QED BY <1>1, <2>3 DEF OneChange, FirstTells, Known, op_vars, Artifacts
  <1>6. ManifestTells'
    BY <1>1 DEF OneChange, ManifestTells, Known, op_vars, Artifacts
  <1>7. ArtifactsTell'
    BY <1>1, TellsStays DEF OneChange, ArtifactsTell, op_vars, Artifacts, NoMember
  <1> QED BY <1>2, <1>4, <1>5, <1>6, <1>7 DEF OneChange

--------------------------------------------------------------------------------
(* One step of the inventory.                                               *)
LEMMA AppendForms ==
  ASSUME NEW p \in Seq(Names), NEW n \in Names, NEW a \in Names, NEW x \in Names
  PROVE  /\ Append(p, n) # <<>>
         /\ Append(p, n) = <<a>> <=> p = <<>> /\ n = a
         /\ Append(p, n) = <<a, x>> <=> p = <<a>> /\ n = x
  <1>1. Len(p) \in Nat /\ Len(Append(p, n)) = Len(p) + 1
    OBVIOUS
  <1>2. Append(p, n) # <<>>
    BY <1>1
  <1>3. Append(p, n) = <<a>> <=> p = <<>> /\ n = a
    <2>1. ASSUME Append(p, n) = <<a>> PROVE p = <<>> /\ n = a
      <3>1. Len(p) = 0
        BY <1>1, <2>1
      <3>2. Append(p, n)[Len(p) + 1] = n
        OBVIOUS
      <3> QED BY <2>1, <3>1, <3>2
    <2>2. Append(<<>>, a) = <<a>>
      OBVIOUS
    <2> QED BY <2>1, <2>2
  <1>4. Append(p, n) = <<a, x>> <=> p = <<a>> /\ n = x
    <2> DEFINE q == Append(p, n)
               r == <<a, x>>
    <2>1. /\ q \in Seq(Names) /\ Len(q) = Len(p) + 1 /\ q[Len(p) + 1] = n
          /\ \A i \in 1 .. Len(p) : q[i] = p[i]
      OBVIOUS
    <2>2. r \in Seq(Names) /\ Len(r) = 2 /\ r[1] = a /\ r[2] = x
      OBVIOUS
    <2> HIDE DEF q, r
    <2>3. ASSUME q = r PROVE p = <<a>> /\ n = x
      <3> DEFINE k == Len(p)
      <3>0. k \in Nat /\ k + 1 = 2
        BY <1>1, <2>1, <2>2, <2>3
      <3> HIDE DEF k
      <3>1. k = 1
        BY <3>0
      <3>2. Len(p) = 1
        BY <3>1 DEF k
      <3>3. p[1] = a /\ n = x
        BY <2>1, <2>2, <2>3, <3>2
      <3> QED BY <3>2, <3>3
    <2>4. ASSUME p = <<a>>, n = x PROVE q = r
      <3>1. Len(p) = 1 /\ p[1] = a
        BY <2>4
      <3>2. Len(q) = 2 /\ q[1] = a /\ q[2] = x
        BY <2>1, <2>4, <3>1
      <3> QED BY <2>1, <2>2, <3>2
    <2> QED BY <2>3, <2>4 DEF q, r
  <1> QED BY <1>2, <1>3, <1>4

(* Leaving a name behind takes it from the innermost directory only.        *)
LEMMA PastForms ==
  ASSUME WalkFit, walk # NoWalk, walk.stack # <<>>
  PROVE  LET last == Len(walk.stack)
         IN /\ 1 \in DOMAIN walk.stack /\ last \in DOMAIN walk.stack
            /\ Frame = walk.stack[last] /\ Visited \in Frame.left
            /\ \A i \in DOMAIN Past :
                 /\ i \in DOMAIN walk.stack /\ Past[i].left \subseteq walk.stack[i].left
                 /\ Past[i].dir = walk.stack[i].dir /\ Past[i].prefix = walk.stack[i].prefix
                 /\ i = last => Visited \notin Past[i].left
            /\ \A i \in DOMAIN walk.stack : \A n \in walk.stack[i].left :
                 \/ i = last /\ n = Visited
                 \/ i \in DOMAIN Past /\ n \in Past[i].left
            /\ Past # <<>> => 1 \in DOMAIN Past
  <1> DEFINE last == Len(walk.stack)
  <1>1. /\ walk.stack \in Seq(Frames) /\ last \in Nat \ {0} /\ DOMAIN walk.stack = 1 .. last
        /\ Frame = walk.stack[last] /\ Visited \in Frame.left /\ Past \in Seq(Frames)
    BY AtHand DEF WalkFit, Walks, Frame, Last
  <1>2. \A i \in 1 .. last : walk.stack[i] \in Frames
    BY <1>1
  <1>3. Past # <<>> => 1 \in DOMAIN Past
    BY <1>1
  <1>4. CASE Frame.left = {Visited}
    <2>1. /\ Len(Past) = last - 1 /\ DOMAIN Past = 1 .. last - 1
          /\ \A i \in 1 .. last - 1 : Past[i] = walk.stack[i]
      BY <1>1, <1>4 DEF Past, Front
    <2> QED BY <1>1, <1>3, <1>4, <2>1
  <1>5. CASE Frame.left # {Visited}
    <2>1. Past = [walk.stack EXCEPT ![last].left = @ \ {Visited}]
      BY <1>5 DEF Past
    <2>2. DOMAIN Past = 1 .. last /\ \A i \in 1 .. last - 1 : Past[i] = walk.stack[i]
      BY <1>1, <2>1
    <2>3. Past[last] = [walk.stack[last] EXCEPT !.left = @ \ {Visited}]
      BY <1>1, <2>1
    <2>4. /\ Past[last].left = walk.stack[last].left \ {Visited}
          /\ Past[last].dir = walk.stack[last].dir
          /\ Past[last].prefix = walk.stack[last].prefix
      BY <1>1, <1>2, <2>3 DEF Frames
    <2> QED BY <1>1, <1>3, <2>2, <2>4
  <1> QED BY <1>4, <1>5

(* What is no longer waited for once a name was visited.                    *)
LEMMA WaitsPast ==
  ASSUME WalkFit, RootFirst, walk # NoWalk, walk.stack # <<>>, walk.step # "list",
         walk'.stack = Past,
         walk'.step = "visit" \/ (walk'.step = "list" /\ walk'.prefix = VisitedPath)
  PROVE  /\ TopWaiting' \subseteq TopWaiting
         /\ \A a \in TopWaiting \ TopWaiting' : Frame.prefix = <<>> /\ a = Visited
         /\ Frame.prefix = <<>> => Visited \in TopWaiting \ TopWaiting'
         /\ \A b \in SubWaiting \ SubWaiting' :
              \/ Frame.prefix = <<>> /\ b[1] = Visited /\ walk'.step = "visit"
              \/ Frame.prefix = <<b[1]>> /\ b[2] = Visited
  <1> DEFINE last == Len(walk.stack)
  <1>1. /\ Frame \in Frames /\ Visited \in Names /\ VisitedPath = Append(Frame.prefix, Visited)
        /\ Frame.prefix \in Seq(Names)
    BY AtHand DEF VisitedPath, Frames
  <1>2. walk'.step = "list" => walk'.prefix # <<>>
    BY <1>1, AppendForms
  <1>3. /\ TopWaiting = {a \in Names : walk.stack[1].prefix = <<>> /\ a \in walk.stack[1].left}
        /\ TopWaiting' = {a \in Names : Past # <<>> /\ Past[1].prefix = <<>> /\ a \in Past[1].left}
    BY <1>2 DEF TopWaiting
  <1>4. Frame.prefix = <<>> => last = 1
    <2>1. last \in DOMAIN walk.stack /\ Frame = walk.stack[last]
      BY PastForms
    <2> QED BY <2>1 DEF RootFirst
  <1>5. TopWaiting' \subseteq TopWaiting
    BY <1>3, PastForms
  <1>6. ASSUME NEW a \in TopWaiting \ TopWaiting' PROVE Frame.prefix = <<>> /\ a = Visited
    <2>1. walk.stack[1].prefix = <<>> /\ a \in walk.stack[1].left /\ a \in Names
      BY <1>3
    <2>2. ~(1 \in DOMAIN Past /\ a \in Past[1].left)
      BY <1>3, <2>1, PastForms
    <2> QED BY <2>1, <2>2, PastForms
  <1>7. Frame.prefix = <<>> => Visited \in TopWaiting \ TopWaiting'
    BY <1>1, <1>3, <1>4, PastForms
  <1>8. ASSUME NEW b \in SubWaiting \ SubWaiting'
        PROVE  \/ Frame.prefix = <<>> /\ b[1] = Visited /\ walk'.step = "visit"
               \/ Frame.prefix = <<b[1]>> /\ b[2] = Visited
    <2>1. /\ b \in Names \X Names /\ b[1] \notin TopWaiting'
          /\ ~(walk'.step = "list" /\ walk'.prefix = <<b[1]>>)
          /\ ~\E i \in DOMAIN Past : Past[i].prefix = <<b[1]>> /\ b[2] \in Past[i].left
      BY DEF SubWaiting
    <2>2. CASE b[1] \in TopWaiting
      <3>1. Frame.prefix = <<>> /\ b[1] = Visited
        BY <1>6, <2>1, <2>2
      <3>2. VisitedPath = <<b[1]>>
        BY <1>1, <3>1, AppendForms
      <3> QED BY <2>1, <3>1, <3>2
    <2>3. CASE b[1] \notin TopWaiting
      <3>1. PICK i \in DOMAIN walk.stack :
              walk.stack[i].prefix = <<b[1]>> /\ b[2] \in walk.stack[i].left
        BY <2>3 DEF SubWaiting
      <3> QED BY <2>1, <3>1, PastForms
    <2> QED BY <2>2, <2>3
  <1> QED BY <1>5, <1>6, <1>7, <1>8

(* Where the manifest was read no directory is.                             *)
LEMMA ManifestIsNoDirectory ==
  ASSUME InsideInv, History, ManifestTells, Known({"pack", "manifest"}), changes \in {0, 1},
         NEW n \in Names, dirs[Root][n].kind = "dir"
  PROVE  <<n>> # ManifestPath
  <1> SUFFICES ASSUME <<n>> = ManifestPath PROVE FALSE
    OBVIOUS
  <1>0. ContentsFit /\ NoNewDirectory /\ DirsFit /\ Known({}) /\ Root \in Dirs /\ <<n>> \in Paths
    BY PackFilesAssumption, LayoutAssumption DEF History, InsideInv, Known
  <1>1. PICK t \in trees : t[<<n>>] # None
    BY DEF ManifestTells
  <1>2. EntryAt(Root, <<n>>).kind = "dir" /\ EntryThen(<<n>>).kind = "dir"
    BY <1>0 DEF EntryAt, EntryThen, NoNewDirectory
  <1>3. Now[<<n>>] = None
    BY <1>0, <1>2, NowHas
  <1>4. t # Now
    BY <1>1, <1>3
  <1>5. HadFiles(t)
    BY <1>0, <1>4 DEF History, OneTree, TwoTrees
  <1> QED BY <1>0, <1>1, <1>2, <1>5 DEF HadFiles

(* The name that was visited is told of, and so is all that was before.     *)
Looked ==
  /\ walk'.stack = Past
  /\ walk.found \subseteq walk'.found /\ walk'.found \subseteq walk.found \cup {VisitedPath}
  /\ VisitedEntry.kind = "file" =>
       /\ VisitedPath # ManifestPath => VisitedPath \in walk'.found
       /\ LinkCount(VisitedEntry.of) <= 1 /\ walk'.step = "visit"
  /\ VisitedEntry.kind # "file" =>
       /\ VisitedEntry.kind = "dir" /\ walk'.found = walk.found
       /\ walk'.step = "visit" /\ Frame.prefix = <<>> =>
            \A x \in Names : <<Visited, x>> \notin Paths
  /\ \/ walk'.step = "visit" /\ walk'.prefix = walk.prefix /\ walk'.dir = walk.dir
     \/ /\ walk'.step = "list" /\ walk'.prefix = VisitedPath
        /\ VisitedEntry = DirEntry(walk'.dir)

(* Looking at one name keeps what is told of all the others.                *)
LEMMA LookedTells ==
  ASSUME InsideInv, History, ManifestTells, WalkTells, phase = "inventory", changes \in {0, 1},
         walk.stack # <<>>, walk # NoWalk, walk.step # "list", Looked, UNCHANGED <<dirs, phase>>
  PROVE  WalkTells'
  <1>a. PICK n, P, D, V : n = Visited /\ P = Frame.prefix /\ D = Frame.dir /\ V = VisitedPath
    OBVIOUS
  <1>0. /\ walk # NoWalk /\ RootFirst /\ Standing
        /\ \A a \in TopWaiting : Unseen(a)
        /\ Told(walk.found, TopWaiting, SubWaiting)
        /\ NoNewDirectory /\ WalkFit
    BY DEF WalkTells, History, InsideInv
  <1>1. n \in Names /\ P \in Seq(Names) /\ V = Append(P, n) /\ D \in Inner /\ D \in Dirs
    BY <1>0, <1>a, AtHand DEF VisitedPath, Frames, Inner
  <1>2. /\ V # <<>>
        /\ \A a \in Names : V = <<a>> <=> P = <<>> /\ n = a
        /\ \A a, x \in Names : V = <<a, x>> <=> P = <<a>> /\ n = x
    BY <1>1, AppendForms
  <1>3. StandsAt(D, P)
    BY <1>0, <1>a, PastForms DEF Standing
  <1>4. /\ P = <<>> => D = Root
        /\ \A a \in Names : P = <<a>> =>
             /\ InitialDirs[Root][a] = DirEntry(D) /\ WasDir(a) /\ DirThen(a) = D
             /\ a \notin TopWaiting /\ SeenThere(a, walk.found, SubWaiting)
    BY <1>3 DEF StandsAt, WasDir, DirThen, DirEntry
  <1>5. VisitedEntry = dirs[D][n] /\ VisitedEntry.kind \in {"file", "dir"}
    BY <1>a DEF VisitedEntry, Looked
  <1>6. walk'.step = "visit" \/ (walk'.step = "list" /\ walk'.prefix = V)
    BY <1>a DEF Looked
  <1>7. /\ TopWaiting' \subseteq TopWaiting /\ TopWaiting \subseteq Names
        /\ \A a \in TopWaiting \ TopWaiting' : P = <<>> /\ a = n
        /\ P = <<>> => n \in TopWaiting \ TopWaiting'
    BY <1>0, <1>a, <1>6, WaitsPast DEF Looked, TopWaiting
  <1>8. \A b \in SubWaiting \ SubWaiting' :
          (P = <<>> /\ b[1] = n /\ walk'.step = "visit") \/ (P = <<b[1]>> /\ b[2] = n)
    BY <1>0, <1>a, <1>6, WaitsPast DEF Looked
  <1>9. RootFirst'
    <2>1. walk'.step = "list" => walk'.prefix # <<>>
      BY <1>2, <1>6
    <2>2. \A i \in DOMAIN walk'.stack : i # 1 => walk'.stack[i].prefix # <<>>
      BY <1>0, PastForms DEF Looked, RootFirst
    <2> QED BY <2>1, <2>2 DEF RootFirst
  <1>10. walk.found \subseteq walk'.found /\ walk'.found \subseteq walk.found \cup {V}
    BY <1>a DEF Looked
  <1>11. \A a \in TopWaiting' : Unseen(a)'
    <2> SUFFICES ASSUME NEW a \in TopWaiting' PROVE Unseen(a)'
      OBVIOUS
    <2>1. a \in Names /\ Unseen(a) /\ a \in TopWaiting
      BY <1>0, <1>7
    <2>2. V # <<a>> /\ \A x \in Names : V # <<a, x>>
      BY <1>2, <1>4, <1>7, <2>1
    <2> QED BY <1>10, <2>1, <2>2 DEF Unseen
  <1>12. ASSUME NEW a \in Names, a \notin TopWaiting, SeenThere(a, walk.found, SubWaiting)
         PROVE  SeenThere(a, walk.found, SubWaiting)'
    <2>1. <<a>> # ManifestPath /\ <<a>> \notin walk'.found
      BY <1>2, <1>7, <1>10, <1>12 DEF SeenThere
    <2>2. ASSUME NEW x \in Names, <<a, x>> \in Paths \ SubWaiting',
                 InitialDirs[DirThen(a)][x].kind = "file", dirs[DirThen(a)][x].kind = "file"
          PROVE  <<a, x>> \in walk'.found
      <3>1. CASE <<a, x>> \notin SubWaiting
        BY <1>10, <1>12, <2>2, <3>1 DEF SeenThere
      <3>2. CASE <<a, x>> \in SubWaiting
        <4>1. P = <<a>> /\ x = n
          BY <1>7, <1>8, <1>12, <2>2, <3>2
        <4>2. V = <<a, x>> /\ V # ManifestPath
          BY <1>2, <4>1, LayoutAssumption
        <4>3. VisitedEntry.kind = "file"
          BY <1>4, <1>5, <2>2, <4>1
        <4> QED BY <1>a, <4>2, <4>3 DEF Looked
      <3> QED BY <3>1, <3>2
    <2> QED BY <2>1, <2>2 DEF SeenThere, DirThen
  <1>13. ASSUME P = <<>>, dirs[Root][n].kind = "dir"
         PROVE  SeenThere(n, walk.found, SubWaiting)'
    <2>1. VisitedEntry.kind = "dir" /\ walk'.found = walk.found
      BY <1>4, <1>5, <1>13 DEF Looked
    <2>2. <<n>> # ManifestPath
      BY <1>1, <1>13, ManifestIsNoDirectory DEF Known, Phases
    <2>3. <<n>> \notin walk'.found
      BY <1>0, <1>7, <1>13, <2>1 DEF Unseen
    <2>4. ASSUME NEW x \in Names, <<n, x>> \in Paths \ SubWaiting' PROVE FALSE
      <3>1. walk'.step = "list" /\ walk'.prefix = <<n>>
        BY <1>1, <1>2, <1>6, <1>13, <2>1, <2>4, <1>a DEF Looked
      <3>2. <<n, x>> \in SubWaiting'
        BY <1>1, <3>1 DEF SubWaiting
      <3> QED BY <2>4, <3>2
    <2> QED BY <2>2, <2>3, <2>4 DEF SeenThere
  <1>14. Told(walk.found, TopWaiting, SubWaiting)'
    <2>1. ASSUME NEW a \in Names, a \notin TopWaiting'
          PROVE  /\ SeenFile(a, walk.found)'
                 /\ WasDir(a) => SeenThere(a, walk.found, SubWaiting)' \/ SeenGone(a, walk.found)'
      <3>1. CASE a \notin TopWaiting
        <4>1. SeenFile(a, walk.found)'
          BY <1>0, <1>10, <3>1 DEF Told, SeenFile
        <4>2. CASE P = <<a>>
          BY <1>4, <1>12, <3>1, <4>1, <4>2
        <4>3. CASE P # <<a>>
          <5>1. SeenGone(a, walk.found) => SeenGone(a, walk.found)'
            BY <1>2, <1>10, <2>1, <4>3 DEF SeenGone
          <5> QED BY <1>0, <1>12, <2>1, <3>1, <4>1, <5>1 DEF Told
        <4> QED BY <4>2, <4>3
      <3>2. CASE a \in TopWaiting
        <4>1. P = <<>> /\ a = n /\ V = <<a>> /\ Unseen(a) /\ VisitedEntry = dirs[Root][a]
          BY <1>0, <1>1, <1>2, <1>4, <1>5, <1>7, <2>1, <3>2
        <4>2. CASE VisitedEntry.kind = "file"
          <5>1. <<a>> # ManifestPath => <<a>> \in walk'.found
            BY <1>a, <4>1, <4>2 DEF Looked
          <5>2. \A x \in Names : <<a, x>> \notin walk'.found
            BY <1>2, <1>10, <2>1, <4>1 DEF Unseen
          <5>3. SeenFile(a, walk.found)' /\ SeenGone(a, walk.found)'
            BY <4>1, <4>2, <5>1, <5>2 DEF SeenFile, SeenGone
          <5> QED BY <5>3
        <4>3. CASE VisitedEntry.kind = "dir"
          <5>1. SeenFile(a, walk.found)'
            BY <4>1, <4>3 DEF SeenFile
          <5>2. SeenThere(a, walk.found, SubWaiting)'
            BY <1>13, <4>1, <4>3
          <5> QED BY <5>1, <5>2
        <4> QED BY <1>5, <4>2, <4>3
      <3> QED BY <3>1, <3>2
    <2>2. SingleLinks(walk.found)'
      <3> SUFFICES ASSUME dirs = InitialDirs, NEW p \in Paths, p \in walk'.found
                   PROVE  EntryThen(p).kind = "file" /\ LinkCount(EntryThen(p).of) <= 1
        BY DEF SingleLinks, LinkCount, EntryThen
      <3>1. CASE p \in walk.found
        BY <1>0, <3>1 DEF Told, SingleLinks
      <3>2. CASE p \notin walk.found
        <4>1. p = V /\ VisitedEntry.kind = "file" /\ LinkCount(VisitedEntry.of) <= 1
          BY <1>10, <3>2 DEF Looked
        <4>2. ASSUME NEW a \in Names, p = <<a>> PROVE EntryThen(p) = VisitedEntry
          BY <1>2, <1>4, <1>5, <4>1, <4>2 DEF EntryThen
        <4>3. ASSUME NEW a \in Names, NEW x \in Names, p = <<a, x>>
              PROVE  EntryThen(p) = VisitedEntry
          <5>1. P = <<a>> /\ n = x
            BY <1>2, <4>1, <4>3
          <5>2. WasDir(a) /\ DirThen(a) = D
            BY <1>4, <5>1
          <5> QED BY <1>5, <4>3, <5>1, <5>2 DEF EntryThen, WasDir, DirThen
        <4> QED BY <4>1, <4>2, <4>3, PathForms
      <3> QED BY <3>1, <3>2
    <2> QED BY <2>1, <2>2 DEF Told, WasDir
  <1>15. ASSUME NEW dir, NEW prefix, StandsAt(dir, prefix) PROVE StandsAt(dir, prefix)'
    BY <1>7, <1>12, <1>15 DEF StandsAt
  <1>16. Standing'
    <2>1. PICK w : w = walk /\ walk.stack = w.stack
      OBVIOUS
    <2>2. /\ StandsAt(w.dir, w.prefix)'
          /\ \A i \in DOMAIN w.stack : StandsAt(w.stack[i].dir, w.stack[i].prefix)'
      BY <1>0, <1>15, <2>1 DEF Standing
    <2>3. \A i \in DOMAIN walk'.stack : i \in DOMAIN w.stack
            /\ walk'.stack[i].dir = w.stack[i].dir /\ walk'.stack[i].prefix = w.stack[i].prefix
      BY <1>0, <2>1, PastForms DEF Looked
    <2>4. \A i \in DOMAIN walk'.stack : StandsAt(walk.stack[i].dir, walk.stack[i].prefix)'
      BY <2>2, <2>3
    <2>5. StandsAt(walk.dir, walk.prefix)'
      <3>1. CASE walk'.prefix = w.prefix /\ walk'.dir = w.dir
        BY <2>2, <3>1
      <3>2. CASE walk'.step = "list" /\ walk'.prefix = V /\ VisitedEntry = DirEntry(walk'.dir)
        <4> SUFFICES ASSUME NEW a \in Names, walk'.prefix = <<a>>
                     PROVE  /\ InitialDirs[Root][a] = DirEntry(walk'.dir)
                            /\ a \notin TopWaiting' /\ SeenThere(a, walk.found, SubWaiting)'
          BY <1>2, <3>2 DEF StandsAt
        <4>1. P = <<>> /\ n = a /\ dirs[Root][a] = DirEntry(walk'.dir)
          BY <1>2, <1>4, <1>5, <3>2
        <4>2. InitialDirs[Root][a] = DirEntry(walk'.dir)
          BY <1>0, <4>1, PackFilesAssumption DEF NoNewDirectory, DirEntry
        <4>3. a \notin TopWaiting'
          BY <1>7, <4>1
        <4>4. SeenThere(a, walk.found, SubWaiting)'
          BY <1>13, <4>1 DEF DirEntry
        <4> QED BY <4>2, <4>3, <4>4
      <3> QED BY <2>1, <3>1, <3>2, <1>a DEF Looked
    <2> QED BY <2>4, <2>5 DEF Standing
  <1> QED BY <1>9, <1>11, <1>14, <1>16 DEF WalkTells

(* Listing a directory makes its names wait, and tells of the absent ones.  *)
LEMMA ListedTells ==
  ASSUME InsideInv, History, WalkTells, phase = "inventory", ListDirectory,
         UNCHANGED <<dirs, phase>>
  PROVE  WalkTells'
  <1>0. /\ walk # NoWalk /\ RootFirst /\ Standing /\ walk \in Walks /\ NoNewDirectory
        /\ \A a \in TopWaiting : Unseen(a)
        /\ Told(walk.found, TopWaiting, SubWaiting)
    BY DEF WalkTells, History, InsideInv, WalkFit, ListDirectory, At
  <1>a. PICK P, D, st, found : /\ P = walk.prefix /\ D = walk.dir /\ st = walk.stack
                               /\ found = walk.found
    OBVIOUS
  <1>1. /\ walk.step = "list" /\ walk'.step = "visit"
        /\ walk'.prefix = P /\ walk'.dir = D /\ walk'.found = found
        /\ walk'.stack = IF EntriesOf(D) = {} THEN st ELSE Append(st, Listed)
        /\ Listed = [dir |-> D, prefix |-> P, left |-> EntriesOf(D)]
    BY <1>0, <1>a DEF ListDirectory, At, Walks, Listed
  <1>2. st \in Seq(Frames) /\ Len(st) \in Nat /\ DOMAIN st = 1 .. Len(st)
    BY <1>0, <1>a DEF Walks
  <1>3. \A i \in DOMAIN walk'.stack :
          \/ i \in DOMAIN st /\ walk'.stack[i] = st[i]
          \/ i = Len(st) + 1 /\ walk'.stack[i] = Listed
    BY <1>1, <1>2
  <1>4. \A i \in DOMAIN st : i \in DOMAIN walk'.stack /\ walk'.stack[i] = st[i]
    BY <1>1, <1>2
  <1>5. EntriesOf(D) # {} => Len(st) + 1 \in DOMAIN walk'.stack /\ walk'.stack[Len(st) + 1] = Listed
    BY <1>1, <1>2
  <1>6. EntriesOf(D) = {n \in Names : dirs[D][n] # Absent}
    BY DEF EntriesOf
  <1>7. StandsAt(D, P) /\ \A i \in DOMAIN st : StandsAt(st[i].dir, st[i].prefix)
    BY <1>0, <1>a DEF Standing
  <1>8. CASE P = <<>>
    <2>1. st = <<>> /\ found = {} /\ D = Root
      BY <1>0, <1>1, <1>7, <1>8, <1>a DEF RootFirst, StandsAt
    <2>2. /\ walk'.stack = IF EntriesOf(D) = {} THEN <<>> ELSE <<Listed>>
          /\ \A i \in DOMAIN walk'.stack : i = 1
      BY <1>1, <1>3, <2>1
    <2>3. TopWaiting' = EntriesOf(Root)
      BY <1>1, <1>6, <1>8, <2>1, <2>2 DEF TopWaiting
    <2>4. RootFirst' /\ \A a \in TopWaiting' : Unseen(a)'
      BY <1>1, <2>1, <2>2 DEF RootFirst, Unseen
    <2>5. StandsAt(D, <<>>)'
      BY <2>1 DEF StandsAt
    <2>6. Standing'
      <3>1. StandsAt(walk.dir, walk.prefix)'
        BY <1>1, <1>8, <2>5
      <3>2. ASSUME NEW i \in DOMAIN walk'.stack
            PROVE  StandsAt(walk.stack[i].dir, walk.stack[i].prefix)'
        <4>1. walk'.stack[i].dir = D /\ walk'.stack[i].prefix = <<>>
          BY <1>1, <1>3, <1>8, <2>1
        <4> QED BY <2>5, <4>1
      <3> QED BY <3>1, <3>2 DEF Standing
    <2>7. Told(walk.found, TopWaiting, SubWaiting)'
      <3>1. ASSUME NEW a \in Names, a \notin TopWaiting'
            PROVE  SeenFile(a, walk.found)' /\ SeenGone(a, walk.found)'
        <4>1. dirs'[Root][a].kind = "absent"
          BY <1>6, <2>1, <2>3, <3>1 DEF Absent
        <4> QED BY <1>1, <2>1, <4>1 DEF SeenFile, SeenGone
      <3>2. SingleLinks(walk.found)'
        BY <1>1, <2>1 DEF SingleLinks
      <3> QED BY <3>1, <3>2 DEF Told
    <2> QED BY <1>1, <2>4, <2>6, <2>7 DEF WalkTells
  <1>9. CASE P # <<>>
    <2>1. st # <<>> => 1 \in DOMAIN st /\ walk'.stack # <<>> /\ walk'.stack[1] = st[1]
      BY <1>1, <1>2, <1>4
    <2>2. st = <<>> /\ walk'.stack # <<>> => walk'.stack[1].prefix # <<>>
      BY <1>1, <1>9
    <2>3. TopWaiting' = TopWaiting
      BY <1>1, <1>9, <1>a, <2>1, <2>2 DEF TopWaiting
    <2>4. RootFirst'
      <3>1. \A i \in DOMAIN walk'.stack : i # 1 => walk'.stack[i].prefix # <<>>
        BY <1>0, <1>1, <1>3, <1>9, <1>a DEF RootFirst
      <3> QED BY <1>1, <3>1 DEF RootFirst
    <2>5. \A a \in TopWaiting' : Unseen(a)'
      BY <1>0, <1>1, <1>a, <2>3 DEF Unseen
    <2>6. ASSUME NEW a \in Names, SeenThere(a, walk.found, SubWaiting)
          PROVE  SeenThere(a, walk.found, SubWaiting)'
      <3> SUFFICES ASSUME NEW x \in Names, <<a, x>> \in SubWaiting, <<a, x>> \notin SubWaiting',
                          dirs[DirThen(a)][x].kind = "file"
                   PROVE  FALSE
        BY <1>1, <1>a, <2>6 DEF SeenThere, DirThen
      <3>1. /\ a \notin TopWaiting
            /\ ~\E i \in DOMAIN walk'.stack :
                 walk'.stack[i].prefix = <<a>> /\ x \in walk'.stack[i].left
        BY <2>3 DEF SubWaiting
      <3>2. P = <<a>>
        BY <1>4, <1>a, <3>1 DEF SubWaiting
      <3>3. D = DirThen(a)
        BY <1>7, <3>2 DEF StandsAt, DirThen, DirEntry
      <3>4. x \in EntriesOf(D)
        BY <1>6, <3>3 DEF Absent
      <3> QED BY <1>1, <1>5, <3>1, <3>2, <3>4
    <2>7. Told(walk.found, TopWaiting, SubWaiting)'
      <3>1. ASSUME NEW a \in Names, a \notin TopWaiting'
            PROVE  /\ SeenFile(a, walk.found)'
                   /\ WasDir(a) => SeenThere(a, walk.found, SubWaiting)' \/ SeenGone(a, walk.found)'
        <4>1. SeenFile(a, walk.found)' /\ (SeenGone(a, walk.found) => SeenGone(a, walk.found)')
          BY <1>0, <1>1, <1>a, <2>3, <3>1 DEF Told, SeenFile, SeenGone
        <4> QED BY <1>0, <2>3, <2>6, <3>1, <4>1 DEF Told
      <3>2. SingleLinks(walk.found)'
        BY <1>0, <1>1, <1>a DEF Told, SingleLinks, LinkCount, EntryThen
      <3> QED BY <3>1, <3>2 DEF Told, WasDir
    <2>8. ASSUME NEW dir, NEW prefix, StandsAt(dir, prefix) PROVE StandsAt(dir, prefix)'
      BY <2>3, <2>6, <2>8 DEF StandsAt
    <2>9. Standing'
      <3>1. StandsAt(D, P)' /\ \A i \in DOMAIN st : StandsAt(st[i].dir, st[i].prefix)'
        BY <1>7, <2>8
      <3>2. ASSUME NEW i \in DOMAIN walk'.stack
            PROVE  StandsAt(walk.stack[i].dir, walk.stack[i].prefix)'
        BY <1>1, <1>3, <3>1
      <3> QED BY <1>1, <3>1, <3>2 DEF Standing
    <2> QED BY <1>1, <2>4, <2>5, <2>7, <2>9 DEF WalkTells
  <1> QED BY <1>8, <1>9

(* Every step of a walk looks at a name, lists, or goes on to enter.        *)
LEMMA WalkStepTells ==
  ASSUME InsideInv, History, ManifestTells, WalkTells, phase = "inventory", changes \in {0, 1},
         WalkStep, UNCHANGED <<dirs, phase>>
  PROVE  WalkTells'
  <1>0. walk # NoWalk /\ WalkFit /\ walk \in Walks /\ DirsFit
    BY DEF InsideInv, WalkFit, WalkStep, ListDirectory, VisitFile, VisitDirectory,
           EnterDirectory, At
  <1>1. CASE ListDirectory
    BY <1>1, ListedTells
  <1>2. CASE VisitFile
    <2>1. /\ walk.step = "visit" /\ walk.stack # <<>> /\ SingleFile(VisitedEntry) # Unreachable
          /\ walk' = [walk EXCEPT !.seen = SeenNow, !.stack = Past,
                                  !.found = @ \cup ({VisitedPath} \ {ExcludedFile})]
      BY <1>2 DEF VisitFile, At
    <2>2. VisitedEntry.kind = "file" /\ LinkCount(VisitedEntry.of) <= 1
      BY <2>1 DEF SingleFile
    <2>3. /\ walk'.stack = Past /\ walk'.step = "visit"
          /\ walk'.prefix = walk.prefix /\ walk'.dir = walk.dir
          /\ walk'.found = walk.found \cup ({VisitedPath} \ {ManifestPath})
      BY <1>0, <2>1, LayoutAssumption DEF Walks
    <2>4. Looked
      BY <2>2, <2>3 DEF Looked
    <2> QED BY <1>0, <2>1, <2>4, LookedTells
  <1>3. CASE VisitDirectory
    <2>1. walk.step = "visit" /\ walk.stack # <<>> /\ VisitedEntry.kind = "dir"
      BY <1>3 DEF VisitDirectory, At
    <2>2. CASE IsPrefix(ExcludedTree, VisitedPath)
      <3>1. walk' = [walk EXCEPT !.seen = SeenNow, !.stack = Past]
        BY <1>3, <2>2 DEF VisitDirectory
      <3>2. /\ walk'.stack = Past /\ walk'.step = "visit"
            /\ walk'.prefix = walk.prefix /\ walk'.dir = walk.dir /\ walk'.found = walk.found
        BY <1>0, <2>1, <3>1 DEF Walks
      <3>3. Frame.prefix = <<>> => \A x \in Names : <<Visited, x>> \notin Paths
        <4>1. Frame.prefix = <<>> => VisitedPath = <<Visited>>
          BY <1>0, <2>1, AtHand, AppendForms DEF VisitedPath, Frames
        <4>2. Visited \in Names
          BY <1>0, <2>1, AtHand
        <4> QED BY <2>2, <4>1, <4>2, LayoutAssumption
      <3>4. Looked
        BY <2>1, <3>2, <3>3 DEF Looked
      <3> QED BY <1>0, <2>1, <3>4, LookedTells
    <2>3. CASE ~IsPrefix(ExcludedTree, VisitedPath)
      <3>1. walk' = [walk EXCEPT !.seen = SeenNow, !.step = "enter"]
        BY <1>3, <2>3 DEF VisitDirectory
      <3>2. /\ walk'.stack = walk.stack /\ walk'.step = "enter"
            /\ walk'.prefix = walk.prefix /\ walk'.dir = walk.dir /\ walk'.found = walk.found
        BY <1>0, <3>1 DEF Walks
      <3>3. TopWaiting' = TopWaiting /\ SubWaiting' = SubWaiting
        BY <2>1, <3>2 DEF TopWaiting, SubWaiting
      <3>4. /\ \A a : Unseen(a)' <=> Unseen(a)
            /\ \A a : SeenThere(a, walk.found, SubWaiting)' <=> SeenThere(a, walk.found, SubWaiting)
            /\ \A a : SeenGone(a, walk.found)' <=> SeenGone(a, walk.found)
            /\ \A a : SeenFile(a, walk.found)' <=> SeenFile(a, walk.found)
            /\ SingleLinks(walk.found)' <=> SingleLinks(walk.found)
        BY <3>2, <3>3 DEF Unseen, SeenThere, SeenGone, SeenFile, SingleLinks, LinkCount,
           EntryThen, DirThen
      <3>5. Told(walk.found, TopWaiting, SubWaiting)'
        BY <3>3, <3>4 DEF WalkTells, Told, WasDir
      <3>6. RootFirst'
        BY <2>1, <3>2 DEF WalkTells, RootFirst
      <3>7. \A dir, prefix : StandsAt(dir, prefix) => StandsAt(dir, prefix)'
        BY <3>3, <3>4 DEF StandsAt
      <3>8. Standing'
        BY <3>2, <3>7 DEF WalkTells, Standing
      <3> QED BY <3>2, <3>3, <3>4, <3>5, <3>6, <3>8 DEF WalkTells
    <2> QED BY <2>2, <2>3
  <1>4. CASE EnterDirectory
    <2>1. /\ walk.step = "enter" /\ walk.stack # <<>> /\ OpenDir(VisitedEntry) # Unreachable
          /\ walk' = [walk EXCEPT !.step = "list", !.dir = OpenDir(VisitedEntry),
                                  !.prefix = VisitedPath, !.stack = Past]
      BY <1>0, <1>4 DEF EnterDirectory, At, WalkFit
    <2>2. VisitedEntry.kind = "dir" /\ VisitedEntry = DirEntry(OpenDir(VisitedEntry))
      <3>1. VisitedEntry \in Entries
        BY <1>0, <2>1, AtHand DEF VisitedEntry, DirsFit, Frames, Inner
      <3> QED BY <2>1, <3>1, EntryForms DEF OpenDir
    <2>3. /\ walk'.stack = Past /\ walk'.step = "list"
          /\ walk'.prefix = VisitedPath /\ walk'.dir = OpenDir(VisitedEntry)
          /\ walk'.found = walk.found
      BY <1>0, <2>1 DEF Walks
    <2>4. Looked
      BY <2>2, <2>3 DEF Looked
    <2> QED BY <1>0, <2>1, <2>4, LookedTells
  <1> QED BY <1>1, <1>2, <1>3, <1>4 DEF WalkStep

--------------------------------------------------------------------------------
(* The steps of the reader.                                                 *)
LEMMA ReaderKeeps ==
  ASSUME InsideInv, Reader
  PROVE  /\ UNCHANGED <<dirs, files, changes, op>>
         /\ Begin \/ UNCHANGED <<root, trees>>
         /\ Known({})' /\ ~Begin => Known({})
         /\ phase' # "idle"
  <1> USE DEF Known, Phases
  <1>1. CASE WalkOn \/ OpenOn
    <2>1. phase # "idle"
      BY <1>1 DEF WalkOn, OpenOn, WalkStep, ListDirectory, VisitFile, VisitDirectory,
         EnterDirectory, At, OpenStep, OpenComponent, OpenFile, AdmitFile, Opening,
         Inspecting, InsideInv, OpFit
    <2> QED BY <1>1, <2>1 DEF WalkOn, OpenOn, files_vars, op_vars
  <1>2. CASE Begin \/ ReadPack \/ ReadManifest \/ ReadPayload
    BY <1>2 DEF Begin, ReadPack, ReadManifest, ReadPayload, Gets, files_vars
  <1>3. CASE Inventoried
    BY <1>3 DEF Inventoried, files_vars, InsideInv, OpFit
  <1>4. CASE OpenNext \/ ReadSource \/ ReadForDerivation \/ ParseByName \/ Fail
    BY <1>4 DEF OpenNext, Reading, ReadSource, ReadForDerivation, ParseByName, Fail, files_vars
  <1>5. CASE ParentsParsed \/ ParentsKnown \/ BindMember \/ TryNextParent \/ Bound \/ Return
    BY <1>5 DEF ParentsParsed, ParentsKnown, Parsed, Derived, BindMember, TryNextParent,
       Unbound, Bound, Return, files_vars
  <1> QED BY <1>1, <1>2, <1>3, <1>4, <1>5 DEF Reader

(* The reader changes nothing of the pack; its first tree is the opened one.*)
LEMMA ReaderHistory ==
  ASSUME InsideInv, History, Reader
  PROVE  History'
  <1>0. /\ ContentsFit' /\ NoNewDirectory' /\ phase' # "idle"
        /\ UNCHANGED <<dirs, files, changes>> /\ ContentsFit /\ NoNewDirectory /\ DirsFit
    BY ReaderKeeps DEF History, ContentsFit, NoNewDirectory, InsideInv
  <1>1. Now' = Now
    BY <1>0 DEF Now, TreeOf, EntryAt
  <1>2. CASE Begin
    <2>1. OpenedRoot = Root
      BY <1>2 DEF Begin, InsideInv, OpFit, OpenedRoot, OpenDir, DirEntry
    <2>2. root' = Root /\ trees' = {Now} /\ phase = "idle"
      BY <1>2, <2>1 DEF Begin, Now
    <2>3. changes' = 0 /\ dirs = InitialDirs
      BY <1>0, <2>2 DEF History
    <2>4. OneTree'
      BY <1>0, <1>1, <2>2, <2>3 DEF OneTree
    <2>5. ASSUME NEW a \in Names, NEW x \in Names, NEW f \in Files, WasDir(a),
                 <<a, x>> \in Paths, dirs[DirThen(a)][x] = FileEntry(f)
          PROVE  Tells(<<a, x>>, files[f])'
      <3>1. EntryAt(Root, <<a, x>>) = FileEntry(f)
        BY <2>3, <2>5 DEF EntryAt, WasDir, DirThen
      <3>2. Now[<<a, x>>] = files[f] /\ files[f] # None
        BY <1>0, <2>5, <3>1, NowHas DEF ContentsFit
      <3> QED BY <1>0, <2>2, <3>2 DEF Tells
    <2>6. LostTells'
      BY <1>0, <2>5 DEF LostTells, WasDir, DirThen
    <2> QED BY <1>0, <2>2, <2>3, <2>4, <2>6 DEF History
  <1>3. CASE ~Begin
    <2>1. UNCHANGED <<root, trees>> /\ (Known({})' => Known({}))
      BY <1>3, ReaderKeeps
    <2>2. OneTree' <=> OneTree
      BY <1>0, <1>1, <2>1 DEF OneTree
    <2>3. TwoTrees' <=> TwoTrees
      <3>1. \A t : /\ HadFiles(t)' <=> HadFiles(t) /\ (OneFile(t)' <=> OneFile(t))
                   /\ OnePath(t)' <=> OnePath(t)
                   /\ OneDirectory(t)' <=> OneDirectory(t)
        BY <1>0, <1>1 DEF HadFiles, OneFile, OnePath, OneDirectory, EntryThen, WasDir,
           DirThen
      <3> QED BY <1>1, <2>1, <3>1 DEF TwoTrees
    <2>4. LostTells' <=> LostTells
      BY <1>0, <2>1 DEF LostTells, Tells, WasDir, DirThen
    <2> QED BY <1>0, <2>1, <2>2, <2>3, <2>4 DEF History
  <1> QED BY <1>2, <1>3

(* Component by component, the opening reaches what the path leads to.      *)
LEMMA OpenStepTells ==
  ASSUME InsideInv, History, ReadingTells, OpenStep, changes \in {0, 1}, Known({}),
         UNCHANGED <<dirs, files, root, trees, changes, reading, phase>>
  PROVE  ReadingTells'
  <1>0. /\ ContentsFit /\ NoNewDirectory /\ DirsFit /\ root = Root /\ Now \in trees /\ LostTells
        /\ changes = 0 => dirs = InitialDirs
        /\ Root \in Dirs
    BY PackFilesAssumption DEF History, InsideInv, OneTree, TwoTrees
  <1>1. /\ member # NoMember /\ member.dir \in Dirs
        /\ member \in [dir : Inner, rest : MemberPaths, held : Held, file : Held]
    BY DEF OpenStep, OpenComponent, OpenFile, AdmitFile, Opening, Inspecting, InsideInv,
       MemberFit, Inner
  <1> SUFFICES ASSUME reading \in Paths
               PROVE  /\ (member.dir = Root /\ member.rest = reading)' \/ Below1(reading)'
                      /\ member'.held # None =>
                           /\ Tells(reading, files[member.held])'
                           /\ changes = 0 => EntryThen(reading) = FileEntry(member'.held)
    BY DEF ReadingTells, EntryThen
  <1>2. (member.dir = Root /\ member.rest = reading) \/ Below1(reading)
    BY <1>1 DEF ReadingTells
  <1>3. CASE OpenComponent
    <2>1. /\ member'.dir = OpenDir(Component) /\ member'.rest = Tail(member.rest)
          /\ member'.held = None /\ Len(member.rest) > 1 /\ OpenDir(Component) # Unreachable
      BY <1>1, <1>3 DEF OpenComponent, Opening
    <2>2. ~Below1(reading)
      <3> SUFFICES ASSUME NEW x \in Names, member.rest = <<x>> PROVE FALSE
        BY DEF Below1
      <3>1. Len(<<x>>) = 1
        OBVIOUS
      <3>2. Len(member.rest) = 1
        BY <3>1
      <3> QED BY <2>1, <3>2
    <2>3. member.dir = Root /\ member.rest = reading
      BY <1>2, <2>2
    <2>4. PICK a \in Names, x \in Names : reading = <<a, x>>
      BY <2>1, <2>3, PathForms
    <2>5. Component = dirs[Root][a] /\ Tail(member.rest) = <<x>>
      BY <2>3, <2>4 DEF Component
    <2>6. Component.kind = "dir" /\ Component \in Entries
      BY <1>0, <2>1, <2>5 DEF OpenDir, DirsFit
    <2>7. InitialDirs[Root][a] = DirEntry(member'.dir)
      BY <1>0, <2>1, <2>5, <2>6, EntryForms DEF OpenDir, NoNewDirectory
    <2>8. Below1(reading)'
      BY <2>1, <2>4, <2>5, <2>7 DEF Below1
    <2> QED BY <2>1, <2>8
  <1>4. CASE OpenFile
    <2>1. /\ member'.dir = member.dir /\ member'.rest = member.rest
          /\ member'.held = OpenedFile(Component) /\ Len(member.rest) = 1
          /\ OpenedFile(Component) # Unreachable
      BY <1>1, <1>4 DEF OpenFile
    <2>2. (member.dir = Root /\ member.rest = reading)' \/ Below1(reading)'
      BY <1>2, <2>1 DEF Below1
    <2>3. Head(member.rest) \in Names
      BY <1>1 DEF MemberPaths
    <2>4. Component \in Entries /\ Component.kind = "file"
      BY <1>0, <1>1, <2>1, <2>3 DEF Component, DirsFit, OpenedFile
    <2>5. PICK f \in Files : Component = FileEntry(f) /\ member'.held = f
      BY <2>1, <2>4, EntryForms DEF OpenedFile
    <2>6. files[f] # None
      BY <1>0 DEF ContentsFit
    <2>7. CASE member.dir = Root /\ member.rest = reading
      <3>1. PICK a \in Names : reading = <<a>>
        BY <2>1, <2>7, PathForms
      <3>2. EntryAt(Root, reading) = FileEntry(f)
        BY <2>5, <2>7, <3>1 DEF Component, EntryAt
      <3>3. Tells(reading, files[f])
        BY <1>0, <2>6, <3>2, NowHas DEF Tells
      <3>4. changes = 0 => EntryThen(reading) = FileEntry(f)
        BY <1>0, <3>2, AtIsThen
      <3> QED BY <2>2, <2>5, <3>3, <3>4 DEF Tells
    <2>8. CASE Below1(reading)
      <3>1. PICK a \in Names, x \in Names :
              /\ reading = <<a, x>> /\ member.rest = <<x>>
              /\ InitialDirs[Root][a] = DirEntry(member.dir)
        BY <2>8 DEF Below1
      <3>2. WasDir(a) /\ DirThen(a) = member.dir
        BY <3>1 DEF WasDir, DirThen, DirEntry
      <3>3. dirs[DirThen(a)][x] = FileEntry(f)
        BY <2>5, <3>1, <3>2 DEF Component
      <3>4. Tells(reading, files[f])
        BY <1>0, <3>1, <3>2, <3>3 DEF LostTells
      <3>5. changes = 0 => EntryThen(reading) = FileEntry(f)
        BY <1>0, <3>1, <3>2, <3>3, EntriesThen
      <3> QED BY <2>2, <2>5, <3>4, <3>5 DEF Tells
    <2> QED BY <1>2, <2>7, <2>8
  <1>5. CASE AdmitFile
    <2>1. UNCHANGED <<member.dir, member.rest, member.held>>
      BY <1>1, <1>5 DEF AdmitFile
    <2> QED BY <1>1, <1>2, <2>1 DEF ReadingTells, Below1, Tells
  <1> QED BY <1>3, <1>4, <1>5 DEF OpenStep

(* What is told stays told while the walk stands still.                     *)
LEMMA WalkTellsUnchanged ==
  ASSUME WalkTells, UNCHANGED <<walk, dirs, phase>>
  PROVE  WalkTells'
  <1>1. TopWaiting' = TopWaiting /\ SubWaiting' = SubWaiting
    BY DEF TopWaiting, SubWaiting
  <1>2. /\ \A a : Unseen(a)' <=> Unseen(a)
        /\ \A a : SeenThere(a, walk.found, SubWaiting)' <=> SeenThere(a, walk.found, SubWaiting)
        /\ \A a : SeenGone(a, walk.found)' <=> SeenGone(a, walk.found)
        /\ \A a : SeenFile(a, walk.found)' <=> SeenFile(a, walk.found)
        /\ SingleLinks(walk.found)' <=> SingleLinks(walk.found)
    BY <1>1 DEF Unseen, SeenThere, SeenGone, SeenFile, SingleLinks, LinkCount, EntryThen,
       DirThen
  <1> SUFFICES ASSUME phase = "inventory"
               PROVE  /\ RootFirst' /\ Standing'
                      /\ \A a \in TopWaiting' : Unseen(a)'
                      /\ Told(walk.found, TopWaiting, SubWaiting)'
    BY DEF WalkTells
  <1>3. Told(walk.found, TopWaiting, SubWaiting)'
    BY <1>1, <1>2 DEF WalkTells, Told, WasDir
  <1>4. \A dir, prefix : StandsAt(dir, prefix) => StandsAt(dir, prefix)'
    BY <1>1, <1>2 DEF StandsAt
  <1>5. RootFirst' /\ Standing'
    BY <1>4 DEF WalkTells, RootFirst, Standing
  <1> QED BY <1>1, <1>2, <1>3, <1>5 DEF WalkTells

(* A walk that starts has all names before it.                              *)
LEMMA WalkFromTells ==
  ASSUME walk' = WalkFrom(Root)
  PROVE  WalkTells'
  <1>1. /\ walk'.step = "list" /\ walk'.dir = Root /\ walk'.prefix = <<>>
        /\ walk'.stack = <<>> /\ walk'.found = {}
    BY DEF WalkFrom
  <1>2. TopWaiting' = Names /\ DOMAIN walk'.stack = {}
    BY <1>1 DEF TopWaiting
  <1>3. RootFirst'
    BY <1>1, <1>2 DEF RootFirst
  <1>4. Standing'
    <2>1. StandsAt(walk.dir, walk.prefix)'
      BY <1>1 DEF StandsAt
    <2> QED BY <1>2, <2>1 DEF Standing
  <1>5. \A a \in TopWaiting' : Unseen(a)'
    BY <1>1 DEF Unseen
  <1>6. Told(walk.found, TopWaiting, SubWaiting)'
    BY <1>1, <1>2 DEF Told, SingleLinks
  <1> QED BY <1>3, <1>4, <1>5, <1>6 DEF WalkTells

(* The steps of the reader, for each part of the invariant.                 *)
LEMMA ReaderWalkTells ==
  ASSUME InsideInv, OneChange, Reader, changes \in {0, 1}
  PROVE  WalkTells'
  <1>0. WalkTells /\ History /\ ManifestTells /\ UNCHANGED dirs
    BY ReaderKeeps DEF OneChange
  <1>1. CASE WalkOn
    <2>1. UNCHANGED phase
      BY <1>1 DEF WalkOn
    <2>2. CASE phase = "inventory"
      BY <1>0, <1>1, <2>1, <2>2, WalkStepTells DEF WalkOn
    <2> QED BY <2>1, <2>2 DEF WalkTells
  <1>2. CASE ReadManifest
    <2>1. root = Root
      BY <1>0, <1>2 DEF ReadManifest, Gets, History, Known, Phases
    <2> QED BY <1>2, <2>1, WalkFromTells DEF ReadManifest
  <1>3. CASE OpenOn
    BY <1>0, <1>3, WalkTellsUnchanged DEF OpenOn
  <1>4. CASE phase' # "inventory"
    BY <1>4 DEF WalkTells
  <1>5. CASE Begin \/ ReadPack \/ Inventoried \/ OpenNext \/ ReadPayload
    BY <1>4, <1>5 DEF Begin, ReadPack, Gets, Inventoried, OpenNext, Reading,
       ReadPayload, InsideInv, OpFit
  <1>6. CASE ReadSource \/ ReadForDerivation \/ ParseByName \/ Fail
    BY <1>4, <1>6 DEF ReadSource, ReadForDerivation, ParseByName, Fail
  <1>7. CASE ParentsParsed \/ ParentsKnown \/ BindMember \/ TryNextParent \/ Bound \/ Return
    BY <1>4, <1>7 DEF ParentsParsed, ParentsKnown, BindMember, TryNextParent, Unbound, Bound, Return
  <1> QED BY <1>1, <1>2, <1>3, <1>5, <1>6, <1>7 DEF Reader

LEMMA ReaderReadingTells ==
  ASSUME InsideInv, OneChange, Reader, changes \in {0, 1}
  PROVE  ReadingTells'
  <1>0. /\ ReadingTells /\ History /\ UNCHANGED <<dirs, files, changes>>
        /\ Known({}) => root = Root
    BY ReaderKeeps DEF OneChange, History
  <1>1. ASSUME member' = NoMember \/ \E p : member' = MemberFrom(Root, p) /\ reading' = p
        PROVE  ReadingTells'
    <2>1. CASE member' = NoMember
      BY <2>1 DEF ReadingTells, NoMember
    <2>2. ASSUME NEW p, member' = MemberFrom(Root, p), reading' = p
          PROVE  ReadingTells'
      <3>1. member'.dir = Root /\ member'.rest = reading' /\ member'.held = None
        BY <2>2 DEF MemberFrom
      <3> QED BY <3>1 DEF ReadingTells
    <2> QED BY <1>1, <2>1, <2>2
  <1>2. ASSUME UNCHANGED <<member, reading, trees>>, Known({})
        PROVE  ReadingTells'
    BY <1>0, <1>2 DEF ReadingTells, Tells, Below1, EntryThen, NoMember
  <1>3. CASE Begin
    <2>1. OpenedRoot = Root
      BY <1>3 DEF Begin, InsideInv, OpFit, OpenedRoot, OpenDir, DirEntry
    <2> QED BY <1>1, <1>3, <2>1 DEF Begin
  <1>4. CASE ReadPack \/ ReadManifest \/ Inventoried \/ OpenNext
    <2>1. root = Root
      BY <1>0, <1>4 DEF ReadPack, ReadManifest, Gets, Inventoried, OpenNext, Reading, Known, Phases
    <2> QED BY <1>1, <1>4, <2>1 DEF ReadPack, ReadManifest, Inventoried, OpenNext
  <1>5. CASE ReadPayload \/ ReadSource \/ ReadForDerivation \/ BindMember \/ TryNextParent \/ Fail
    BY <1>1, <1>5 DEF ReadPayload, ReadSource, ReadForDerivation, GotMember, BindMember,
       TryNextParent, Fail
  <1>6. CASE ParseByName \/ ParentsParsed \/ ParentsKnown \/ Bound \/ Return \/ WalkOn
    <2>1. CASE ~Known({})'
      BY <2>1 DEF ReadingTells
    <2>2. CASE Known({})'
      <3>1. ~Begin
        BY <1>6 DEF Begin, ParseByName, ParentsParsed, ParentsKnown, Parsed, Derived, Bound,
           Return, WalkOn, WalkStep, ListDirectory, VisitFile, VisitDirectory, EnterDirectory, At,
           InsideInv, OpFit
      <3>2. Known({})
        BY <2>2, <3>1, ReaderKeeps
      <3>3. UNCHANGED <<member, reading, trees>>
        BY <1>6 DEF ParseByName, ParentsParsed, ParentsKnown, Bound, Return, WalkOn, op_vars
      <3> QED BY <1>2, <3>2, <3>3
    <2> QED BY <2>1, <2>2
  <1>7. CASE OpenOn
    <2>1. UNCHANGED <<root, trees, reading, phase>> /\ OpenStep
      BY <1>7 DEF OpenOn, op_vars
    <2>2. CASE Known({})
      BY <1>0, <2>1, <2>2, OpenStepTells
    <2>3. CASE ~Known({})
      BY <2>1, <2>3 DEF ReadingTells, Known
    <2> QED BY <2>2, <2>3
  <1> QED BY <1>3, <1>4, <1>5, <1>6, <1>7 DEF Reader

(* A complete walk tells of every name, and found what the manifest lists.  *)
LEMMA ReaderFirstTells ==
  ASSUME InsideInv, OneChange, Reader
  PROVE  FirstTells'
  <1>0. FirstTells /\ WalkTells /\ UNCHANGED dirs
    BY ReaderKeeps DEF OneChange
  <1>1. ASSUME NEW found
        PROVE  Told(found, {}, {})' <=> Told(found, {}, {})
    BY <1>0 DEF Told, SeenFile, SeenThere, SeenGone, SingleLinks, LinkCount, EntryThen,
       WasDir, DirThen
  <1>2. PICK f, w : f = first /\ w = walk.found
    OBVIOUS
  <1> USE DEF Known, Phases
  <1>3. CASE Inventoried
    <2>1. first' = w /\ Artifacts' = w /\ phase = "inventory" /\ walk.step = "visit"
          /\ walk.stack = <<>>
      BY <1>2, <1>3 DEF Inventoried, Covers, Walked, At, Artifacts
    <2>2. TopWaiting = {} /\ SubWaiting = {}
      BY <2>1 DEF TopWaiting, SubWaiting
    <2>3. Told(w, {}, {})
      BY <1>0, <1>2, <2>1, <2>2 DEF WalkTells
    <2>4. Told(w, {}, {})'
      BY <1>1, <2>3
    <2> QED BY <2>1, <2>4 DEF FirstTells
  <1>4. ASSUME phase' \notin {"pack", "manifest", "inventory", "idle", "failed"} =>
                 /\ phase \notin {"pack", "manifest", "inventory", "idle", "failed"}
                 /\ first' = first /\ Artifacts' = Artifacts
        PROVE  FirstTells'
    <2> SUFFICES ASSUME Known({"pack", "manifest", "inventory"})'
                 PROVE  first' = Artifacts' /\ Told(first, {}, {})'
      BY DEF FirstTells
    <2>1. phase \in Phases /\ first' = f /\ Artifacts' = Artifacts
      BY <1>2, <1>4 DEF InsideInv, OpFit
    <2>2. f = Artifacts /\ Told(f, {}, {})
      BY <1>0, <1>2, <1>4, <2>1 DEF FirstTells
    <2>3. Told(f, {}, {})'
      BY <1>1, <2>2
    <2> QED BY <2>1, <2>2, <2>3
  <1>5. CASE ReadForDerivation
    <2>1. Shaped(manifest)
      BY <1>5 DEF InsideInv, OpFit, ReadForDerivation
    <2>2. Artifacts' = Artifacts
      BY <1>5, <2>1, HashKeepsTheRest DEF ReadForDerivation
    <2> QED BY <1>4, <1>5, <2>2 DEF ReadForDerivation
  <1>6. CASE Begin \/ ReadPack \/ ReadManifest \/ Fail
    BY <1>4, <1>6 DEF Begin, ReadPack, ReadManifest, Fail
  <1>7. CASE OpenNext \/ ReadPayload \/ ReadSource \/ ParseByName \/ ParentsParsed
    BY <1>4, <1>7 DEF OpenNext, Reading, ReadPayload, ReadSource, ParseByName, ParentsParsed,
       Artifacts
  <1>8. CASE ParentsKnown \/ BindMember \/ TryNextParent \/ Bound \/ Return
    BY <1>4, <1>8 DEF ParentsKnown, Parsed, Derived, BindMember, TryNextParent, Unbound, Bound,
       Return, Artifacts
  <1>9. CASE WalkOn \/ OpenOn
    BY <1>4, <1>9 DEF WalkOn, OpenOn, op_vars, Artifacts
  <1> QED BY <1>3, <1>5, <1>6, <1>7, <1>8, <1>9 DEF Reader

(* The manifest that was read, or derived, is that of some moment.          *)
LEMMA ReaderManifestTells ==
  ASSUME InsideInv, OneChange, Reader
  PROVE  ManifestTells'
  <1>0. ManifestTells /\ ReadingTells /\ ArtifactsTell /\ UNCHANGED op
    BY ReaderKeeps DEF OneChange
  <1> USE DEF Known, Phases
  <1>1. CASE ReadManifest
    <2>1. /\ reading = ManifestPath /\ member # NoMember /\ member.file # None /\ Known({})
          /\ member.file = member.held
          /\ Content \in DOMAIN Manifests /\ manifest' = Manifests[Content] /\ trees' = trees
      BY <1>0, <1>1 DEF ReadManifest, Gets, Readable, ArtifactsTell, InsideInv, MemberFit
    <2>2. Tells(ManifestPath, Content)
      BY <1>0, <2>1, LayoutAssumption DEF ReadingTells, Content
    <2> QED BY <2>1, <2>2 DEF ManifestTells, Tells, Artifacts
  <1>2. CASE ReadForDerivation
    <2>1. Shaped(manifest) /\ op.mode = "derive" /\ Known({"pack", "manifest"})
      BY <1>0, <1>2 DEF InsideInv, OpFit, ReadForDerivation, ArtifactsTell
    <2>2. Artifacts' = Artifacts /\ trees' = trees
      BY <1>2, <2>1, HashKeepsTheRest DEF ReadForDerivation
    <2> QED BY <1>0, <2>1, <2>2 DEF ManifestTells
  <1>3. ASSUME phase' \notin {"pack", "manifest", "idle", "failed"} =>
                 /\ phase \notin {"pack", "manifest", "idle", "failed"}
                 /\ UNCHANGED <<manifest, trees>>
        PROVE  ManifestTells'
    BY <1>0, <1>3 DEF ManifestTells, InsideInv, OpFit, Artifacts
  <1>4. CASE Begin \/ ReadPack \/ Fail
    BY <1>3, <1>4 DEF Begin, ReadPack, Fail
  <1>5. CASE Inventoried \/ OpenNext \/ ReadPayload \/ ReadSource \/ ParseByName
    BY <1>3, <1>5 DEF Inventoried, OpenNext, Reading, ReadPayload, ReadSource, ParseByName
  <1>6. CASE ParentsParsed \/ ParentsKnown \/ BindMember \/ TryNextParent \/ Bound \/ Return
    BY <1>3, <1>6 DEF ParentsParsed, ParentsKnown, Parsed, Derived, BindMember, TryNextParent,
       Unbound, Bound, Return
  <1>7. CASE WalkOn \/ OpenOn
    BY <1>3, <1>7 DEF WalkOn, OpenOn, op_vars
  <1> QED BY <1>1, <1>2, <1>4, <1>5, <1>6, <1>7 DEF Reader

(* What was read and found right was there at some moment.                  *)
LEMMA ReaderArtifactsTell ==
  ASSUME InsideInv, BoundInv, OneChange, Reader
  PROVE  ArtifactsTell'
  <1>0. ReadingTells /\ ArtifactsTell /\ UNCHANGED op
    BY ReaderKeeps DEF OneChange
  <1>1. ASSUME Readable, reading \in Paths, Known({})
        PROVE  Tells(reading, Content)
    <2>1. member # NoMember /\ member.file = member.held /\ member.file # None
      BY <1>1 DEF Readable, InsideInv, MemberFit
    <2> QED BY <1>0, <1>1, <2>1 DEF ReadingTells, Content
  <1>2. CASE Begin \/ ReadManifest \/ Fail
    BY <1>2 DEF Begin, ReadManifest, Fail, ArtifactsTell
  <1>3. CASE ReadPack
    BY <1>3 DEF ReadPack, ArtifactsTell
  <1>4. CASE Inventoried
    <2>1. /\ op.mode = "resolve" => phase' = "payload" /\ reading' = op.selected
          /\ op.mode # "resolve" => phase' = "parents"
      BY <1>4 DEF Inventoried
    <2> QED BY <1>0, <2>1 DEF ArtifactsTell
  <1>5. CASE OpenNext
    BY <1>0, <1>5 DEF OpenNext, Reading, ArtifactsTell, Tells, Artifacts
  <1>6. CASE ReadPayload
    <2>1. /\ reading = op.selected /\ phase' = "sources" /\ trees' = trees
          /\ sources' = [p \in {reading} |-> Content] /\ first' = first
          /\ todo' = (SdlMembers \cap first) \ {reading}
      BY <1>0, <1>6 DEF ReadPayload, ArtifactsTell
    <2>2. op.selected \in Paths => Tells(op.selected, Content)
      BY <1>1, <1>6, <2>1 DEF ReadPayload, Known, Phases
    <2> QED BY <1>0, <2>1, <2>2 DEF ArtifactsTell, Tells
  <1>7. CASE ReadSource
    <2>1. /\ phase = "sources" /\ phase' = "sources" /\ trees' = trees
          /\ sources' = [p \in DOMAIN sources \cup {reading} |->
                           IF p = reading THEN Content ELSE sources[p]]
          /\ first' = first /\ todo' = todo \ {reading}
      BY <1>7 DEF ReadSource, GotMember
    <2>2. reading \in Paths => Tells(reading, Content)
      BY <1>1, <1>7, <2>1 DEF ReadSource, Known, Phases
    <2> QED BY <1>0, <2>1, <2>2 DEF ArtifactsTell, Tells
  <1>8. CASE ReadForDerivation \/ ParseByName
    BY <1>0, <1>8 DEF ReadForDerivation, ParseByName, ArtifactsTell
  <1>9. CASE ParentsParsed
    BY <1>0, <1>9 DEF ParentsParsed, ArtifactsTell
  <1>10. CASE ParentsKnown
    <2>1. /\ phase' = "bind" /\ todo' = ToBind /\ UNCHANGED <<sources, manifest, trees>>
          /\ op.mode = "resolve" =>
               /\ phase = "sources" /\ todo = {} /\ Cardinality(Parents) = 1
               /\ sources[op.selected] = manifest.of[op.selected]
      BY <1>0, <1>10 DEF ParentsKnown, Parsed, EnoughParents, ArtifactsTell
    <2>2. op.mode = "resolve" =>
            /\ op.selected \in DOMAIN sources
            /\ \A p \in DOMAIN sources \cap Paths : Tells(p, sources[p])
            /\ SdlMembers \cap first \subseteq DOMAIN sources
      BY <1>0, <2>1 DEF ArtifactsTell
    <2>4. op.mode = "resolve" => \E p \in DirectDocs : Tells(p, manifest.parent)
      <3> SUFFICES ASSUME op.mode = "resolve"
                   PROVE  \E p \in DirectDocs : Tells(p, manifest.parent)
        OBVIOUS
      <3>1. Parents # {}
        BY <2>1, FS_EmptySet
      <3>2. PICK p \in first \cap DirectDocs : sources[p] = manifest.parent
        BY <3>1 DEF Parents
      <3>3. p \in DOMAIN sources \cap Paths
        BY <2>2, LayoutAssumption
      <3> QED BY <2>2, <3>2, <3>3
    <2>3. \A p \in Artifacts \ ToBind : op.mode = "resolve" /\ p = op.selected
      BY DEF ToBind
    <2> QED BY <1>0, <2>1, <2>2, <2>3, <2>4 DEF ArtifactsTell, Tells, Artifacts
  <1>11. CASE BindMember
    <2>1. /\ phase = "bind" /\ phase' = "bind" /\ todo' = todo \ {reading}
          /\ UNCHANGED <<sources, manifest, trees>> /\ Content = manifest.of[reading]
      BY <1>11 DEF BindMember, Matches
    <2>2. reading \in Paths => Tells(reading, Content)
      BY <1>1, <1>11, <2>1 DEF BindMember, Known, Phases
    <2> QED BY <1>0, <2>1, <2>2 DEF ArtifactsTell, Tells, Artifacts
  <1>12. CASE TryNextParent
    <2>1. /\ phase = "bind" /\ phase' = "bind" /\ todo' = ToBind
          /\ UNCHANGED <<sources, manifest, trees>>
      BY <1>12 DEF TryNextParent, Unbound
    <2>2. \A p \in Artifacts \ ToBind : op.mode = "resolve" /\ p = op.selected
      BY DEF ToBind
    <2>3. op.mode = "resolve" => sources[op.selected] = manifest.of[op.selected]
      BY <2>1 DEF BoundInv
    <2> QED BY <1>0, <2>1, <2>2, <2>3 DEF ArtifactsTell, Tells, Artifacts
  <1>13. CASE Bound
    BY <1>0, <1>13 DEF Bound, ArtifactsTell, Tells, Artifacts
  <1>14. CASE Return
    BY <1>0, <1>14 DEF Return, ArtifactsTell, Tells, Artifacts
  <1>15. CASE WalkOn \/ OpenOn
    BY <1>0, <1>15 DEF WalkOn, OpenOn, op_vars, ArtifactsTell, Tells, Artifacts
  <1> QED BY <1>2, <1>3, <1>4, <1>5, <1>6, <1>7, <1>8, <1>9, <1>10, <1>11, <1>12, <1>13,
             <1>14, <1>15 DEF Reader

--------------------------------------------------------------------------------
(* The invariant holds.                                                     *)
LEMMA InitTree == Init => TreeInv
  <1> SUFFICES ASSUME Init PROVE TreeInv OBVIOUS
  <1>1. InsideInv
    BY InitInside
  <1>2. BoundInv /\ changes \in Nat
    BY DEF Init, BoundInv
  <1>3. History
    BY ContentAssumption DEF Init, History, ContentsFit, NoNewDirectory, Known
  <1>4. WalkTells /\ FirstTells /\ ReadingTells /\ ManifestTells /\ ArtifactsTell
    BY DEF Init, WalkTells, FirstTells, ReadingTells, ManifestTells, ArtifactsTell, Known
  <1> QED BY <1>1, <1>2, <1>3, <1>4 DEF TreeInv, OneChange

(* A step that changes no variable changes no part.                         *)
LEMMA StutterTells ==
  ASSUME OneChange, UNCHANGED vars
  PROVE  OneChange'
  <1> USE DEF vars
  <1>0. UNCHANGED <<dirs, files, walk, member, op, phase, root, manifest, first, todo,
                    reading, sources, changes, trees>>
    OBVIOUS
  <1>1. Now' = Now
    BY DEF Now, TreeOf, EntryAt
  <1>2. History'
    <2>1. \A t : /\ HadFiles(t)' <=> HadFiles(t)
                 /\ OneFile(t)' <=> OneFile(t)
                 /\ OnePath(t)' <=> OnePath(t)
                 /\ OneDirectory(t)' <=> OneDirectory(t)
      BY <1>1 DEF HadFiles, OneFile, OnePath, OneDirectory, EntryThen, WasDir, DirThen
    <2>2. (OneTree' <=> OneTree) /\ (TwoTrees' <=> TwoTrees)
      BY <1>1, <2>1 DEF OneTree, TwoTrees
    <2>3. (ContentsFit' <=> ContentsFit) /\ (NoNewDirectory' <=> NoNewDirectory)
      BY DEF ContentsFit, NoNewDirectory
    <2>4. LostTells' <=> LostTells
      BY DEF LostTells, Tells, WasDir, DirThen
    <2> QED BY <2>2, <2>3, <2>4 DEF OneChange, History, Known
  <1>3. WalkTells'
    BY WalkTellsUnchanged DEF OneChange
  <1>4. FirstTells'
    <2>1. Told(first, {}, {})' <=> Told(first, {}, {})
      BY DEF Told, SeenFile, SeenThere, SeenGone, SingleLinks, LinkCount, EntryThen, WasDir,
         DirThen
    <2> QED BY <2>1 DEF OneChange, FirstTells, Known, Artifacts
  <1>5. ReadingTells'
    BY DEF OneChange, ReadingTells, Below1, Tells, EntryThen, Known, NoMember
  <1>6. ManifestTells'
    BY DEF OneChange, ManifestTells, Known, Artifacts
  <1>7. ArtifactsTell'
    BY DEF OneChange, ArtifactsTell, Tells, Artifacts
  <1> QED BY <1>2, <1>3, <1>4, <1>5, <1>6, <1>7 DEF OneChange

LEMMA TreeStep == TreeInv /\ [Next]_vars => TreeInv'
  <1> SUFFICES ASSUME TreeInv, [Next]_vars PROVE TreeInv' OBVIOUS
  <1>0. InsideInv /\ InsideInv' /\ BoundInv /\ BoundInv' /\ changes \in Nat
    BY InsideStep, BoundStep DEF TreeInv
  <1>1. CASE Reader
    <2>1. UNCHANGED changes
      BY <1>0, <1>1, ReaderKeeps
    <2>2. ASSUME changes <= 1 PROVE OneChange'
      <3>1. OneChange /\ changes \in {0, 1}
        BY <1>0, <2>2 DEF TreeInv
      <3>2. History'
        BY <1>0, <1>1, <3>1, ReaderHistory DEF OneChange
      <3> QED BY <1>0, <1>1, <3>1, <3>2, ReaderWalkTells, ReaderReadingTells, ReaderFirstTells,
                 ReaderManifestTells, ReaderArtifactsTell DEF OneChange
    <2> QED BY <1>0, <2>1, <2>2 DEF TreeInv
  <1>2. CASE Author
    <2>1. changes' = changes + 1
      BY <1>2 DEF Author, SaveByRename, SaveInPlace, Replace, ReplaceRoot, Change
    <2>2. CASE changes = 0
      <3>1. OneChange
        BY <2>2 DEF TreeInv
      <3>2. OneChange'
        BY <1>0, <1>2, <2>2, <3>1, OneChangeGoesOn
      <3> QED BY <1>0, <2>1, <3>2 DEF TreeInv
    <2>3. CASE changes # 0
      <3>1. ~(changes' <= 1) /\ changes' \in Nat
        BY <1>0, <2>1, <2>3
      <3> QED BY <1>0, <3>1 DEF TreeInv
    <2> QED BY <2>2, <2>3
  <1>3. CASE UNCHANGED vars
    <2>1. UNCHANGED changes
      BY <1>3 DEF vars
    <2> QED BY <1>0, <1>3, <2>1, StutterTells DEF TreeInv
  <1> QED BY <1>1, <1>2, <1>3 DEF Next

--------------------------------------------------------------------------------
(* What the manifest says of a path is what a tree has there.               *)
Fits(t, p) ==
  IF p = ManifestPath
  THEN /\ t[p] \in DOMAIN Manifests
       /\ LET stored == Manifests[t[p]]
          IN IF op.mode = "derive" THEN DOMAIN stored.of = Artifacts ELSE stored = manifest
  ELSE t[p] = IF p \in Artifacts THEN manifest.of[p] ELSE None

(* A file that was a member all the time was met by a complete walk.        *)
LEMMA MembersAreFound ==
  ASSUME NoNewDirectory, NEW found, Told(found, {}, {}), NEW p \in Paths, p # ManifestPath,
         EntryThen(p).kind = "file", EntryAt(Root, p).kind = "file"
  PROVE  p \in found
  <1>0. Absent.kind # "file"
    BY DEF Absent
  <1>1. CASE \E a \in Names : p = <<a>>
    <2>1. PICK a \in Names : p = <<a>>
      BY <1>1
    <2>2. InitialDirs[Root][a].kind = "file" /\ dirs[Root][a].kind = "file"
      BY <2>1, EntriesAt, EntriesThen
    <2> QED BY <2>1, <2>2 DEF Told, SeenFile
  <1>2. CASE \E a, x \in Names : p = <<a, x>>
    <2>1. PICK a \in Names, x \in Names : p = <<a, x>>
      BY <1>2
    <2>2. WasDir(a) /\ InitialDirs[DirThen(a)][x].kind = "file"
      BY <1>0, <2>1, EntriesThen
    <2>3. dirs[Root][a].kind = "dir" /\ dirs[dirs[Root][a].of][x].kind = "file"
      BY <1>0, <2>1, EntriesAt
    <2>4. dirs[Root][a].of = DirThen(a)
      BY <2>3, PackFilesAssumption DEF NoNewDirectory, DirThen
    <2>5. SeenThere(a, found, {})
      BY <2>2, <2>3 DEF Told, SeenGone
    <2> QED BY <2>1, <2>2, <2>3, <2>4, <2>5 DEF SeenThere
  <1> QED BY <1>1, <1>2, PathForms

(* Two paths to one file are two links to it.                               *)
LEMMA TwoPathsAreTwoLinks ==
  ASSUME dirs = InitialDirs, NEW f, NEW p \in Paths, NEW q \in Paths, p # q,
         EntryThen(p) = FileEntry(f), EntryThen(q) = FileEntry(f)
  PROVE  ~(LinkCount(f) <= 1)
  <1> DEFINE Place(s) == IF Len(s) = 1 THEN <<Root, s[1]>> ELSE <<DirThen(s[1]), s[2]>>
  <1>0. Absent # FileEntry(f)
    BY DEF Absent, FileEntry
  <1>1. ASSUME NEW s \in Paths, EntryThen(s) = FileEntry(f)
        PROVE  /\ Place(s) \in Dirs \X Names
               /\ dirs[Place(s)[1]][Place(s)[2]] = FileEntry(f)
    <2>1. CASE \E a \in Names : s = <<a>>
      <3>1. PICK a \in Names : s = <<a>>
        BY <2>1
      <3>2. Place(s) = <<Root, a>>
        BY <3>1
      <3> QED BY <1>1, <3>1, <3>2, EntriesThen, PackFilesAssumption
    <2>2. CASE \E a, x \in Names : s = <<a, x>>
      <3>1. PICK a \in Names, x \in Names : s = <<a, x>>
        BY <2>2
      <3>2. Place(s) = <<DirThen(a), x>>
        BY <3>1
      <3>3. WasDir(a) /\ InitialDirs[DirThen(a)][x] = FileEntry(f)
        BY <1>0, <1>1, <3>1, EntriesThen
      <3>4. DirThen(a) \in Dirs
        BY <3>3, InitialForms DEF Inner
      <3> QED BY <3>2, <3>3, <3>4
    <2> QED BY <2>1, <2>2, PathForms
  <1>2. Place(p) # Place(q)
    <2>1. ASSUME NEW s \in Paths, NEW a \in Names, NEW x \in Names, s = <<a, x>>,
                 EntryThen(s) = FileEntry(f)
          PROVE  WasDir(a) /\ DirThen(a) # Root /\ InitialDirs[Root][a] = DirEntry(DirThen(a))
      BY <1>0, <2>1, EntriesThen, InitialForms
    <2>2. ASSUME NEW a \in Names, NEW b \in Names, p = <<a>>, q = <<b>>
          PROVE  Place(p) # Place(q)
      BY <2>2
    <2>3. ASSUME NEW a \in Names, NEW b \in Names, NEW y \in Names, p = <<a>>, q = <<b, y>>
          PROVE  Place(p) # Place(q)
      BY <2>1, <2>3
    <2>4. ASSUME NEW a \in Names, NEW b \in Names, NEW x \in Names, p = <<a, x>>, q = <<b>>
          PROVE  Place(p) # Place(q)
      BY <2>1, <2>4
    <2>5. ASSUME NEW a \in Names, NEW b \in Names, NEW x \in Names, NEW y \in Names,
                 p = <<a, x>>, q = <<b, y>>
          PROVE  Place(p) # Place(q)
      <3>1. a # b \/ x # y
        BY <2>5
      <3>2. DirThen(a) = DirThen(b) => a = b
        BY <2>1, <2>5, InitialForms, LayoutAssumption DEF Inner
      <3> QED BY <2>5, <3>1, <3>2
    <2> QED BY <2>2, <2>3, <2>4, <2>5, PathForms
  <1> HIDE DEF Place
  <1> QED BY <1>1, <1>2, LinksCounted

(* One change to the content of one file changes one path at most.          *)
LEMMA OneFileIsOnePath ==
  ASSUME NEW t, OneFile(t), Told(Artifacts, {}, {}), NoNewDirectory
  PROVE  OnePath(t)
  <1>1. PICK f \in Files : \A p \in Paths : EntryThen(p) # FileEntry(f) => t[p] = Now[p]
    BY DEF OneFile
  <1>2. dirs = InitialDirs
    BY DEF OneFile
  <1>3. ASSUME NEW p \in Paths, NEW q \in Paths, p # q,
               EntryThen(p) = FileEntry(f), EntryThen(q) = FileEntry(f)
        PROVE  FALSE
    <2>1. PICK s \in Paths : s # ManifestPath /\ EntryThen(s) = FileEntry(f)
      BY <1>3
    <2>2. s \in Artifacts
      BY <1>2, <2>1, AtIsThen, MembersAreFound DEF FileEntry
    <2>3. LinkCount(f) <= 1
      BY <1>2, <2>1, <2>2 DEF Told, SingleLinks, FileEntry
    <2> QED BY <1>2, <1>3, <2>3, TwoPathsAreTwoLinks
  <1>4. ManifestPath \in MemberPaths
    BY ResolutionAssumption
  <1>5. ASSUME NEW p \in Paths PROVE p \in MemberPaths
    <2>1. \A a \in Names : <<a>> \in MemberPaths
      BY DEF MemberPaths
    <2>2. \A a, x \in Names : <<a, x>> \in MemberPaths
      BY DEF MemberPaths
    <2> QED BY <2>1, <2>2, PathForms
  <1> QED BY <1>1, <1>3, <1>4, <1>5 DEF OnePath

(* What is known once the operation accepted a manifest.                    *)
Accepted ==
  /\ NoNewDirectory /\ ContentsFit /\ DirsFit /\ TwoTrees
  /\ Told(Artifacts, {}, {})
  /\ \E t \in trees : t[ManifestPath] # None /\ Fits(t, ManifestPath)
  /\ \A p \in Artifacts \cap Paths : Tells(p, manifest.of[p])

LEMMA AcceptedIsKnown ==
  ASSUME TreeInv, phase = "ok", changes <= 1
  PROVE  Accepted
  <1>1. /\ OneChange /\ DirsFit /\ changes \in {0, 1} /\ Known({}) /\ Known({"pack", "manifest"})
        /\ Known({"pack", "manifest", "inventory"})
    BY DEF TreeInv, InsideInv, Known, Phases
  <1>2. NoNewDirectory /\ ContentsFit /\ Told(Artifacts, {}, {})
    BY <1>1 DEF OneChange, History, FirstTells
  <1>3. \E t \in trees : t[ManifestPath] # None /\ Fits(t, ManifestPath)
    BY <1>1 DEF OneChange, ManifestTells, Fits
  <1>4. \A p \in Artifacts \cap Paths : Tells(p, manifest.of[p])
    BY <1>1 DEF OneChange, ArtifactsTell
  <1>5. TwoTrees
    <2>1. CASE changes = 1
      BY <1>1, <2>1 DEF OneChange, History
    <2>2. CASE changes = 0
      <3>1. dirs = InitialDirs /\ trees = {Now}
        BY <1>1, <2>2 DEF OneChange, History, OneTree
      <3>2. HadFiles(Now)
        BY <1>1, <1>2, <3>1, NowHas, AtIsThen DEF HadFiles
      <3>3. OnePath(Now)
        BY ResolutionAssumption DEF OnePath
      <3> QED BY <3>1, <3>2, <3>3 DEF TwoTrees
    <2> QED BY <1>1, <2>1, <2>2
  <1> QED BY <1>1, <1>2, <1>3, <1>4, <1>5 DEF Accepted

(* Every path fits the manifest in one of the two trees.                    *)
LEMMA EachPathFits ==
  ASSUME Accepted, NEW p \in Paths
  PROVE  \E t \in trees : Fits(t, p)
  <1>1. CASE p = ManifestPath
    BY <1>1 DEF Accepted
  <1>2. CASE p # ManifestPath /\ p \in Artifacts
    BY <1>2 DEF Accepted, Tells, Fits
  <1>3. CASE p # ManifestPath /\ p \notin Artifacts
    <2>1. PICK t : trees = {t, Now} /\ HadFiles(t)
      BY DEF Accepted, TwoTrees
    <2>2. t[p] = None \/ Now[p] = None
      <3> SUFFICES ASSUME t[p] # None, Now[p] # None PROVE FALSE
        OBVIOUS
      <3>1. EntryThen(p).kind = "file" /\ EntryAt(Root, p).kind = "file"
        BY <2>1, NowHas DEF HadFiles, Accepted
      <3> QED BY <1>3, <3>1, MembersAreFound DEF Accepted
    <2> QED BY <1>3, <2>1, <2>2 DEF Fits
  <1> QED BY <1>1, <1>2, <1>3

(* Fitting depends on the content alone.                                    *)
LEMMA SameFits ==
  ASSUME NEW t, NEW u, NEW p, t[p] = u[p], Fits(t, p)
  PROVE  Fits(u, p)
  BY DEF Fits

(* A member that was replaced, or a content that was, leaves one of the two *)
(* trees right.                                                             *)
LEMMA OnePathLeavesOne ==
  ASSUME Accepted, NEW t, trees = {t, Now}, OnePath(t)
  PROVE  \E u \in trees : \A p \in Paths : Fits(u, p)
  <1>1. PICK q \in MemberPaths : \A p \in Paths \ {q} : t[p] = Now[p]
    BY DEF OnePath
  <1>2. ASSUME NEW u \in trees, NEW p \in Paths, p # q
        PROVE  Fits(u, p)
    <2>1. PICK v \in trees : Fits(v, p)
      BY EachPathFits
    <2>2. v[p] = u[p]
      BY <1>1, <1>2
    <2> QED BY <2>1, <2>2, SameFits
  <1>3. CASE q \in Paths
    <2>1. PICK u \in trees : Fits(u, q)
      BY <1>3, EachPathFits
    <2> QED BY <1>2, <2>1
  <1>4. CASE q \notin Paths
    BY <1>2, <1>4
  <1> QED BY <1>3, <1>4

(* So does a directory that was replaced: the one before when the walk met  *)
(* it, the one after when it did not.                                       *)
LEMMA OneDirectoryLeavesOne ==
  ASSUME Accepted, NEW t, trees = {t, Now}, HadFiles(t), OneDirectory(t)
  PROVE  \E u \in trees : \A p \in Paths : Fits(u, p)
  <1>1. PICK a \in Names : /\ WasDir(a) /\ dirs[Root][a].kind # "dir"
                           /\ dirs[DirThen(a)] = InitialDirs[DirThen(a)]
                           /\ \A p \in Paths : p[1] # a => t[p] = Now[p]
    BY DEF OneDirectory
  <1>2. ASSUME NEW u \in trees, NEW p \in Paths, p[1] # a
        PROVE  Fits(u, p)
    <2>1. PICK v \in trees : Fits(v, p)
      BY EachPathFits
    <2>2. v[p] = u[p]
      BY <1>1, <1>2
    <2> QED BY <2>1, <2>2, SameFits
  <1>3. ASSUME NEW p \in Paths, p[1] = a
        PROVE  p = <<a>> \/ \E x \in Names : p = <<a, x>>
    <2>1. ASSUME NEW b \in Names, p = <<b>> PROVE p = <<a>>
      BY <1>3, <2>1
    <2>2. ASSUME NEW b \in Names, NEW x \in Names, p = <<b, x>> PROVE p = <<a, x>>
      BY <1>3, <2>2
    <2> QED BY <2>1, <2>2, PathForms
  <1>4. ASSUME <<a>> \in Paths PROVE t[<<a>>] = None
    <2>1. EntryThen(<<a>>).kind # "file"
      BY <1>1, EntriesThen DEF WasDir
    <2> QED BY <1>4, <2>1 DEF HadFiles
  <1>5. ASSUME NEW x \in Names, <<a, x>> \in Paths PROVE Now[<<a, x>>] = None
    <2>1. EntryAt(Root, <<a, x>>).kind # "file"
      <3>1. Absent.kind # "file"
        BY DEF Absent
      <3> QED BY <1>1, <3>1, EntriesAt
    <2> QED BY <1>5, <2>1, NowHas DEF Accepted
  <1>6. \A x \in Names : <<a, x>> # ManifestPath
    BY LayoutAssumption
  <1>7. CASE SeenThere(a, Artifacts, {})
    <2>1. ASSUME <<a>> \in Paths PROVE Fits(t, <<a>>)
      BY <1>4, <1>7, <2>1 DEF SeenThere, Fits
    <2>2. ASSUME NEW x \in Names, <<a, x>> \in Paths PROVE Fits(t, <<a, x>>)
      <3>1. CASE <<a, x>> \in Artifacts
        BY <1>5, <1>6, <2>2, <3>1 DEF Accepted, Tells, Fits
      <3>2. CASE <<a, x>> \notin Artifacts
        <4>1. InitialDirs[DirThen(a)][x].kind # "file"
          BY <1>1, <1>7, <2>2, <3>2 DEF SeenThere
        <4>2. t[<<a, x>>] = None
          BY <1>1, <2>2, <4>1, EntriesThen DEF HadFiles
        <4> QED BY <1>6, <3>2, <4>2 DEF Fits
      <3> QED BY <3>1, <3>2
    <2>3. \A p \in Paths : Fits(t, p)
      BY <1>2, <1>3, <2>1, <2>2
    <2> QED BY <2>3
  <1>8. CASE SeenGone(a, Artifacts)
    <2>1. ASSUME <<a>> \in Paths PROVE Fits(Now, <<a>>)
      <3>1. CASE <<a>> = ManifestPath
        <4>1. PICK v \in trees : v[ManifestPath] # None /\ Fits(v, ManifestPath)
          BY <3>1 DEF Accepted
        <4> QED BY <1>4, <2>1, <3>1, <4>1
      <3>2. CASE <<a>> # ManifestPath /\ <<a>> \in Artifacts
        BY <1>4, <2>1, <3>2 DEF Accepted, Tells, Fits
      <3>3. CASE <<a>> # ManifestPath /\ <<a>> \notin Artifacts
        <4>1. EntryAt(Root, <<a>>).kind # "file"
          BY <1>8, <3>3, EntriesAt DEF SeenGone
        <4>2. Now[<<a>>] = None
          BY <2>1, <4>1, NowHas DEF Accepted
        <4> QED BY <3>3, <4>2 DEF Fits
      <3> QED BY <3>1, <3>2, <3>3
    <2>2. ASSUME NEW x \in Names, <<a, x>> \in Paths PROVE Fits(Now, <<a, x>>)
      BY <1>5, <1>6, <1>8, <2>2 DEF SeenGone, Fits
    <2>3. \A p \in Paths : Fits(Now, p)
      BY <1>2, <1>3, <2>1, <2>2
    <2> QED BY <2>3
  <1> QED BY <1>1, <1>7, <1>8 DEF Accepted, Told

(* An operation that accepted a manifest while at most one thing changed    *)
(* accepted members that were there at one moment: the two inventories and  *)
(* the binding leave one change no place to hide.  The document a resolver  *)
(* took for the parent was an SDL member at some moment, maybe another.     *)
THEOREM AcceptedTreesExisted == Spec => []AcceptedTreeExisted
  <1>1. TreeInv => AcceptedTreeExisted
    <2> SUFFICES ASSUME TreeInv, phase = "ok", changes <= 1
                 PROVE  /\ \E t \in trees : Conforms(t)
                        /\ op.mode = "resolve" =>
                             \E t \in trees, d \in DirectDocs : t[d] = manifest.parent
      BY DEF AcceptedTreeExisted
    <2>1. Accepted
      BY AcceptedIsKnown
    <2>2. PICK t : trees = {t, Now} /\ HadFiles(t) /\ (OneFile(t) \/ OnePath(t) \/ OneDirectory(t))
      BY <2>1 DEF Accepted, TwoTrees
    <2>3. OnePath(t) \/ OneDirectory(t)
      BY <2>1, <2>2, OneFileIsOnePath DEF Accepted
    <2>4. PICK u \in trees : \A p \in Paths : Fits(u, p)
      BY <2>1, <2>2, <2>3, OnePathLeavesOne, OneDirectoryLeavesOne
    <2>5. Conforms(u)
      BY <2>4, LayoutAssumption DEF Fits, Conforms
    <2>6. op.mode = "resolve" => \E d \in DirectDocs : Tells(d, manifest.parent)
      BY DEF TreeInv, OneChange, ArtifactsTell
    <2> QED BY <2>5, <2>6 DEF Tells
  <1> QED BY <1>1, InitTree, TreeStep, PTL DEF Spec
================================================================================
