------------------------------- MODULE PackFiles -------------------------------
(***************************************************************************)
(* Descriptor-anchored reads below one pack root (_pack_fs.py), a system   *)
(* call per step, while somebody changes the directories under the reader. *)
(*                                                                         *)
(* A directory binds names to entries: a directory, a regular file, a      *)
(* symbolic link to an entry, or a special file.  The reader holds         *)
(* descriptors, that is identities: what becomes of the name they were     *)
(* opened by does not concern them.  `walk` is an inventory in progress    *)
(* (the generator's stack of opened directories), `member` a member that   *)
(* is being opened or read.                                                *)
(***************************************************************************)
EXTENDS Naturals, FiniteSets, Sequences, SequencesExt

CONSTANTS NameOrder,     \* the member names, in sorted order
          FoldOf,        \* name -> its case-folded form
          Dirs,          \* directory identities
          Files,         \* regular file identities
          Root, Outside, \* the pack's directory, and one that is no part of it
          Secret,        \* a regular file that is no part of the pack
          Oversize,      \* contents above the reader's byte limits
          ExcludedFile,  \* the path an inventory leaves out
          ExcludedTree,  \* the path of the directory it does not descend into
          MaxMembers,    \* members an inventory may meet
          None

VARIABLES rootEntry,  \* what the path of the pack is bound to
          dirs,       \* directory -> name -> entry
          files,      \* regular file -> its content
          walk,       \* the inventory in progress, or None
          member      \* the member being opened or read, or None

files_vars == <<rootEntry, dirs, files>>

Names == ToSet(NameOrder)
MemberPaths == Seq(Names) \ {<<>>}

ASSUME PackFilesAssumption ==
  /\ NameOrder \in Seq(Names) /\ IsFiniteSet(Dirs)
  /\ {Root, Outside} \subseteq Dirs /\ Root # Outside
  /\ Secret \in Files /\ None \notin Dirs \cup Files

Least(names) ==
  NameOrder[CHOOSE i \in DOMAIN NameOrder :
    NameOrder[i] \in names /\ \A j \in 1 .. i - 1 : NameOrder[j] \notin names]
FoldPath(path) == [i \in DOMAIN path |-> FoldOf[path[i]]]

Absent == [kind |-> "absent", of |-> None]
Special == [kind |-> "special", of |-> None]
DirEntry(d) == [kind |-> "dir", of |-> d]
FileEntry(f) == [kind |-> "file", of |-> f]
LinkToDir(d) == [kind |-> "linkdir", of |-> d]
LinkToFile(f) == [kind |-> "linkfile", of |-> f]
Entries ==
  {Absent, Special} \cup {DirEntry(d) : d \in Dirs} \cup {FileEntry(f) : f \in Files}
    \cup {LinkToDir(d) : d \in Dirs} \cup {LinkToFile(f) : f \in Files}

EntriesOf(d) == {n \in Names : dirs[d][n] # Absent}
LinkCount(f) ==
  Cardinality({b \in Dirs \X Names : dirs[b[1]][b[2]] = FileEntry(f)})

--------------------------------------------------------------------------------
(* os.open of one component.  O_NOFOLLOW refuses a link; without O_DIRECTORY *)
(* a directory or a special file opens too and is refused by its status,     *)
(* which nothing that happens meanwhile can change.                          *)
Unreachable == None

(* Defect: a link is followed to the directory it points to. *)
FollowDir(entry) ==
  IF entry.kind \in {"dir", "linkdir"} THEN entry.of ELSE Unreachable

OpenDir(entry) == IF entry.kind = "dir" THEN entry.of ELSE Unreachable

(* A status taken by name: a regular file with one link. *)
SingleFile(entry) ==
  IF entry.kind = "file" /\ LinkCount(entry.of) <= 1 THEN entry.of ELSE Unreachable

(* open_root *)
OpenedRoot == OpenDir(rootEntry)

--------------------------------------------------------------------------------
(* inventory: one walk.  It is about to list the directory it just opened,   *)
(* to visit the next name of the innermost one, or to enter what it visited. *)
NoWalk == None
WalkFrom(root) == [step |-> "list", dir |-> root, prefix |-> <<>>, stack |-> <<>>,
                   seen |-> {}, met |-> 0, found |-> {}]

At(step) == walk # NoWalk /\ walk.step = step
Walked == At("visit") /\ walk.stack = <<>>

(* _directory_names: every name is counted before the first is looked at. *)
MetWithListing == walk.met + Cardinality(EntriesOf(walk.dir))
Listed == [dir |-> walk.dir, prefix |-> walk.prefix, left |-> EntriesOf(walk.dir)]

ListDirectory ==
  /\ At("list")
  /\ MetWithListing <= MaxMembers
  /\ walk' = [walk EXCEPT
       !.step = "visit", !.met = MetWithListing,
       !.stack = IF Listed.left = {} THEN @ ELSE Append(@, Listed)]

(* A directory whose last name was visited is left. *)
Frame == Last(walk.stack)
Visited == Least(Frame.left)
VisitedPath == Append(Frame.prefix, Visited)
VisitedEntry == dirs[Frame.dir][Visited]
Past ==
  IF Frame.left = {Visited} THEN Front(walk.stack)
  ELSE [walk.stack EXCEPT ![Len(walk.stack)].left = @ \ {Visited}]

(* _member_path: two members may not differ by case alone. *)
Collides == \E p \in walk.seen : FoldPath(p) = FoldPath(VisitedPath) /\ p # VisitedPath
SeenNow == walk.seen \cup {VisitedPath}

(* _walk_payload, by the status taken without following a link. *)
VisitFile ==
  /\ At("visit") /\ walk.stack # <<>> /\ ~Collides
  /\ SingleFile(VisitedEntry) # Unreachable
  /\ walk' = [walk EXCEPT !.seen = SeenNow, !.stack = Past,
                          !.found = @ \cup ({VisitedPath} \ {ExcludedFile})]

VisitDirectory ==
  /\ At("visit") /\ walk.stack # <<>> /\ ~Collides
  /\ VisitedEntry.kind = "dir"
  /\ walk' = IF IsPrefix(ExcludedTree, VisitedPath)
             THEN [walk EXCEPT !.seen = SeenNow, !.stack = Past]
             ELSE [walk EXCEPT !.seen = SeenNow, !.step = "enter"]

(* _walk_child_directory opens by name what was a directory when visited. *)
EnterDirectory ==
  /\ At("enter")
  /\ OpenDir(VisitedEntry) # Unreachable
  /\ walk' = [walk EXCEPT !.step = "list", !.dir = OpenDir(VisitedEntry),
                          !.prefix = VisitedPath, !.stack = Past]

WalkStep == ListDirectory \/ VisitFile \/ VisitDirectory \/ EnterDirectory

(* Each way the walk raises; it yields nothing after that. *)
WalkFails ==
  \/ At("list") /\ MetWithListing > MaxMembers
  \/ /\ At("visit") /\ walk.stack # <<>>
     /\ \/ Collides
        \/ VisitedEntry.kind # "dir" /\ SingleFile(VisitedEntry) = Unreachable
  \/ At("enter") /\ OpenDir(VisitedEntry) = Unreachable

--------------------------------------------------------------------------------
(* open_member and the read that follows: component by component below the   *)
(* root descriptor, the descriptor `held` for the last one, the status that  *)
(* admits it as `file`, then the content of the one file that was opened.    *)
NoMember == None
MemberFrom(root, path) == [dir |-> root, rest |-> path, held |-> None, file |-> None]

Opening == member # NoMember /\ member.held = None
Component == dirs[member.dir][Head(member.rest)]

OpenComponent ==
  /\ Opening /\ Len(member.rest) > 1
  /\ OpenDir(Component) # Unreachable
  /\ member' = [member EXCEPT !.dir = OpenDir(Component), !.rest = Tail(@)]

(* os.open looks at the name alone: another name of the file is no obstacle. *)
OpenedFile(entry) == IF entry.kind = "file" THEN entry.of ELSE Unreachable

OpenFile ==
  /\ Opening /\ Len(member.rest) = 1
  /\ OpenedFile(Component) # Unreachable
  /\ member' = [member EXCEPT !.held = OpenedFile(Component)]

(* os.fstat, of the descriptor: the links its file has by then. *)
Inspecting == member # NoMember /\ member.held # None /\ member.file = None

(* Defect: the links are not counted. *)
AnyLinks(f) == TRUE

Admissible(f) == LinkCount(f) <= 1

AdmitFile ==
  /\ Inspecting /\ Admissible(member.held)
  /\ member' = [member EXCEPT !.file = member.held]

OpenStep == OpenComponent \/ OpenFile \/ AdmitFile

OpenFails ==
  \/ /\ Opening
     /\ IF Len(member.rest) > 1 THEN OpenDir(Component) = Unreachable
        ELSE OpenedFile(Component) = Unreachable
  \/ Inspecting /\ ~Admissible(member.held)

(* read_member_bytes: the content there is when it is read. *)
Readable == member # NoMember /\ member.file # None
Content == files[member.file]
ReadOverflows == Readable /\ Content \in Oversize

================================================================================
