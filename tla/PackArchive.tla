------------------------------ MODULE PackArchive ------------------------------
(***************************************************************************)
(* The two offline routes of distribution.py from a pack tree to a staging *)
(* directory: copying the tree, and exporting it as an archive that is     *)
(* extracted again.                                                        *)
(*                                                                         *)
(* A tree maps paths to entries, a staged tree maps paths to contents.  An *)
(* archive is the sequence of its members, in the order they are met.      *)
(***************************************************************************)
EXTENDS Naturals, Sequences, SequencesExt

CONSTANTS PathOrder,     \* canonical member paths, in the order of sorted()
          SizeOf,        \* content -> bytes
          MaxCount, MaxMemberSize, MaxTotalSize, \* ArchiveLimits
          Refused        \* a staging that raised

Paths == ToSet(PathOrder)
Contents == DOMAIN SizeOf
Stagings == [count : Nat, total : Nat, files : UNION {[S -> Contents] : S \in SUBSET Paths}]

ASSUME ArchiveAssumption ==
  /\ PathOrder \in Seq(Paths)
  /\ \A i, j \in DOMAIN PathOrder : PathOrder[i] = PathOrder[j] => i = j
  /\ \A content \in Contents : SizeOf[content] \in Nat
  /\ {MaxCount, MaxMemberSize, MaxTotalSize} \subseteq Nat
  /\ Refused \notin Stagings

Regular(tree) == {p \in DOMAIN tree : tree[p].kind = "file"}

(* Defect: links are followed when the tree is copied. *)
CopyAll(tree) == [p \in DOMAIN tree |-> tree[p].content]

(* _stage_tree: regular files, links left out. *)
StagedTree(tree) == [p \in Regular(tree) |-> tree[p].content]

(* export_pack_archive: the same files in a stable order. *)
Export(tree) ==
  LET Member(p) == [name |-> p, kind |-> "file", content |-> tree[p].content]
  IN FlattenSeq([i \in DOMAIN PathOrder |->
       IF PathOrder[i] \in Regular(tree) THEN <<Member(PathOrder[i])>> ELSE <<>>])

--------------------------------------------------------------------------------
(* stage_pack_archive, member by member.  A directory counts as a member and *)
(* is skipped; everything else but a new regular file within the limits, by  *)
(* a canonical name, refuses the archive.                                    *)
NothingStaged == [count |-> 0, total |-> 0, files |-> <<>>]

Admissible(staging, member) ==
  /\ member.kind = "file"
  /\ member.name \in Paths \ DOMAIN staging.files
  /\ SizeOf[member.content] <= MaxMemberSize
  /\ staging.total + SizeOf[member.content] <= MaxTotalSize

Extracted(staging, member) ==
  [count |-> staging.count + 1,
   total |-> staging.total + SizeOf[member.content],
   files |-> [p \in DOMAIN staging.files \cup {member.name} |->
                IF p = member.name THEN member.content ELSE staging.files[p]]]

StageMember(staging, member) ==
  IF staging = Refused \/ staging.count = MaxCount THEN Refused
  ELSE IF member.kind = "dir" THEN [staging EXCEPT !.count = @ + 1]
  ELSE IF Admissible(staging, member) THEN Extracted(staging, member) ELSE Refused

Staging(archive) ==
  LET staging[n \in 0 .. Len(archive)] ==
        IF n = 0 THEN NothingStaged ELSE StageMember(staging[n - 1], archive[n])
  IN staging
StagedArchive(archive) ==
  LET end == Staging(archive)[Len(archive)]
  IN IF end = Refused THEN Refused ELSE end.files

--------------------------------------------------------------------------------
(* The bytes of the files among the first paths.                             *)
Bytes(files) ==
  LET bytes[n \in 0 .. Len(PathOrder)] ==
        IF n = 0 THEN 0
        ELSE IF PathOrder[n] \in DOMAIN files
        THEN bytes[n - 1] + SizeOf[files[PathOrder[n]]]
        ELSE bytes[n - 1]
  IN bytes

WithinLimits(files) ==
  /\ Cardinality(DOMAIN files) <= MaxCount
  /\ \A p \in DOMAIN files : SizeOf[files[p]] <= MaxMemberSize
  /\ Bytes(files)[Len(PathOrder)] <= MaxTotalSize
================================================================================
