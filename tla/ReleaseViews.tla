----------------------------- MODULE ReleaseViews -----------------------------
(***************************************************************************)
(* How release.py splits a pack into views.  The compatibility manifest    *)
(* declares boundary rows, each a group, a distribution class and a path;  *)
(* the group alone decides the view.  A path is the sequence of its        *)
(* components and a tree maps the paths of its leaves to "file", "link"    *)
(* (to a file, also a second hard link) or "dirlink".                      *)
(***************************************************************************)
EXTENDS Sequences, SequencesExt

(* What a document lists is a list, and so is a path. *)
IsList(list) == list \in Seq(ToSet(list))

BoundaryTiers == [participant_visible |-> "participant", operator_only |-> "operator",
                  oracle_only |-> "restricted", commercial |-> "commercial"]
Tiers == {BoundaryTiers[group] : group \in DOMAIN BoundaryTiers}

(* _is_restricted_boundary *)
Restricted(row) ==
  \/ row.group \in {"operator_only", "oracle_only"}
  \/ row.export \in {"operator", "oracle", "private"}

(* Defect: a participant row above a restricted root is not noticed. *)
UnderRestricted(rows) ==
  \E p, r \in rows : /\ p.group = "participant_visible" /\ Restricted(r)
                     /\ IsPrefix(r.path, p.path)

(* _boundary_overlaps: the same path, one above it or one below it. *)
BoundaryOverlaps(rows) ==
  \E p, r \in rows : /\ p.group = "participant_visible" /\ Restricted(r)
                     /\ (IsPrefix(p.path, r.path) \/ IsPrefix(r.path, p.path))

(* _stage: a directory is staged leaf by leaf, and os.walk enters no link.   *)
Below(tree, path) == {leaf \in DOMAIN tree : IsPrefix(path, leaf)}
Walked(tree, path) == {leaf \in Below(tree, path) : leaf = path \/ tree[leaf] # "dirlink"}

RowFails(tree, row) ==
  \/ Below(tree, row.path) = {}
  \/ \E leaf \in Walked(tree, row.path) : tree[leaf] # "file"

(* _stage_boundaries: view -> the members staged into it. *)
StagedMembers(tree, rows) ==
  [tier \in Tiers |-> UNION {Walked(tree, row.path) :
                               row \in {r \in rows : BoundaryTiers[r.group] = tier}}]

(* _stage_views, but for the scan of what was staged. *)
StagesCleanly(tree, rows) == ~BoundaryOverlaps(rows) /\ \A row \in rows : ~RowFails(tree, row)
================================================================================
