--------------------------- MODULE ComponentBoundary ---------------------------
(***************************************************************************)
(* component_boundary.py: the components a release's SBOM inventories.     *)
(*                                                                         *)
(* Three authorities are asked, in this order: the module lock, the        *)
(* inventories of the materialized kits and the exact artifacts of the     *)
(* SDL.  What the author declares beside them may add to a component but   *)
(* not contradict it.  A component is [ref, digest, authority, extra],     *)
(* `extra` standing for license, provenance and upstream SBOM.             *)
(*                                                                         *)
(* A pack has a lock (the sequence of its imports), kits (the sequence of  *)
(* its materialized kits, each with the rows of its inventory, Unavailable *)
(* when its source is), exact (the sequence of its exact artifacts),       *)
(* declared (the sequence of declared rows) and artifacts (associated ids).*)
(***************************************************************************)
EXTENDS Naturals, Sequences, SequencesExt

CONSTANTS Unavailable, \* a kit whose source cannot be opened
          NoDigest, BadDigest

Component(ref, digest, authority) ==
  [ref |-> ref, digest |-> digest, authority |-> authority, extra |-> {}]
Controlled == {"shipped", "pinned"}

(* _component_semantics and _unknown_artifact_diagnostics, of the i-th row. *)
RowDefects(pack, i) ==
  LET row == pack.declared[i]
  IN {d \in {"duplicate-id", "digest-invalid", "external-authority-on-controlled",
             "missing-digest", "artifact-unknown"} :
        CASE d = "duplicate-id" -> \E j \in 1 .. i - 1 : pack.declared[j].id = row.id
          [] d = "digest-invalid" -> row.digest = BadDigest
          [] d = "external-authority-on-controlled" ->
               row.scope \in Controlled /\ row.authority = "author-declared-external"
          [] d = "missing-digest" ->
               row.scope \in Controlled /\ row.digest \in {NoDigest, BadDigest}
          [] d = "artifact-unknown" ->
               row.authority = "associated-artifact" /\ row.ref \notin pack.artifacts}

(* incumbent_components.  A kit's row is inventoried when it is controlled;  *)
(* it has no digest of its own.                                              *)
Modules(pack) ==
  [i \in DOMAIN pack.lock |->
     Component(pack.lock[i].ref, pack.lock[i].digest, "module-lock")]
KitRows(kit) ==
  IF kit = Unavailable THEN <<>>
  ELSE FlattenSeq([i \in DOMAIN kit |->
         IF kit[i].scope \in Controlled THEN <<Component(kit[i].ref, NoDigest, "kit")>>
         ELSE <<>>])
KitComponents(pack) == FlattenSeq([i \in DOMAIN pack.kits |-> KitRows(pack.kits[i])])
ExactArtifacts(pack) ==
  [i \in DOMAIN pack.exact |->
     Component(pack.exact[i].ref, pack.exact[i].digest, "raes-artifact")]
Incumbents(pack) == Modules(pack) \o KitComponents(pack) \o ExactArtifacts(pack)

(* merge_components *)
Contradicts(incumbent, row) ==
  /\ NoDigest \notin {incumbent.digest, row.digest}
  /\ incumbent.digest # row.digest

(* Defect: the declared row replaces what the authority pinned. *)
Replaced(incumbent, row) == [incumbent EXCEPT !.digest = row.digest]

Enriched(incumbent, row) ==
  IF incumbent.extra = {} THEN [incumbent EXCEPT !.extra = row.extra] ELSE incumbent

With(inventory, component) ==
  [ref \in DOMAIN inventory \cup {component.ref} |->
     IF ref = component.ref THEN component ELSE inventory[ref]]
MergeRow(inventory, row) ==
  IF row.ref \notin DOMAIN inventory
  THEN With(inventory, [Component(row.ref, row.digest, row.authority)
                          EXCEPT !.extra = row.extra])
  ELSE IF Contradicts(inventory[row.ref], row) THEN inventory
  ELSE With(inventory, Enriched(inventory[row.ref], row))

(* The inventory by ref after each of the incumbents, of which the last one   *)
(* wins, and then after each of the declared rows.                            *)
Pinned(pack) ==
  LET pinned[n \in 0 .. Len(Incumbents(pack))] ==
        IF n = 0 THEN <<>> ELSE With(pinned[n - 1], Incumbents(pack)[n])
  IN pinned
Merged(pack) ==
  LET merged[n \in 0 .. Len(pack.declared)] ==
        IF n = 0 THEN Pinned(pack)[Len(Incumbents(pack))]
        ELSE MergeRow(merged[n - 1], pack.declared[n])
  IN merged
Inventory(pack) == Merged(pack)[Len(pack.declared)]

(* pack_component_boundary: whether it reports anything. *)
BoundaryFails(pack) ==
  \/ \E i \in DOMAIN pack.declared :
       \/ RowDefects(pack, i) # {}
       \/ LET before == Merged(pack)[i - 1]
              row == pack.declared[i]
          IN row.ref \in DOMAIN before /\ Contradicts(before[row.ref], row)
  \/ \E i \in DOMAIN pack.kits : pack.kits[i] = Unavailable

--------------------------------------------------------------------------------
(* Each authority pins a component once, and no two pin the same. *)
PinnedOnce(pack) ==
  \A i, j \in DOMAIN Incumbents(pack) :
    Incumbents(pack)[i].ref = Incumbents(pack)[j].ref => i = j
================================================================================
