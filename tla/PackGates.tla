------------------------------- MODULE PackGates -------------------------------
(***************************************************************************)
(* The gates a pack's own documents pass: the static contract every        *)
(* consumer applies (validation.py) and the joins the author CI adds to    *)
(* it (content_ci.py).                                                     *)
(*                                                                         *)
(* A path is written as the sequence of its components, "." and ".."       *)
(* among them.  A pack is its inventory `tree` of leaves, its manifest's   *)
(* name and the name of its directory, the provenance ledger, the asset    *)
(* and boundary rows of the compatibility manifest with the name of the    *)
(* pack it describes, and the publication profile.  The authors' schemas   *)
(* hold of every document.                                                 *)
(***************************************************************************)
EXTENDS Sequences, SequencesExt, FiniteSets, ReleaseViews

Absent == "absent"     \* an optional text the document does not have

(* _pack_fs.normalize_relpath refuses every other spelling. *)
Canonical(path) == path # <<>> /\ {".", ".."} \cap ToSet(path) = {}

(* _norm_manifest_path: os.path.normpath. *)
Norm(path) ==
  LET norm[n \in 0 .. Len(path)] ==
        IF n = 0 THEN <<>>
        ELSE LET done == norm[n - 1]
             IN IF path[n] = "." THEN done
                ELSE IF path[n] = ".." /\ done # <<>> /\ Last(done) # ".." THEN Front(done)
                ELSE Append(done, path[n])
  IN norm[Len(path)]

(* _path_inside_pack and os.path.exists *)
Inside(path) == path # <<>> /\ (Norm(path) # <<>> => Head(Norm(path)) # "..")
Exists(tree, path) ==
  \A n \in 1 .. Len(path) : \E leaf \in tree :
    /\ IsPrefix(Norm(SubSeq(path, 1, n)), leaf)
    /\ n < Len(path) => Norm(SubSeq(path, 1, n)) # leaf

(* _path_under_root, by way of _path_is_parent: the pack root is no parent. *)
UnderRoot(root, path) ==
  \/ Norm(root) = Norm(path)
  \/ Norm(root) # <<>> /\ IsPrefix(Norm(root), Norm(path))

Twice(rows) == \E i, j \in DOMAIN rows : i < j /\ rows[i].id = rows[j].id

--------------------------------------------------------------------------------
(* validation.py *)

ReviewGates == {"licensing", "attribution", "sensitive-data", "offensive-tooling"}

ProvenanceFails(pack) ==
  \/ pack.ledger.pack # pack.name
  \/ ~pack.ledger.safe
  \/ ~(ReviewGates \subseteq pack.ledger.gates)

(* Defect: the row's path is compared once it is normalised. *)
ShippedAnyhow(pack, asset) == asset.status = "shipped" => Norm(asset.path) \in pack.tree

ShippedExists(pack, asset) ==
  asset.status = "shipped" => Canonical(asset.path) /\ asset.path \in pack.tree

CompatibilityFails(pack) ==
  \/ BoundaryOverlaps(pack.boundaries)
  \/ \E asset \in ToSet(pack.assets) : ~ShippedExists(pack, asset)

(* Only a name or version that is there can disagree. *)
PublicationFails(pack) ==
  /\ pack.publication.loaded
  /\ \/ pack.publication.name \notin {Absent, pack.name}
     \/ pack.publication.version \notin {Absent, pack.version}

StaticFails(pack) ==
  \/ pack.name # pack.directory
  \/ ProvenanceFails(pack)
  \/ CompatibilityFails(pack)
  \/ PublicationFails(pack)

--------------------------------------------------------------------------------
(* content_ci.py *)

OverlayRoots(ledger) ==
  {overlay.root : overlay \in {o \in ToSet(ledger.overlays) : Inside(o.root)}}

UnderOverlay(ledger, row) == \E root \in OverlayRoots(ledger) : UnderRoot(root, row.path)

ArtifactFails(tree, ledger, row) ==
  \/ ~Inside(row.path) \/ ~Exists(tree, row.path)
  \/ ~(row.sources \subseteq {source.id : source \in ToSet(ledger.sources)})
  \/ row.class = "customer-specific" /\ ~UnderOverlay(ledger, row)

BaseRows(ledger) == {row \in ToSet(ledger.artifacts) : row.class # "customer-specific"}

(* Defect: an overlay inside a base artifact goes unnoticed. *)
OverlayAbove(ledger) ==
  \E root \in OverlayRoots(ledger), row \in BaseRows(ledger) : UnderRoot(root, row.path)

OverlayMeetsBase(ledger) ==
  \E root \in OverlayRoots(ledger), row \in BaseRows(ledger) :
    UnderRoot(root, row.path) \/ UnderRoot(row.path, root)

LedgerFails(pack) ==
  LET ledger == pack.ledger
  IN \/ Twice(ledger.sources) \/ Twice(ledger.artifacts) \/ Twice(ledger.overlays)
     \/ \E source \in ToSet(ledger.sources) : source.required /\ ~source.attributed
     \/ \E overlay \in ToSet(ledger.overlays) : ~Inside(overlay.root)
     \/ \E row \in ToSet(ledger.artifacts) : ArtifactFails(pack.tree, ledger, row)
     \/ OverlayMeetsBase(ledger)

(* Every path the compatibility manifest names, planned assets among them. *)
ManifestFails(pack) ==
  \/ pack.describes # pack.name
  \/ Twice(pack.assets)
  \/ \E row \in ToSet(pack.assets) \cup pack.boundaries :
       ~Inside(row.path) \/ ~Exists(pack.tree, row.path)

PassesCI(pack) == ~StaticFails(pack) /\ ~LedgerFails(pack) /\ ~ManifestFails(pack)
================================================================================
