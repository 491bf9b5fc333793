------------------------------ MODULE PackCatalog ------------------------------
(***************************************************************************)
(* catalog.py: valid packs are projected into the entries of one document, *)
(* each fact with an explicit state, or the build is blocked and nothing   *)
(* is emitted.  The document sorts its entries by a key no two of them     *)
(* share, so it is the set of them.                                        *)
(***************************************************************************)
EXTENDS PackGates

(* _path_components *)
Parts(path) ==
  FlattenSeq([i \in DOMAIN path |-> IF path[i] = "." THEN <<>> ELSE <<path[i]>>])

--------------------------------------------------------------------------------
(* The projection of one pack. *)

Governs(row, path) == IsPrefix(Parts(row.path), Parts(path))

(* _distribution_class: of the most specific roots the first one governs. *)
DistributionClass(ledger, path) ==
  LET rows == ledger.artifacts
      roots == {i \in DOMAIN rows : Governs(rows[i], path)}
      Length(i) == Len(Parts(rows[i].path))
  IN IF roots = {} THEN Absent
     ELSE LET best == CHOOSE i \in roots : \A j \in roots :
                        \/ Length(j) < Length(i)
                        \/ Length(j) = Length(i) /\ i <= j
          IN rows[best].class

Publishable == {"open", "redistributable"}

(* _public_shipped_asset *)
Candidates(pack) ==
  {asset.path : asset \in {a \in ToSet(pack.assets) :
     /\ a.visibility \in {"participant", "public"}
     /\ a.status = "shipped"
     /\ a.path \in pack.tree}}

Media(pack) ==
  {path \in Candidates(pack) : DistributionClass(pack.ledger, path) \in Publishable}

(* _project_release *)
Release(pack) ==
  IF ~pack.publication.declared THEN [state |-> "unknown"]
  ELSE IF pack.publication.loaded /\ pack.publication.clean
  THEN [state |-> "known", name |-> pack.publication.name, version |-> pack.publication.version]
  ELSE [state |-> "unverified"]

(* Every descriptive fact is like this one: known with its value, or unknown. *)
Stated(facts, field) ==
  IF field \in DOMAIN facts THEN [state |-> "known", value |-> facts[field]]
  ELSE [state |-> "unknown"]

RequiredFields == {"purpose", "license", "audiences", "difficulty", "participant_time"}

Completeness(pack) ==
  {field \in RequiredFields : field \notin DOMAIN pack.facts}
    \cup {"last_rehearsal"}
    \cup (IF Candidates(pack) \subseteq Media(pack) THEN {} ELSE {"media"})

Entry(source) ==
  LET pack == source.pack
  IN [source |-> source.id, name |-> pack.name, version |-> pack.version,
      fields |-> [field \in RequiredFields |-> Stated(pack.facts, field)],
      release |-> Release(pack), media |-> Media(pack),
      completeness |-> Completeness(pack)]

--------------------------------------------------------------------------------
(* Aggregation. *)

Key(entry) == <<entry.source, entry.name, entry.version>>

(* Defect: the first of two entries with one key is kept. *)
FirstWins(built, source) ==
  LET entry == Entry(source)
  IN IF ~source.safe \/ StaticFails(source.pack)
     THEN [built EXCEPT !.blocking = TRUE]
     ELSE IF Key(entry) \in {Key(e) : e \in built.entries} THEN built
     ELSE [built EXCEPT !.entries = @ \cup {entry}]

(* _source_result and the body of the loop of build_catalog *)
AddSource(built, source) ==
  LET entry == Entry(source)
  IN IF \/ ~source.safe
        \/ StaticFails(source.pack)
        \/ Key(entry) \in {Key(e) : e \in built.entries}
     THEN [built EXCEPT !.blocking = TRUE]
     ELSE [built EXCEPT !.entries = @ \cup {entry}]

Built(sources) ==
  LET built[n \in 0 .. Len(sources)] ==
        IF n = 0 THEN [entries |-> {}, blocking |-> FALSE]
        ELSE AddSource(built[n - 1], sources[n])
  IN built
BuildCatalog(sources) == Built(sources)[Len(sources)]

(* _state_field_violations for the fields above. *)
Relates(entry) ==
  /\ \A field \in DOMAIN entry.fields :
       LET stated == entry.fields[field]
       IN stated.state = "known" <=> "value" \in DOMAIN stated
  /\ entry.release.state # "known" => {"name", "version"} \cap DOMAIN entry.release = {}

(* _generate_and_emit: the document, or no document. *)
Emitted(sources) ==
  LET built == BuildCatalog(sources)
  IN IF built.blocking \/ \E entry \in built.entries : ~Relates(entry) THEN <<>>
     ELSE <<built.entries>>

--------------------------------------------------------------------------------
(* What the properties of a run say of the operators above. *)

(* Roots that both gates and catalog read alike: neither the whole pack, nor  *)
(* written with "..".                                                         *)
PlainRoot(path) == Norm(path) # <<>> /\ ".." \notin ToSet(path)
PlainRoots(ledger) ==
  /\ \A row \in ToSet(ledger.artifacts) : PlainRoot(row.path)
  /\ \A overlay \in ToSet(ledger.overlays) : PlainRoot(overlay.root)

(* No restricted row is more specific than the one that clears the member.    *)
Cleared(ledger, path) ==
  \E row \in ToSet(ledger.artifacts) :
    /\ row.class \in Publishable /\ IsPrefix(Norm(row.path), path)
    /\ \A other \in ToSet(ledger.artifacts) :
         /\ IsPrefix(Norm(other.path), path)
         /\ Len(Norm(other.path)) > Len(Norm(row.path))
         => other.class \in Publishable

OfCustomer(ledger, path) ==
  \E overlay \in ToSet(ledger.overlays) : IsPrefix(Norm(overlay.root), path)

(* Of a pack that passed the author CI, the catalog shows no member of a      *)
(* customer's overlay and none without clearance; of every valid pack, each   *)
(* asset it declares public is shown or its omission is noted, and a known    *)
(* release is the pack's own.                                                 *)
ShowsWhatIsCleared(pack) ==
  /\ PassesCI(pack) /\ PlainRoots(pack.ledger) =>
       \A path \in Media(pack) :
         path \in pack.tree /\ Cleared(pack.ledger, path) /\ ~OfCustomer(pack.ledger, path)
  /\ ~StaticFails(pack) =>
       /\ \A asset \in ToSet(pack.assets) :
            asset.visibility \in {"participant", "public"} /\ asset.status = "shipped" =>
              asset.path \in Media(pack) \/ "media" \in Completeness(pack)
       /\ Release(pack).state = "known" =>
            {Release(pack).name, Release(pack).version}
              \subseteq {Absent, pack.name, pack.version}

(* A catalog is emitted exactly when every source is admissible and no two    *)
(* are one, with one entry for each, in whatever order they are listed.       *)
Projectable(sources) ==
  /\ \A s \in ToSet(sources) : s.safe /\ ~StaticFails(s.pack)
  /\ \A i, j \in DOMAIN sources :
       Key(Entry(sources[i])) = Key(Entry(sources[j])) => i = j
OrderDecidesNothing(sources) ==
  Emitted(sources) = IF Projectable(sources) THEN <<{Entry(s) : s \in ToSet(sources)}>>
                     ELSE <<>>
================================================================================
