----------------------------- MODULE ReleaseBuild -----------------------------
(***************************************************************************)
(* release.build_release: one version of a pack is staged view by view in  *)
(* a directory whose name only depends on pack and version, scanned, bound *)
(* to the bytes it holds, given its evidence, checked against what the     *)
(* author requires and against the release that is already there, and      *)
(* promoted by deleting that release and renaming the staging directory.   *)
(*                                                                         *)
(* The source pack is read several times: for the profile, while a view is *)
(* copied, when the views are bound, for the evidence and for publication. *)
(* Version and pack name never change here; the bytes behind them may.     *)
(* `source` numbers the edits of the members of each view; PackAt[source]  *)
(* is all that is read of the pack as it is then.  A set digest is the     *)
(* snapshot of the bytes it was derived from.                              *)
(***************************************************************************)
EXTENDS ReleaseVerification, Publication, ReleaseViews, ComponentBoundary

CONSTANTS Builders,    \* processes, each of which builds once
          Views,       \* non-empty release views
          EditsOf,     \* view -> the edits its source members go through
          PackAt,      \* snapshot -> the pack
          Holds,       \* view -> edit -> digests of the bytes of its members
          Leaking,     \* edits of the participant view with an operator's token
          None,
          Serialised,  \* TRUE: one build at a time
          Crashes,     \* TRUE: a builder may die between any two steps
          Rows, Authored, Memberships,  \* what rows are judged on
          Packs, PackTrees, Boundaries  \* what inventories and views are judged on

Edits == UNION {EditsOf[v] : v \in Views}
Snapshots == {s \in [Views -> Edits] : \A v \in Views : s[v] \in EditsOf[v]}

ASSUME ReleaseAssumption ==
  /\ Views \subseteq Tiers /\ "participant" \in Views
  /\ \A v \in Views : EditsOf[v] \subseteq Nat /\ 0 \in EditsOf[v]
  /\ DOMAIN PackAt = Snapshots
  /\ None \notin Nat
  /\ {Serialised, Crashes} \subseteq BOOLEAN

VARIABLES
  resting,   \* whether the author keeps still while a build runs (fixed)
  source,    \* view -> edit of the pack members it takes
  staging,   \* the shared staging directory
  release,   \* the release root
  pc,        \* builder -> step of build_release it is about to take
  publish,   \* builder -> its publish argument
  meta,      \* builder -> the profile it is assembling
  copied,    \* builder -> views it staged
  bound,     \* builder -> views whose set it derived
  outcome,   \* builder -> how its build ended
  issued     \* identity this version was first released with (history)

shared == <<resting, source, staging, release, issued>>
vars == <<shared, pc, publish, meta, copied, bound, outcome>>

(* A profile is known by the snapshot its profile was read from, the sets of *)
(* its views and the snapshot its evidence was derived from.                 *)
SetsOfViews == [Views -> Edits \cup {None}]
Profiles == [read : Snapshots, sets : SetsOfViews, evidence : Snapshots \cup {None}]
Directories == [views : SetsOfViews,
                evidence : Snapshots \cup {None}, profile : Profiles \cup {None}]
NoViews == [v \in Views |-> None]
EmptyDir == [views |-> NoViews, evidence |-> None, profile |-> None]
NoProfile == [read |-> [v \in Views |-> 0], sets |-> NoViews, evidence |-> None]

(* _semantic_binding: no content identity, no source set. *)
SetOf(snapshot) == IF PackAt[snapshot].bound THEN snapshot ELSE None

(* publication.release_identity: evidence and distribution are outside it. *)
Identity(profile) == <<SetOf(profile.read), profile.sets>>

Working == {"clearing", "making", "staging", "deriving", "binding", "emitting",
            "publishing", "checking", "writing", "promoting", "removing", "replacing",
            "aborting"}
Phases == Working \cup {"idle", "done"}
Quiet == \A b \in Builders : pc[b] \notin Working

Init ==
  /\ resting \in BOOLEAN
  /\ source = [v \in Views |-> 0]
  /\ staging = None
  /\ release = None
  /\ pc = [b \in Builders |-> "idle"]
  /\ publish = [b \in Builders |-> FALSE]
  /\ meta = [b \in Builders |-> NoProfile]
  /\ copied = [b \in Builders |-> {}]
  /\ bound = [b \in Builders |-> {}]
  /\ outcome = [b \in Builders |-> "none"]
  /\ issued = None

locals == <<publish, meta, copied, bound>>
Goto(b, phase) == pc' = [pc EXCEPT ![b] = phase]

(* What a build held is gone when it returns. *)
Finish(b, result) ==
  /\ Goto(b, "done")
  /\ outcome' = [outcome EXCEPT ![b] = result]
  /\ publish' = [publish EXCEPT ![b] = FALSE]
  /\ meta' = [meta EXCEPT ![b] = NoProfile]
  /\ copied' = [copied EXCEPT ![b] = {}]
  /\ bound' = [bound EXCEPT ![b] = {}]

(* Failures found inside the try block leave through its finally clause; the *)
(* code first collects those of the later checks, which change nothing.      *)
Proceed(b, holds, phase) == Goto(b, IF holds THEN phase ELSE "aborting")

--------------------------------------------------------------------------------
(* release_metadata reads the pack and derives its identity before staging. *)
Begin(b, published) ==
  /\ pc[b] = "idle"
  /\ Serialised => Quiet
  /\ publish' = [publish EXCEPT ![b] = published]
  /\ meta' = [meta EXCEPT ![b].read = source]
  /\ Goto(b, "clearing")
  /\ UNCHANGED <<shared, copied, bound, outcome>>

Clear(b) ==
  /\ pc[b] = "clearing"
  /\ staging' = None
  /\ Goto(b, "making")
  /\ UNCHANGED <<resting, source, release, issued, locals, outcome>>

(* os.makedirs(staging), still outside the try block; then _stage_views      *)
(* refuses boundaries that overlap before it copies anything.                *)
Make(b) ==
  /\ pc[b] = "making"
  /\ IF staging = None
     THEN /\ staging' = EmptyDir
          /\ Proceed(b, ~BoundaryOverlaps(PackAt[meta[b].read].boundaries), "staging")
          /\ UNCHANGED <<locals, outcome>>
     ELSE UNCHANGED staging /\ Finish(b, "failed")
  /\ UNCHANGED <<resting, source, release, issued>>

(* _stage_boundaries; copying a member makes missing parents again. *)
StageView(b, v) ==
  /\ pc[b] = "staging"
  /\ v \notin copied[b]
  /\ IF StagesCleanly(PackAt[source].tree, PackAt[meta[b].read].boundaries)
     THEN /\ staging' = [(IF staging = None THEN EmptyDir ELSE staging)
                           EXCEPT !.views[v] = source[v]]
          /\ copied' = [copied EXCEPT ![b] = @ \cup {v}]
          /\ UNCHANGED pc
     ELSE UNCHANGED <<staging, copied>> /\ Goto(b, "aborting")
  /\ UNCHANGED <<resting, source, release, issued, publish, meta, bound, outcome>>

(* Defect: the source is scanned, not what was staged of it. *)
SourceLeaks == source["participant"] \in Leaking

(* scan_tier_for_leaks reads the staged participant view again. *)
StagedLeaks == staging # None /\ staging.views["participant"] \in Leaking

ScanStaged(b) ==
  /\ pc[b] = "staging"
  /\ copied[b] = Views
  /\ Proceed(b, ~StagedLeaks, "deriving")
  /\ UNCHANGED <<shared, locals, outcome>>

(* _bind_view_sets: without a manifest no view gets a set, and no failure.   *)
DeriveManifest(b) ==
  /\ pc[b] = "deriving"
  /\ Goto(b, IF PackAt[source].bound THEN "binding" ELSE "emitting")
  /\ UNCHANGED <<shared, locals, outcome>>

Staged(v) == staging # None /\ staging.views[v] # None

(* Defect: the view is described by the source, not by the staged bytes. *)
SourceBytes(v) == source[v]

(* _staged_descriptor rebinds a view to the bytes about to be promoted. *)
ViewBytes(v) == staging.views[v]

(* _bind_view_sets hashes the staged files of each view. *)
BindView(b, v) ==
  /\ pc[b] = "binding"
  /\ v \notin bound[b]
  /\ IF Staged(v)
     THEN /\ meta' = [meta EXCEPT ![b].sets[v] = ViewBytes(v)]
          /\ bound' = [bound EXCEPT ![b] = @ \cup {v}]
          /\ Goto(b, IF bound[b] \cup {v} = Views THEN "emitting" ELSE "binding")
     ELSE Goto(b, "aborting") /\ UNCHANGED <<meta, bound>>
  /\ UNCHANGED <<shared, publish, copied, outcome>>

(* The pack as the evidence describes it. *)
Described(snapshot) ==
  LET pack == PackAt[snapshot]
  IN [name |-> "lab", version |-> "1", set |-> SetOf(snapshot),
      static |-> pack.static, bound |-> pack.bound,
      lock |-> IF pack.lock = <<>> THEN Missing ELSE pack.lock,
      components |-> DOMAIN Inventory(pack)]
Facts(snapshot) == [pack |-> Described(snapshot), revision |-> "head", published |-> TRUE]

(* The schemas hold of what authors write: a row names a view and carries    *)
(* selectors, a requirement has a posture, a boundary row a group.           *)
RowIsWritten(row) ==
  /\ row.view \in Tiers
  /\ row.selectors = [s \in DOMAIN row.selectors |-> row.selectors[s]]
  /\ DOMAIN row.selectors \subseteq {"candidate", "locked", "specification"}
AreWritten(requirements) ==
  \A address \in DOMAIN requirements :
    \/ requirements[address] = Ambiguous
    \/ requirements[address].posture \in {"exact", "constrained", "open"}

ASSUME AuthorAssumption ==
  /\ \A row \in Rows : RowIsWritten(row)
  /\ \A requirements \in Authored : AreWritten(requirements)
  /\ \A s \in Snapshots : /\ \A row \in PackAt[s].rows : RowIsWritten(row)
                          /\ AreWritten(PackAt[s].requirements)
  /\ \A tree \in PackTrees : \A leaf \in DOMAIN tree : IsList(leaf)
  /\ \A rows \in Boundaries : \A row \in rows :
       row.group \in DOMAIN BoundaryTiers /\ IsList(row.path)

ASSUME CompositionAssumption ==
  \A pack \in Packs :
    /\ IsList(pack.lock) /\ IsList(pack.exact) /\ IsList(pack.declared)
    /\ IsList(pack.kits)
    /\ \A kit \in ToSet(pack.kits) : kit = Unavailable \/ IsList(kit)

(* No document is taken for an absent one. *)
ASSUME DocumentAssumption ==
  /\ None \notin Snapshots /\ None \notin Profiles /\ None \notin Directories
  /\ \A s \in Snapshots : ProfileOf(Facts(s)) # Missing

(* Defect: a pack without content identity is published too. *)
AttestsAnyPack ==
  staging # None /\ ~BoundaryFails(PackAt[source]) /\ OwnEvidencePasses(Facts(source))

(* _emit_evidence derives the source identity anew for SBOM and provenance. *)
CanAttest ==
  /\ staging # None
  /\ PackAt[source].bound
  /\ ~BoundaryFails(PackAt[source])
  /\ OwnEvidencePasses(Facts(source))

EmitEvidence(b) ==
  /\ pc[b] = "emitting"
  /\ IF publish[b] /\ CanAttest
     THEN /\ staging' = [staging EXCEPT !.evidence = source]
          /\ meta' = [meta EXCEPT ![b].evidence = source]
     ELSE UNCHANGED <<staging, meta>>
  /\ Proceed(b, publish[b] => CanAttest, "publishing")
  /\ UNCHANGED <<resting, source, release, issued, publish, copied, bound, outcome>>

(* The profile as publication.py judges it, and the bytes its rows may claim. *)
Supplied(profile) ==
  LET pack == PackAt[profile.read]
  IN [rows |-> pack.rows, claims |-> {}, availability |-> {}, channels |-> {},
      identity |-> "lab", parent |-> IF pack.bound THEN "digested" ELSE "absent",
      bound |-> pack.bound,
      sets |-> [v \in Tiers |-> IF v \notin Views \/ profile.sets[v] = None THEN Nothing
                                ELSE profile.sets[v]]]
Members(sets) ==
  [v \in Tiers |-> IF v \notin Views \/ sets[v] = None THEN {} ELSE Holds[v][sets[v]]]

(* _publication_failures: the pack must validate now, and what the profile   *)
(* supplies must be what its author requires now.                            *)
CheckPublication(b) ==
  /\ pc[b] = "publishing"
  /\ Proceed(b, /\ PackAt[source].static
                /\ PublicationViolations(Supplied(meta[b]), PackAt[source].requirements,
                                         Members(meta[b].sets)) = {}, "checking")
  /\ UNCHANGED <<shared, locals, outcome>>

(* Defect: an existing release is not consulted. *)
AnyIdentity(b) == TRUE

(* _immutability_failures *)
SameIdentity(b) ==
  release # None /\ release.profile # None =>
    Identity(release.profile) = Identity(meta[b])

CheckImmutable(b) ==
  /\ pc[b] = "checking"
  /\ Proceed(b, SameIdentity(b), "writing")
  /\ UNCHANGED <<shared, locals, outcome>>

WriteProfile(b) ==
  /\ pc[b] = "writing"
  /\ staging' = IF staging = None THEN None
                ELSE [staging EXCEPT !.profile = meta[b]]
  /\ Proceed(b, staging # None, "promoting")
  /\ UNCHANGED <<resting, source, release, issued, locals, outcome>>

Promote(b) ==
  /\ pc[b] = "promoting"
  /\ Goto(b, IF release = None THEN "replacing" ELSE "removing")
  /\ UNCHANGED <<shared, locals, outcome>>

(* shutil.rmtree(release_root): entries go one by one, in any order. *)
RemoveEntry(b) ==
  /\ pc[b] = "removing"
  /\ release # None
  /\ release # EmptyDir
  /\ release' \in {[release EXCEPT !.views[v] = None] : v \in Views}
                    \cup {[release EXCEPT !.evidence = None],
                          [release EXCEPT !.profile = None]}
  /\ release' # release
  /\ UNCHANGED <<resting, source, staging, issued, pc, locals, outcome>>

RemoveRoot(b) ==
  /\ pc[b] = "removing"
  /\ release \in {None, EmptyDir}
  /\ release' = None
  /\ Proceed(b, release # None, "replacing")
  /\ UNCHANGED <<resting, source, staging, issued, locals, outcome>>

(* os.replace moves a directory over an absent or empty one only. *)
CanReplace == staging # None /\ release \in {None, EmptyDir}

Replace(b) ==
  /\ pc[b] = "replacing"
  /\ IF CanReplace
     THEN /\ release' = staging
          /\ staging' = None
          /\ issued' = IF issued # None \/ staging.profile = None THEN issued
                       ELSE Identity(staging.profile)
          /\ Finish(b, "ok")
     ELSE Goto(b, "aborting") /\ UNCHANGED <<release, staging, issued, locals, outcome>>
  /\ UNCHANGED <<resting, source>>

(* Defect: a failed build also deletes the release it was to replace. *)
AbortBoth(b) ==
  /\ pc[b] = "aborting"
  /\ staging' = None
  /\ release' = None
  /\ Finish(b, "failed")
  /\ UNCHANGED <<resting, source, issued>>

(* finally: the staging directory goes, whoever is filling it by now. *)
Abort(b) ==
  /\ pc[b] = "aborting"
  /\ staging' = None
  /\ Finish(b, "failed")
  /\ UNCHANGED <<resting, source, release, issued>>

Crash(b) ==
  /\ Crashes
  /\ pc[b] \in Working
  /\ Finish(b, "crashed")
  /\ UNCHANGED shared

--------------------------------------------------------------------------------
(* The author changes members a view takes, and refreshes the manifest. *)
Edit(v) ==
  /\ source[v] + 1 \in EditsOf[v]
  /\ resting => Quiet
  /\ source' = [source EXCEPT ![v] = @ + 1]
  /\ UNCHANGED <<resting, staging, release, issued, pc, locals, outcome>>

BuilderStep(b) ==
  \/ \E published \in BOOLEAN : Begin(b, published)
  \/ Clear(b) \/ Make(b)
  \/ \E v \in Views : StageView(b, v) \/ BindView(b, v)
  \/ ScanStaged(b) \/ DeriveManifest(b)
  \/ EmitEvidence(b) \/ CheckPublication(b) \/ CheckImmutable(b)
  \/ WriteProfile(b) \/ Promote(b)
  \/ RemoveEntry(b) \/ RemoveRoot(b) \/ Replace(b) \/ Abort(b) \/ Crash(b)

Next == (\E b \in Builders : BuilderStep(b)) \/ (\E v \in Views : Edit(v))

Spec == Init /\ [][Next]_vars

--------------------------------------------------------------------------------
TypeOK ==
  /\ resting \in BOOLEAN
  /\ source \in Snapshots
  /\ staging \in Directories \cup {None}
  /\ release \in Directories \cup {None}
  /\ pc \in [Builders -> Phases]
  /\ publish \in [Builders -> BOOLEAN]
  /\ meta \in [Builders -> Profiles]
  /\ copied \in [Builders -> SUBSET Views]
  /\ bound \in [Builders -> SUBSET Views]
  /\ outcome \in [Builders -> {"none", "ok", "failed", "crashed"}]

Released == release # None /\ release.profile # None

WholeRelease ==
  /\ Released
  /\ \A v \in Views :
       /\ release.views[v] # None
       /\ release.profile.sets[v] \in {None, release.views[v]}
  /\ release.evidence = release.profile.evidence

FitRelease ==
  LET pack == PackAt[release.profile.read]
      members == Members(release.views)
  IN /\ release.views["participant"] \notin Leaking
     /\ \A row \in pack.rows : MembershipViolations(row, members) = {}
     /\ resting => /\ pack.static
                   /\ \A row \in pack.rows : Backed(row, pack.requirements, members)

(* A build that succeeds leaves a whole release, never a half-built or       *)
(* mislabelled one, whatever the author edited meanwhile and wherever earlier *)
(* builds died: each view holds the bytes its set digest names, and the       *)
(* evidence the profile refers to is there (release.py 638-645).  Its         *)
(* participant view has no operator's token in it and every row it publishes  *)
(* is of bytes its view holds; if the pack rested meanwhile, the pack is      *)
(* valid and its author asked for each of those rows (release.py 594-623,     *)
(* ADR 0028).                                                                 *)
PromotedReleaseIsSound ==
  [][\A b \in Builders : pc[b] = "replacing" /\ outcome'[b] = "ok" =>
       WholeRelease' /\ FitRelease']_vars

Uncrashed == \A b \in Builders : outcome[b] # "crashed"

(* ADR 0028 lines 90-92: a pack version names one identity for good; while   *)
(* no build dies, no sequence of builds releases it with another, and none   *)
(* that fails takes the release away: once a version was released it is      *)
(* there whenever no build runs (release.py 917-919).                        *)
ReleaseIsImmutable ==
  Uncrashed /\ issued # None =>
    /\ Released => Identity(release.profile) = issued
    /\ Quiet => Released

(* What a consumer finds in the release directory. *)
Evidence(snapshot) ==
  IF snapshot = None THEN [sbom |-> Missing, provenance |-> Missing]
  ELSE [sbom |-> EvidenceOf(Facts(snapshot)).sbom,
        provenance |-> EvidenceOf(Facts(snapshot)).provenance]
Found(dir) ==
  [profile |-> [ProfileOf(Facts(dir.profile.read)) EXCEPT
                  !.sbom = Evidence(dir.profile.evidence).sbom,
                  !.provenance = Evidence(dir.profile.evidence).provenance],
   sbom |-> Evidence(dir.evidence).sbom, provenance |-> Evidence(dir.evidence).provenance]

(* ADR 0037 lines 189-191: a published release whose SBOM and provenance do *)
(* not bind its source set and its views is refused, not emitted: when the  *)
(* pack rests during builds, verify_pack_release accepts every release that *)
(* was published, through any crash.                                        *)
EvidenceBindsTheRelease ==
  resting /\ Released /\ release.evidence # None =>
    /\ release.evidence = release.profile.sets
    /\ Accepted(Verification(Described(release.profile.read), Found(release), Missing))

(* ADR 0028 lines 91-94: an existing release is not overwritten with        *)
(* different bytes, so a rebuild never takes the evidence of a published    *)
(* one away.                                                                *)
PublishedStaysPublished ==
  [][\A b \in Builders :
       pc[b] = "promoting" /\ pc'[b] = "removing" /\ Released =>
         (release.profile.evidence # None => meta[b].evidence # None)]_vars

--------------------------------------------------------------------------------
(* Facts of the constants, so every behaviour has them from its first state. *)

(* publication.py 814-852: a row is accepted exactly when the author wrote a *)
(* requirement that admits it, selector and artifact together, by a route it *)
(* permits, and its view holds the artifact's bytes.                         *)
AcceptedRowsAreAuthored ==
  Init => \A row \in Rows, requirements \in Authored, members \in Memberships :
            RowViolations(row, requirements, members) = {}
              <=> Backed(row, requirements, members)

(* ADR 0013 and release.py 594-599: however boundary rows nest, a tree that  *)
(* is staged puts no member at or below a restricted row, and nothing but a  *)
(* plain file, into the participant view.                                    *)
ViewsKeepApart ==
  Init => \A tree \in PackTrees, rows \in Boundaries :
            StagesCleanly(tree, rows) =>
              \A leaf \in StagedMembers(tree, rows)["participant"] :
                /\ tree[leaf] = "file"
                /\ \A row \in rows : Restricted(row) => ~IsPrefix(row.path, leaf)

(* component_boundary.py 372-421: where no two authorities name the same     *)
(* component, an inventory that raises nothing has each of them with the     *)
(* digest its authority pins, and each declared one without a contradiction. *)
InventoryIsComplete ==
  Init => \A pack \in Packs :
    PinnedOnce(pack) /\ ~BoundaryFails(pack) =>
      LET inventory == Inventory(pack)
      IN /\ \A i \in DOMAIN Incumbents(pack) :
              LET c == Incumbents(pack)[i]
              IN c.ref \in DOMAIN inventory /\ inventory[c.ref].digest = c.digest
         /\ \A i \in DOMAIN pack.declared :
              LET row == pack.declared[i]
              IN row.ref \in DOMAIN inventory /\ ~Contradicts(inventory[row.ref], row)
================================================================================
