--------------------------- MODULE ReleaseBuildProofs ---------------------------
(***************************************************************************)
(* What TLAPS proves of ReleaseBuild and of the judgements of Publication  *)
(* and ReleaseViews: for any number of builders, one building at a time,   *)
(* any views, edits, packs and crashes.                                    *)
(***************************************************************************)
EXTENDS ReleaseBuild, FiniteSetTheorems, SequenceTheorems, NaturalsInduction,
        WellFoundedInduction, TLAPS

(***************************************************************************)
(* The inductive invariant.                                                *)
(***************************************************************************)

(* The steps from which a build has the staging directory, has every view   *)
(* in it, has bound them, attested them, had them judged, consulted the     *)
(* release that is there, and written its profile.                          *)
Written == {"promoting", "removing", "replacing"}
Consulted == {"writing"} \cup Written
Judged == {"checking"} \cup Consulted
Attested == {"publishing"} \cup Judged
Named == {"emitting"} \cup Attested
Copied == {"deriving", "binding"} \cup Named
Holding == {"staging"} \cup Copied

OneBuild ==
  Serialised => \A b, c \in Builders : pc[b] \in Working /\ pc[c] \in Working => b = c

(* What a build knows of its profile, step by step.                         *)
Grown(b) ==
  /\ outcome[b] # "none" => pc[b] = "done"
  /\ pc[b] \in {"idle", "done"} => meta[b] = NoProfile
  /\ pc[b] \in {"idle", "done", "clearing", "making"} => copied[b] = {}
  /\ pc[b] \notin Named \cup {"binding", "aborting"} =>
       meta[b].sets = NoViews /\ bound[b] = {}
  /\ pc[b] \notin Attested \cup {"aborting"} => meta[b].evidence = None

(* The staging directory of the build at work: its views are there once     *)
(* they were copied, its profile names the bytes and the evidence in it.    *)
Followed(b) ==
  /\ pc[b] = "making" => staging = None
  /\ pc[b] \in Holding =>
       /\ staging # None /\ staging.evidence = meta[b].evidence
       /\ \A v \in Views : meta[b].sets[v] \in {None, staging.views[v]}
       /\ \A v \in copied[b] : staging.views[v] # None
  /\ pc[b] \in Copied =>
       copied[b] = Views /\ staging.views["participant"] \notin Leaking
  /\ pc[b] = "binding" => \A v \in bound[b] : meta[b].sets[v] = staging.views[v]
  /\ pc[b] \in Written => staging.profile = meta[b]
  /\ pc[b] = "removing" => release # None
  /\ pc[b] = "replacing" => release = None

(* The rows of a profile are of bytes its views hold, and asked for.        *)
RowsFit(profile, views) ==
  LET pack == PackAt[profile.read]
  IN /\ \A row \in pack.rows : MembershipViolations(row, Members(views)) = {}
     /\ resting => /\ pack.static
                   /\ \A row \in pack.rows : Backed(row, pack.requirements, Members(views))

(* While the pack rests, all that a build reads of it is one snapshot.      *)
OneSnapshot(b) ==
  /\ pc[b] \in Working => meta[b].read = source
  /\ pc[b] \in Holding =>
       /\ \A v \in Views : staging.views[v] \in {None, source[v]}
       /\ meta[b].evidence # None =>
            /\ meta[b].evidence = source /\ PackAt[source].bound
            /\ OwnEvidencePasses(Facts(source))
  /\ pc[b] \in Named /\ PackAt[source].bound =>
       \A v \in Views : meta[b].sets[v] = staging.views[v]

BuildFollows ==
  \A b \in Builders :
    /\ Grown(b)
    /\ Serialised => /\ Followed(b)
                     /\ pc[b] \in Judged => RowsFit(meta[b], staging.views)
                     /\ resting => OneSnapshot(b)

(* What a published release must be for verify_pack_release to accept it.   *)
ReleaseIsBound ==
  Serialised /\ resting /\ Released /\ release.evidence # None =>
    LET s == release.profile.read
    IN /\ release.evidence = s /\ release.profile.evidence = s /\ release.profile.sets = s
       /\ PackAt[s].bound /\ PackAt[s].static /\ OwnEvidencePasses(Facts(s))

(* While no build dies, the release that is there has the identity the      *)
(* version was issued with, and goes only while the next one takes its place.*)
IssuedOnce ==
  Serialised /\ Uncrashed =>
    /\ release # None /\ (\A b \in Builders : pc[b] # "removing") => Released
    /\ Released => Identity(release.profile) = issued
    /\ issued # None => Released \/ \E b \in Builders : pc[b] \in {"removing", "replacing"}
    /\ \A b \in Builders : pc[b] \in Consulted /\ issued # None => Identity(meta[b]) = issued

BuildInv ==
  /\ TypeOK
  /\ OneBuild
  /\ BuildFollows
  /\ ReleaseIsBound
  /\ IssuedOnce

--------------------------------------------------------------------------------
(***************************************************************************)
(* The judgement of rows.                                                  *)
(***************************************************************************)

(* A row carries no selector, one of the three, or more.                    *)
LEMMA SelectorFacts ==
  ASSUME NEW row, RowIsWritten(row)
  PROVE  /\ ~(Cardinality(DOMAIN row.selectors) > 1) <=>
              DOMAIN row.selectors \in {{}, {"candidate"}, {"locked"}, {"specification"}}
         /\ DOMAIN row.selectors = {} <=> row.selectors = NoSelector
         /\ \A id : /\ row.selectors = [candidate |-> id] <=>
                         DOMAIN row.selectors = {"candidate"} /\ row.selectors["candidate"] = id
                    /\ row.selectors = [locked |-> id] <=>
                         DOMAIN row.selectors = {"locked"} /\ row.selectors["locked"] = id
                    /\ row.selectors = [specification |-> id] <=>
                         /\ DOMAIN row.selectors = {"specification"}
                         /\ row.selectors["specification"] = id
  <1> DEFINE D == DOMAIN row.selectors
             three == {"candidate", "locked", "specification"}
  <1>1. D \subseteq three /\ row.selectors = [s \in D |-> row.selectors[s]]
    BY DEF RowIsWritten
  <1>2. IsFiniteSet(three)
    <2>1. IsFiniteSet({"candidate"})
      BY FS_Singleton
    <2>2. IsFiniteSet({"candidate"} \cup {"locked"})
      BY <2>1, FS_AddElement
    <2>3. IsFiniteSet(({"candidate"} \cup {"locked"}) \cup {"specification"})
      BY <2>2, FS_AddElement
    <2>4. three = ({"candidate"} \cup {"locked"}) \cup {"specification"}
      OBVIOUS
    <2> QED BY <2>3, <2>4
  <1>3. IsFiniteSet(D) /\ Cardinality(D) \in Nat
    BY <1>1, <1>2, FS_Subset, FS_CardinalityType
  <1>4. Cardinality(D) = 0 <=> D = {}
    BY <1>3, FS_EmptySet
  <1>5. Cardinality(D) = 1 <=> \E x : D = {x}
    BY <1>3, FS_Singleton
  <1>6. ~(Cardinality(D) > 1) <=> D \in {{}, {"candidate"}, {"locked"}, {"specification"}}
    <2>1. ~(Cardinality(D) > 1) <=> Cardinality(D) = 0 \/ Cardinality(D) = 1
      BY <1>3
    <2>2. (\E x : D = {x}) <=> D \in {{"candidate"}, {"locked"}, {"specification"}}
      BY <1>1
    <2> QED BY <1>4, <1>5, <2>1, <2>2
  <1>7. D = {} <=> row.selectors = NoSelector
    BY <1>1 DEF NoSelector
  <1>8. ASSUME NEW id
        PROVE  /\ row.selectors = [candidate |-> id] <=>
                    D = {"candidate"} /\ row.selectors["candidate"] = id
               /\ row.selectors = [locked |-> id] <=>
                    D = {"locked"} /\ row.selectors["locked"] = id
               /\ row.selectors = [specification |-> id] <=>
                    D = {"specification"} /\ row.selectors["specification"] = id
    BY <1>1
  <1> QED BY <1>6, <1>7, <1>8

(* What each posture accepts is what Admitted spells out.                   *)
LEMMA PostureIsAdmission ==
  ASSUME NEW row, RowIsWritten(row), row.artifact \in GovernedArtifacts \cup {Nothing},
         NEW requirement, requirement.posture \in {"exact", "constrained", "open"}
  PROVE  (/\ ~(Cardinality(DOMAIN row.selectors) > 1)
          /\ PostureViolations(row, requirement) = {}) <=>
         (/\ <<row.selectors, row.artifact>> \in Admitted(requirement)
          /\ AuthoredSpecification(row, requirement))
  <1> DEFINE D == DOMAIN row.selectors
             id(s) == row.selectors[s]
  <1>1. CASE requirement.posture = "exact"
    <2>1. PostureViolations(row, requirement) = {} <=>
            D = {} /\ row.artifact = requirement.exact /\ requirement.exact # Nothing
      BY <1>1 DEF PostureViolations, ExactViolations
    <2>2. <<row.selectors, row.artifact>> \in Admitted(requirement) <=>
            row.selectors = NoSelector /\ row.artifact = requirement.exact /\ requirement.exact # Nothing
      BY <1>1 DEF Admitted
    <2> QED BY <2>1, <2>2, SelectorFacts DEF AuthoredSpecification
  <1>2. CASE requirement.posture = "open"
    <2>1. PostureViolations(row, requirement) = {} <=> D = {} /\ row.artifact = Nothing
      BY <1>2 DEF PostureViolations, OpenViolations
    <2>2. <<row.selectors, row.artifact>> \in Admitted(requirement) <=>
            row.selectors = NoSelector /\ row.artifact = Nothing
      BY <1>2 DEF Admitted
    <2> QED BY <2>1, <2>2, SelectorFacts DEF AuthoredSpecification
  <1>3. CASE requirement.posture = "constrained"
    <2>1. PostureViolations(row, requirement) = ConstrainedViolations(row, requirement)
      BY <1>3 DEF PostureViolations
    <2>2. <<row.selectors, row.artifact>> \in Admitted(requirement) <=>
            \/ \E i \in DOMAIN requirement.candidates :
                 row.selectors = [candidate |-> i] /\ row.artifact = requirement.candidates[i]
            \/ \E i \in DOMAIN requirement.locked :
                 row.selectors = [locked |-> i] /\ row.artifact = requirement.locked[i]
            \/ \E i \in DOMAIN requirement.specs : row.selectors = [specification |-> i]
      <3> DEFINE C == {<<[candidate |-> i], requirement.candidates[i]>> :
                         i \in DOMAIN requirement.candidates}
                 L == {<<[locked |-> i], requirement.locked[i]>> :
                         i \in DOMAIN requirement.locked}
                 M == {<<[specification |-> i], a>> :
                         i \in DOMAIN requirement.specs, a \in GovernedArtifacts \cup {Nothing}}
      <3>1. Admitted(requirement) = C \cup L \cup M
        <4>1. requirement.posture # "exact" /\ requirement.posture # "open"
          BY <1>3
        <4> QED BY <1>3, <4>1 DEF Admitted
      <3>2. <<row.selectors, row.artifact>> \in C <=>
              \E i \in DOMAIN requirement.candidates :
                row.selectors = [candidate |-> i] /\ row.artifact = requirement.candidates[i]
        OBVIOUS
      <3>3. <<row.selectors, row.artifact>> \in L <=>
              \E i \in DOMAIN requirement.locked :
                row.selectors = [locked |-> i] /\ row.artifact = requirement.locked[i]
        OBVIOUS
      <3>4. <<row.selectors, row.artifact>> \in M <=>
              \E i \in DOMAIN requirement.specs : row.selectors = [specification |-> i]
        OBVIOUS
      <3> HIDE DEF C, L, M
      <3> QED BY <3>1, <3>2, <3>3, <3>4
    <2>3. <<row.selectors, row.artifact>> \in Admitted(requirement) <=>
            \/ /\ D = {"candidate"} /\ id("candidate") \in DOMAIN requirement.candidates
               /\ row.artifact = requirement.candidates[id("candidate")]
            \/ /\ D = {"locked"} /\ id("locked") \in DOMAIN requirement.locked
               /\ row.artifact = requirement.locked[id("locked")]
            \/ D = {"specification"} /\ id("specification") \in DOMAIN requirement.specs
      <3>1. \A i : row.selectors = [candidate |-> i] <=> D = {"candidate"} /\ id("candidate") = i
        BY SelectorFacts, Zenon
      <3>2. \A i : row.selectors = [locked |-> i] <=> D = {"locked"} /\ id("locked") = i
        BY SelectorFacts, Zenon
      <3>3. \A i : row.selectors = [specification |-> i] <=>
                     D = {"specification"} /\ id("specification") = i
        BY SelectorFacts, Zenon
      <3> HIDE DEF D, id
      <3> QED BY <2>2, <3>1, <3>2, <3>3, Zenon
    <2>4. CASE D = {"candidate"}
      <3>1. PostureViolations(row, requirement) = {} <=>
              /\ id("candidate") \in DOMAIN requirement.candidates
              /\ requirement.candidates[id("candidate")] = row.artifact
        BY <2>1, <2>4 DEF ConstrainedViolations, NamedArtifactViolations
      <3> QED BY <2>3, <2>4, <3>1, SelectorFacts DEF AuthoredSpecification
    <2>5. CASE D = {"locked"}
      <3>1. PostureViolations(row, requirement) = {} <=>
              /\ id("locked") \in DOMAIN requirement.locked
              /\ requirement.locked[id("locked")] = row.artifact
        BY <2>1, <2>5 DEF ConstrainedViolations, NamedArtifactViolations
      <3> QED BY <2>3, <2>5, <3>1, SelectorFacts DEF AuthoredSpecification
    <2>6. CASE D = {"specification"}
      <3>1. PostureViolations(row, requirement) = {} <=>
              /\ id("specification") \in DOMAIN requirement.specs
              /\ requirement.specs[id("specification")]
                   = [digest |-> row.specification, mechanism |-> row.mechanism]
        BY <2>1, <2>6 DEF ConstrainedViolations, SpecificationViolations
      <3>2. AuthoredSpecification(row, requirement) <=>
              requirement.specs[id("specification")]
                = [digest |-> row.specification, mechanism |-> row.mechanism]
        BY <2>6 DEF AuthoredSpecification
      <3> QED BY <2>3, <2>6, <3>1, <3>2, SelectorFacts
    <2>7. CASE D = {}
      <3>1. PostureViolations(row, requirement) # {}
        BY <2>1, <2>7 DEF ConstrainedViolations
      <3> QED BY <2>3, <2>7, <3>1
    <2>8. CASE D \notin {{}, {"candidate"}, {"locked"}, {"specification"}}
      BY <2>3, <2>8, SelectorFacts
    <2> QED BY <2>4, <2>5, <2>6, <2>7, <2>8
  <1> QED BY <1>1, <1>2, <1>3

LEMMA RowsAreJudged ==
  ASSUME NEW row, RowIsWritten(row), NEW requirements, AreWritten(requirements), NEW members
  PROVE  RowViolations(row, requirements, members) = {} <=> Backed(row, requirements, members)
  <1> DEFINE requirement == requirements[row.address]
             resolved == /\ row.address \in DOMAIN requirements \cap Addresses
                         /\ requirements[row.address] # Ambiguous
                         /\ requirement.id = row.requirement
  <1>1. Resolution(row, requirements) = {} <=> resolved
    BY DEF Resolution
  <1>2. CASE ~resolved
    BY <1>1, <1>2 DEF RowViolations, Backed
  <1>3. CASE resolved
    <2>1. requirement.posture \in {"exact", "constrained", "open"}
      BY <1>3 DEF AreWritten
    <2>2. StructureViolations(row) = {} <=>
            /\ row.artifact \in GovernedArtifacts \cup {Nothing}
            /\ row.mechanism \in GovernedMechanisms \cup {Nothing}
      BY DEF StructureViolations
    <2>3. RouteViolations(row, requirement) = {} <=>
            (row.mechanism # Nothing =>
               \E route \in requirement.routes : route.mechanism = row.mechanism)
      BY DEF RouteViolations, PermittedRoutes
    <2>4. MembershipViolations(row, members) = {} <=>
            (row.artifact # Nothing => DigestOf[row.artifact] \in members[row.view])
      BY DEF MembershipViolations
    <2>5. RowViolations(row, requirements, members) = {} <=>
            /\ MembershipViolations(row, members) = {}
            /\ StructureViolations(row) = {}
            /\ ~(Cardinality(DOMAIN row.selectors) > 1)
            /\ RouteViolations(row, requirement) = {}
            /\ PostureViolations(row, requirement) = {}
      BY <1>1, <1>3 DEF RowViolations
    <2>6. Backed(row, requirements, members) <=>
            /\ <<row.selectors, row.artifact>> \in Admitted(requirement)
            /\ AuthoredSpecification(row, requirement)
            /\ row.mechanism # Nothing =>
                 /\ row.mechanism \in GovernedMechanisms
                 /\ \E route \in requirement.routes : route.mechanism = row.mechanism
            /\ row.artifact # Nothing =>
                 row.artifact \in GovernedArtifacts /\ DigestOf[row.artifact] \in members[row.view]
      BY <1>3 DEF Backed
    <2> QED BY <2>1, <2>2, <2>3, <2>4, <2>5, <2>6, PostureIsAdmission
  <1> QED BY <1>2, <1>3

(* A release accepts a row exactly when its author admits it (publication.py *)
(* 814-852), for every requirement, membership and row the schema permits.   *)
THEOREM RowsAreAuthored == AcceptedRowsAreAuthored
  BY RowsAreJudged, AuthorAssumption DEF AcceptedRowsAreAuthored

--------------------------------------------------------------------------------
(***************************************************************************)
(* The views.                                                              *)
(***************************************************************************)

(* Of two paths above a third one is above the other.                       *)
LEMMA PrefixesCompare ==
  ASSUME NEW p, IsList(p), NEW r, IsList(r), NEW leaf, IsList(leaf),
         IsPrefix(p, leaf), IsPrefix(r, leaf)
  PROVE  IsPrefix(p, r) \/ IsPrefix(r, p)
  <1> DEFINE S == {p[i] : i \in DOMAIN p} \cup {r[i] : i \in DOMAIN r}
                    \cup {leaf[i] : i \in DOMAIN leaf}
  <1>1. p \in Seq(S) /\ r \in Seq(S) /\ leaf \in Seq(S)
    BY DEF IsList, ToSet
  <1> HIDE DEF S
  <1>2. \A s, t \in Seq(S) : IsPrefix(s, t) <=>
          Len(s) <= Len(t) /\ \A i \in 1 .. Len(s) : s[i] = t[i]
    BY DEF IsPrefix
  <1> QED BY <1>1, <1>2

(* Whatever rows and trees: a tree that is staged puts nothing at or below a *)
(* restricted row, and plain files alone, into the participant view          *)
(* (release.py 594-599, ADR 0013).                                           *)
THEOREM ViewsAreApart == ViewsKeepApart
  <1> SUFFICES ASSUME NEW tree \in PackTrees, NEW rows \in Boundaries,
                      StagesCleanly(tree, rows),
                      NEW leaf \in StagedMembers(tree, rows)["participant"]
               PROVE  /\ tree[leaf] = "file"
                      /\ \A row \in rows : Restricted(row) => ~IsPrefix(row.path, leaf)
    BY DEF ViewsKeepApart
  <1>1. PICK row \in rows : /\ BoundaryTiers[row.group] = "participant"
                            /\ leaf \in Walked(tree, row.path)
    BY DEF StagedMembers, Tiers, BoundaryTiers
  <1>2. row.group = "participant_visible"
    BY <1>1, AuthorAssumption DEF BoundaryTiers
  <1>3. leaf \in DOMAIN tree /\ IsPrefix(row.path, leaf) /\ tree[leaf] = "file"
    BY <1>1 DEF StagesCleanly, RowFails, Walked, Below
  <1>4. ASSUME NEW other \in rows, Restricted(other), IsPrefix(other.path, leaf)
        PROVE  FALSE
    <2>1. IsPrefix(row.path, other.path) \/ IsPrefix(other.path, row.path)
      BY <1>3, <1>4, AuthorAssumption, PrefixesCompare
    <2> QED BY <1>2, <1>4, <2>1 DEF StagesCleanly, BoundaryOverlaps
  <1> QED BY <1>3, <1>4

--------------------------------------------------------------------------------
(***************************************************************************)
(* The inductive invariant holds, action by action.                        *)
(***************************************************************************)

LEMMA PhaseFacts ==
  /\ Holding \cup {"clearing", "making", "aborting"} = Working
  /\ Written \subseteq Consulted /\ Consulted \subseteq Judged /\ Judged \subseteq Attested
  /\ Attested \subseteq Named /\ Named \subseteq Copied /\ Copied \subseteq Holding
  /\ Working \subseteq Phases /\ "idle" \notin Working /\ "done" \notin Working
  /\ "binding" \in Copied /\ "removing" \in Written /\ "replacing" \in Written
  BY DEF Holding, Copied, Named, Attested, Judged, Consulted, Written, Working, Phases

LEMMA EditFacts ==
  /\ Edits \subseteq Nat /\ None \notin Edits
  /\ \A s \in Snapshots : s \in [Views -> Edits] /\ s \in SetsOfViews
  /\ NoViews \in SetsOfViews /\ \A v \in Views : NoViews[v] = None
  BY ReleaseAssumption DEF Edits, Snapshots, SetsOfViews, NoViews

LEMMA NothingYet ==
  /\ EmptyDir \in Directories /\ EmptyDir # None
  /\ EmptyDir.views = NoViews /\ EmptyDir.evidence = None /\ EmptyDir.profile = None
  /\ NoProfile \in Profiles /\ NoProfile.sets = NoViews /\ NoProfile.evidence = None
  <1>1. [v \in Views |-> 0] \in Snapshots
    BY ReleaseAssumption DEF Snapshots, Edits
  <1>2. EmptyDir \in Directories /\ NoProfile \in Profiles
    BY <1>1, EditFacts DEF EmptyDir, Directories, NoProfile, Profiles
  <1> QED BY <1>2, DocumentAssumption DEF EmptyDir, NoProfile

(* The fields of what a build holds.                                        *)
LEMMA DirectoryFacts ==
  ASSUME NEW d \in Directories
  PROVE  /\ d # None /\ d.views \in SetsOfViews /\ d.evidence \in Snapshots \cup {None}
         /\ d.profile \in Profiles \cup {None}
  BY DocumentAssumption DEF Directories

LEMMA ProfileFacts ==
  ASSUME NEW p \in Profiles
  PROVE  /\ p # None /\ p.read \in Snapshots /\ p.sets \in SetsOfViews
         /\ p.evidence \in Snapshots \cup {None}
  BY DocumentAssumption DEF Profiles

LEMMA InitBuild == Init => BuildInv
  <1> SUFFICES ASSUME Init PROVE BuildInv
    OBVIOUS
  <1>1. [v \in Views |-> 0] \in Snapshots
    BY ReleaseAssumption DEF Snapshots, Edits
  <1>2. TypeOK
    BY <1>1, NothingYet, PhaseFacts DEF Init, TypeOK, Phases
  <1>3. OneBuild
    BY PhaseFacts DEF Init, OneBuild
  <1>4. BuildFollows
    <2> SUFFICES ASSUME NEW b \in Builders
                 PROVE  /\ Grown(b) /\ Followed(b)
                        /\ pc[b] \notin Judged /\ OneSnapshot(b)
      BY DEF BuildFollows
    <2>1. pc[b] = "idle" /\ meta[b] = NoProfile /\ copied[b] = {} /\ bound[b] = {}
          /\ outcome[b] = "none"
      BY DEF Init
    <2> QED BY <2>1, NothingYet, PhaseFacts DEF Grown, Followed, OneSnapshot, Written
  <1>5. ReleaseIsBound /\ IssuedOnce
    BY PhaseFacts DEF Init, ReleaseIsBound, IssuedOnce, Released
  <1> QED BY <1>2, <1>3, <1>4, <1>5 DEF BuildInv

(* A step of one build: its own part of the invariant, and what the release *)
(* is afterwards.                                                           *)
LEMMA OneBuilderStep ==
  ASSUME BuildInv, TypeOK', UNCHANGED resting, NEW b \in Builders,
         \A c \in Builders \ {b} :
           /\ pc'[c] = pc[c] /\ outcome'[c] = outcome[c] /\ meta'[c] = meta[c]
           /\ copied'[c] = copied[c] /\ bound'[c] = bound[c],
         pc'[b] \in Working => pc[b] \in Working \/ (Serialised => Quiet),
         pc[b] \in Working \/ (Serialised => Quiet),
         Grown(b)',
         Serialised => /\ Followed(b)'
                       /\ (pc[b] \in Judged)' => RowsFit(meta[b], staging.views)'
                       /\ resting => OneSnapshot(b)',
         ReleaseIsBound', IssuedOnce'
  PROVE  BuildInv'
  <1>1. Serialised => \A c \in Builders \ {b} : pc[c] \notin Working
    BY DEF BuildInv, OneBuild, Quiet
  <1>2. OneBuild'
    BY <1>1 DEF OneBuild
  <1>3. ASSUME NEW c \in Builders \ {b}
        PROVE  /\ Grown(c)'
               /\ Serialised => Followed(c)' /\ (pc[c] \notin Judged)' /\ OneSnapshot(c)'
    <2>1. Grown(c)'
      BY <1>3 DEF BuildInv, BuildFollows, Grown
    <2>2. Serialised => (pc[c] \notin Working)'
      BY <1>1, <1>3
    <2>3. (pc[c] \notin Working)' => Followed(c)' /\ (pc[c] \notin Judged)' /\ OneSnapshot(c)'
      BY PhaseFacts DEF Followed, OneSnapshot
    <2> QED BY <2>1, <2>2, <2>3
  <1>4. BuildFollows'
    BY <1>3 DEF BuildFollows
  <1> QED BY <1>2, <1>4 DEF BuildInv

(* The release is as it was, and b neither starts nor ends to replace it.   *)
LEMMA ReleaseKept ==
  ASSUME BuildInv, UNCHANGED <<resting, release, issued>>, NEW b \in Builders,
         \A c \in Builders \ {b} :
           pc'[c] = pc[c] /\ outcome'[c] = outcome[c] /\ meta'[c] = meta[c],
         \/ outcome'[b] = "crashed"
         \/ /\ outcome[b] = "none" /\ outcome'[b] # "crashed"
            /\ Serialised => pc[b] \notin {"removing", "replacing"}
            /\ pc'[b] \notin {"removing", "replacing"}
            /\ pc'[b] \in Consulted =>
                 \/ pc[b] \in Consulted /\ meta'[b] = meta[b]
                 \/ Serialised /\ Uncrashed /\ issued # None => Identity(meta'[b]) = issued
  PROVE  ReleaseIsBound' /\ IssuedOnce'
  <1>1. ReleaseIsBound'
    BY DEF BuildInv, ReleaseIsBound, Released
  <1>2. CASE outcome'[b] = "crashed"
    BY <1>1, <1>2 DEF IssuedOnce, Uncrashed
  <1>3. CASE /\ outcome[b] = "none" /\ outcome'[b] # "crashed"
             /\ Serialised => pc[b] \notin {"removing", "replacing"}
             /\ pc'[b] \notin {"removing", "replacing"}
             /\ pc'[b] \in Consulted =>
                  \/ pc[b] \in Consulted /\ meta'[b] = meta[b]
                  \/ Serialised /\ Uncrashed /\ issued # None => Identity(meta'[b]) = issued
    <2> SUFFICES ASSUME Serialised, Uncrashed'
                 PROVE  IssuedOnce'
      BY <1>1 DEF IssuedOnce
    <2>1. Uncrashed
      BY <1>3 DEF Uncrashed
    <2>2. \A c \in Builders :
            /\ pc[c] \in {"removing", "replacing"} => pc'[c] \in {"removing", "replacing"}
            /\ pc[c] = "removing" => pc'[c] = "removing"
      BY <1>3
    <2>0. /\ release # None /\ (\A c \in Builders : pc[c] # "removing") => Released
          /\ issued # None => Released \/ \E c \in Builders : pc[c] \in {"removing", "replacing"}
          /\ Released' <=> Released
      BY <2>1 DEF BuildInv, IssuedOnce, Released
    <2>3. \A c \in Builders : pc'[c] \in Consulted =>
            \/ pc[c] \in Consulted /\ meta'[c] = meta[c]
            \/ issued # None => Identity(meta'[c]) = issued
      BY <1>3, <2>1
    <2>4. \A p : Identity(p)' = Identity(p)
      BY DEF Identity, SetOf
    <2>5. (release' # None /\ \A c \in Builders : pc'[c] # "removing") => Released'
      BY <2>0, <2>2
    <2>6. Released' => Identity(release.profile)' = issued'
      BY <2>1, <2>4 DEF BuildInv, IssuedOnce, Released
    <2>7. issued' # None => Released' \/ \E c \in Builders : pc'[c] \in {"removing", "replacing"}
      BY <2>0, <2>2
    <2>8. \A c \in Builders : pc'[c] \in Consulted /\ issued' # None => Identity(meta'[c]) = issued'
      BY <2>1, <2>3 DEF BuildInv, IssuedOnce
    <2> QED BY <2>5, <2>6, <2>7, <2>8 DEF IssuedOnce, Identity, SetOf
  <1> QED BY <1>1, <1>2, <1>3

(* A build that ends leaves nothing but, perhaps, the staging directory.    *)
LEMMA FinishStep ==
  ASSUME BuildInv, NEW b \in Builders, pc[b] \in Working, NEW result \in {"failed", "crashed"},
         Finish(b, result), UNCHANGED <<resting, source, release, issued>>,
         staging' \in Directories \cup {None},
         result = "failed" /\ Serialised => pc[b] \notin {"removing", "replacing"}
  PROVE  BuildInv'
  <1>1. TypeOK /\ outcome[b] = "none"
    BY PhaseFacts DEF BuildInv, BuildFollows, Grown
  <1>2. TypeOK'
    BY <1>1, NothingYet DEF TypeOK, Finish, Goto, Phases
  <1>3. /\ pc'[b] = "done" /\ outcome'[b] = result /\ meta'[b] = NoProfile
        /\ copied'[b] = {} /\ bound'[b] = {}
        /\ \A c \in Builders \ {b} :
             /\ pc'[c] = pc[c] /\ outcome'[c] = outcome[c] /\ meta'[c] = meta[c]
             /\ copied'[c] = copied[c] /\ bound'[c] = bound[c]
    BY <1>1 DEF TypeOK, Finish, Goto
  <1>4. pc'[b] \notin Working \cup Consulted \cup {"removing", "replacing"}
    BY <1>3, PhaseFacts
  <1>5. Grown(b)'
    BY <1>3, NothingYet, PhaseFacts DEF Grown
  <1>6. (pc[b] \notin Working)' => Followed(b)' /\ (pc[b] \notin Judged)' /\ OneSnapshot(b)'
    BY PhaseFacts DEF Followed, OneSnapshot
  <1>7. ReleaseIsBound' /\ IssuedOnce'
    BY <1>1, <1>3, <1>4, ReleaseKept
  <1> QED BY <1>2, <1>3, <1>4, <1>5, <1>6, <1>7, OneBuilderStep

(* A failure found inside the try block.                                    *)
LEMMA GoAbort ==
  ASSUME BuildInv, NEW b \in Builders, pc[b] \in Working, Goto(b, "aborting"),
         UNCHANGED <<resting, source, release, issued, locals, outcome>>,
         staging' \in Directories \cup {None},
         Serialised => pc[b] \notin {"removing", "replacing"}
  PROVE  BuildInv'
  <1>1. TypeOK /\ outcome[b] = "none"
    BY PhaseFacts DEF BuildInv, BuildFollows, Grown
  <1>2. TypeOK'
    BY <1>1, PhaseFacts DEF TypeOK, Goto, locals
  <1>3. /\ pc'[b] = "aborting" /\ \A c \in Builders \ {b} : pc'[c] = pc[c]
    BY <1>1 DEF TypeOK, Goto
  <1>4. "aborting" \in Working /\ "aborting" \notin Holding
    BY PhaseFacts DEF Holding, Copied, Named, Attested, Judged, Consulted, Written
  <1>5. Grown(b)'
    BY <1>1, <1>3, <1>4, PhaseFacts DEF BuildInv, BuildFollows, Grown, locals
  <1>6. Followed(b)' /\ (pc[b] \notin Judged)'
    BY <1>3, <1>4, PhaseFacts DEF Followed, Written
  <1>7. Serialised /\ resting => OneSnapshot(b)'
    BY <1>3, <1>4, PhaseFacts DEF BuildInv, BuildFollows, OneSnapshot, locals
  <1>8. ReleaseIsBound' /\ IssuedOnce'
    BY <1>1, <1>3, <1>4, PhaseFacts, ReleaseKept DEF locals
  <1> QED BY <1>2, <1>3, <1>5, <1>6, <1>7, <1>8, OneBuilderStep DEF locals

LEMMA BeginStep ==
  ASSUME BuildInv, NEW b \in Builders, NEW published \in BOOLEAN, Begin(b, published)
  PROVE  BuildInv'
  <1> DEFINE m == [meta[b] EXCEPT !.read = source]
  <1>1. TypeOK /\ pc[b] = "idle" /\ outcome[b] = "none" /\ (Serialised => Quiet)
    BY DEF BuildInv, BuildFollows, Grown, Begin
  <1>2. /\ m \in Profiles /\ m.read = source /\ m.sets = meta[b].sets
        /\ m.evidence = meta[b].evidence
    BY <1>1 DEF TypeOK, Profiles
  <1> HIDE DEF m
  <1>3. meta' = [meta EXCEPT ![b] = m]
    BY <1>1 DEF Begin, TypeOK, m
  <1>4. TypeOK'
    BY <1>1, <1>2, <1>3, PhaseFacts DEF Begin, Goto, TypeOK, shared
  <1>5. /\ pc'[b] = "clearing" /\ meta'[b] = m /\ outcome'[b] = "none"
        /\ copied'[b] = copied[b] /\ bound'[b] = bound[b]
        /\ \A c \in Builders \ {b} :
             /\ pc'[c] = pc[c] /\ outcome'[c] = outcome[c] /\ meta'[c] = meta[c]
             /\ copied'[c] = copied[c] /\ bound'[c] = bound[c]
    BY <1>1, <1>3 DEF TypeOK, Begin, Goto
  <1>6. "clearing" \in Working /\ "clearing" \notin Holding
    BY PhaseFacts DEF Holding, Copied, Named, Attested, Judged, Consulted, Written
  <1>7. Grown(b)
    BY DEF BuildInv, BuildFollows
  <1>8. Grown(b)'
    BY <1>1, <1>2, <1>5, <1>6, <1>7, PhaseFacts, NothingYet DEF Grown
  <1>9. Followed(b)' /\ (pc[b] \notin Judged)' /\ OneSnapshot(b)'
    BY <1>2, <1>5, <1>6, PhaseFacts DEF Followed, OneSnapshot, Begin, shared
  <1>10. ReleaseIsBound' /\ IssuedOnce'
    BY <1>1, <1>5, <1>6, PhaseFacts, ReleaseKept DEF Begin, shared
  <1> QED BY <1>1, <1>4, <1>5, <1>8, <1>9, <1>10, OneBuilderStep DEF Begin, shared

(* What every step up to the rename has in common: the build goes on with   *)
(* what it held, except for what the step changes.                          *)
LEMMA WorkStep ==
  ASSUME BuildInv, NEW b \in Builders, pc[b] \in Working \ {"removing", "replacing"},
         NEW phase \in Working \ {"removing", "replacing"}, Goto(b, phase),
         UNCHANGED <<resting, source, release, issued, publish, outcome>>,
         staging' \in Directories \cup {None},
         NEW m \in Profiles, meta' = [meta EXCEPT ![b] = m], m.read = meta[b].read,
         NEW cs \in SUBSET Views, copied' = [copied EXCEPT ![b] = cs],
         NEW bs \in SUBSET Views, bound' = [bound EXCEPT ![b] = bs],
         phase \in {"clearing", "making"} => cs = {},
         phase \notin Named \cup {"binding", "aborting"} => m.sets = NoViews /\ bs = {},
         phase \notin Attested \cup {"aborting"} => m.evidence = None,
         Serialised => Followed(b)',
         Serialised /\ phase \in Judged => RowsFit(m, staging'.views),
         Serialised /\ resting /\ meta[b].read = source =>
           /\ phase \in Holding =>
                /\ \A v \in Views : staging'.views[v] \in {None, source[v]}
                /\ m.evidence # None =>
                     /\ m.evidence = source /\ PackAt[source].bound
                     /\ OwnEvidencePasses(Facts(source))
           /\ phase \in Named /\ PackAt[source].bound =>
                \A v \in Views : m.sets[v] = staging'.views[v],
         phase \in Consulted =>
           \/ pc[b] \in Consulted /\ m = meta[b]
           \/ Serialised /\ Uncrashed /\ issued # None => Identity(m) = issued
  PROVE  BuildInv'
  <1>1. TypeOK /\ outcome[b] = "none"
    BY PhaseFacts DEF BuildInv, BuildFollows, Grown
  <1>2. TypeOK'
    BY <1>1, PhaseFacts DEF Goto, TypeOK
  <1>3. /\ pc'[b] = phase /\ meta'[b] = m /\ outcome'[b] = "none"
        /\ copied'[b] = cs /\ bound'[b] = bs
        /\ \A c \in Builders \ {b} :
             /\ pc'[c] = pc[c] /\ outcome'[c] = outcome[c] /\ meta'[c] = meta[c]
             /\ copied'[c] = copied[c] /\ bound'[c] = bound[c]
    BY <1>1 DEF TypeOK, Goto
  <1>4. Grown(b)'
    BY <1>3, PhaseFacts DEF Grown
  <1>5. Serialised /\ resting => meta[b].read = source
    BY DEF BuildInv, BuildFollows, OneSnapshot
  <1>6. Serialised /\ resting => OneSnapshot(b)'
    BY <1>3, <1>5 DEF OneSnapshot
  <1>7. Serialised => ((pc[b] \in Judged)' => RowsFit(meta[b], staging.views)')
    BY <1>3 DEF RowsFit
  <1>8. ReleaseIsBound' /\ IssuedOnce'
    BY <1>1, <1>3, ReleaseKept
  <1> QED BY <1>2, <1>3, <1>4, <1>6, <1>7, <1>8, OneBuilderStep

(* What b holds before a step, for the steps that leave it as it is.        *)
LEMMA HeldFacts ==
  ASSUME BuildInv, NEW b \in Builders
  PROVE  /\ meta[b] \in Profiles /\ copied[b] \in SUBSET Views /\ bound[b] \in SUBSET Views
         /\ meta = [meta EXCEPT ![b] = meta[b]] /\ copied = [copied EXCEPT ![b] = copied[b]]
         /\ bound = [bound EXCEPT ![b] = bound[b]]
         /\ staging \in Directories \cup {None} /\ source \in Snapshots
         /\ Grown(b)
         /\ Serialised => /\ Followed(b)
                          /\ pc[b] \in Judged => RowsFit(meta[b], staging.views)
                          /\ resting => OneSnapshot(b)
  <1>1. /\ meta \in [Builders -> Profiles] /\ copied \in [Builders -> SUBSET Views]
        /\ bound \in [Builders -> SUBSET Views]
        /\ staging \in Directories \cup {None} /\ source \in Snapshots
    BY DEF BuildInv, TypeOK
  <1>2. /\ Grown(b)
        /\ Serialised => /\ Followed(b)
                         /\ pc[b] \in Judged => RowsFit(meta[b], staging.views)
                         /\ resting => OneSnapshot(b)
    BY DEF BuildInv, BuildFollows
  <1>3. /\ meta = [meta EXCEPT ![b] = meta[b]] /\ copied = [copied EXCEPT ![b] = copied[b]]
        /\ bound = [bound EXCEPT ![b] = bound[b]]
    BY <1>1
  <1>4. /\ meta[b] \in Profiles /\ copied[b] \in SUBSET Views /\ bound[b] \in SUBSET Views
    BY <1>1
  <1> QED BY <1>1, <1>2, <1>3, <1>4

(* Replacing one view of a directory.                                       *)
LEMMA ViewChanged ==
  ASSUME NEW d \in Directories, NEW v \in Views, NEW x \in Edits \cup {None},
         NEW e, e = [d EXCEPT !.views[v] = x]
  PROVE  /\ e \in Directories /\ e.evidence = d.evidence /\ e.profile = d.profile
         /\ e.views[v] = x /\ \A w \in Views \ {v} : e.views[w] = d.views[w]
  <1>1. d.views \in SetsOfViews /\ [d.views EXCEPT ![v] = x] \in SetsOfViews
    BY DirectoryFacts DEF SetsOfViews
  <1>2. e = [d EXCEPT !.views = [d.views EXCEPT ![v] = x]]
    BY DEF Directories
  <1>3. e \in Directories
    BY <1>1, <1>2 DEF Directories
  <1>4. e.views = [d.views EXCEPT ![v] = x] /\ e.evidence = d.evidence /\ e.profile = d.profile
    BY <1>2 DEF Directories
  <1> QED BY <1>1, <1>3, <1>4 DEF SetsOfViews

LEMMA ClearStep ==
  ASSUME BuildInv, NEW b \in Builders, Clear(b)
  PROVE  BuildInv'
  <1>1. pc[b] = "clearing" /\ staging' = None /\ Goto(b, "making")
        /\ UNCHANGED <<resting, source, release, issued, publish, meta, copied, bound, outcome>>
    BY DEF Clear, locals
  <1>2. pc'[b] = "making"
    BY <1>1 DEF BuildInv, TypeOK, Goto
  <1>3. /\ "making" \notin Holding /\ "clearing" \notin Holding
        /\ {"making", "clearing"} \subseteq Working \ {"removing", "replacing"}
    BY PhaseFacts DEF Holding, Copied, Named, Attested, Judged, Consulted, Written
  <1>4. copied[b] = {} /\ meta[b].sets = NoViews /\ bound[b] = {} /\ meta[b].evidence = None
    BY <1>1, <1>3, HeldFacts, PhaseFacts DEF Grown
  <1>5. Followed(b)'
    BY <1>1, <1>2, <1>3, PhaseFacts DEF Followed
  <1>6. /\ meta[b] \in Profiles /\ meta' = [meta EXCEPT ![b] = meta[b]]
        /\ copied' = [copied EXCEPT ![b] = copied[b]] /\ bound' = [bound EXCEPT ![b] = bound[b]]
    BY <1>1, HeldFacts
  <1>7. "making" \notin Judged \cup Named \cup Consulted
    BY <1>3, PhaseFacts
  <1> QED BY <1>1, <1>3, <1>4, <1>5, <1>6, <1>7, WorkStep

LEMMA MakeStep ==
  ASSUME BuildInv, NEW b \in Builders, Make(b)
  PROVE  BuildInv'
  <1>1. pc[b] = "making" /\ UNCHANGED <<resting, source, release, issued>>
    BY DEF Make
  <1>2. /\ "making" \notin Holding /\ "making" \in Working \ {"removing", "replacing"}
        /\ "staging" \in Holding \ Copied /\ "staging" \in Working \ {"removing", "replacing"}
    BY PhaseFacts DEF Holding, Copied, Named, Attested, Judged, Consulted, Written
  <1>3. CASE UNCHANGED staging /\ Finish(b, "failed")
    BY <1>1, <1>2, <1>3, HeldFacts, FinishStep
  <1>4. CASE staging' = EmptyDir /\ Goto(b, "aborting") /\ UNCHANGED <<locals, outcome>>
    BY <1>1, <1>2, <1>4, NothingYet, GoAbort
  <1>5. CASE staging' = EmptyDir /\ Goto(b, "staging") /\ UNCHANGED <<locals, outcome>>
    <2>1. copied[b] = {} /\ meta[b].sets = NoViews /\ bound[b] = {} /\ meta[b].evidence = None
      BY <1>1, <1>2, HeldFacts, PhaseFacts DEF Grown
    <2>2. pc'[b] = "staging" /\ meta' = meta /\ copied' = copied /\ bound' = bound
      BY <1>5 DEF BuildInv, TypeOK, Goto, locals
    <2>3. Followed(b)'
      BY <1>2, <1>5, <2>1, <2>2, NothingYet, EditFacts, PhaseFacts DEF Followed
    <2>4. /\ meta[b] \in Profiles /\ meta' = [meta EXCEPT ![b] = meta[b]]
          /\ copied' = [copied EXCEPT ![b] = copied[b]]
          /\ bound' = [bound EXCEPT ![b] = bound[b]]
      BY <2>2, HeldFacts
    <2>5. "staging" \notin Judged \cup Named \cup Consulted \cup Attested
      BY <1>2, PhaseFacts
    <2>6. /\ staging' \in Directories \cup {None}
          /\ \A v \in Views : staging'.views[v] = None
      BY <1>5, NothingYet, EditFacts
    <2> QED BY <1>1, <1>2, <1>5, <2>1, <2>3, <2>4, <2>5, <2>6, WorkStep DEF locals
  <1> QED BY <1>3, <1>4, <1>5 DEF Make, Proceed

(* Where the phases stand.                                                  *)
LEMMA PhaseOrder ==
  /\ "staging" \in Holding \ Copied /\ "deriving" \in Copied \ Named
  /\ "binding" \in Copied \ Named
  /\ "emitting" \in Named \ Attested /\ "publishing" \in Attested \ Judged
  /\ "checking" \in Judged \ Consulted /\ "writing" \in Consulted \ Written
  /\ "promoting" \in Written /\ "aborting" \in Working \ Holding
  BY DEF Holding, Copied, Named, Attested, Judged, Consulted, Written, Working

LEMMA StageStep ==
  ASSUME BuildInv, NEW b \in Builders, NEW v \in Views, StageView(b, v)
  PROVE  BuildInv'
  <1> DEFINE d == IF staging = None THEN EmptyDir ELSE staging
             e == [d EXCEPT !.views[v] = source[v]]
  <1>1. pc[b] = "staging" /\ UNCHANGED <<resting, source, release, issued, publish,
                                         meta, bound, outcome>>
    BY DEF StageView
  <1>2. CASE UNCHANGED <<staging, copied>> /\ Goto(b, "aborting")
    BY <1>1, <1>2, HeldFacts, PhaseFacts, PhaseOrder, GoAbort DEF locals
  <1>3. CASE staging' = e /\ copied' = [copied EXCEPT ![b] = @ \cup {v}] /\ UNCHANGED pc
    <2>1. d \in Directories
      BY HeldFacts, NothingYet
    <2>2. source[v] \in Edits /\ source[v] # None
      BY HeldFacts, EditFacts
    <2> HIDE DEF d
    <2>3. /\ e \in Directories /\ e.evidence = d.evidence /\ e.views[v] = source[v]
          /\ \A w \in Views \ {v} : e.views[w] = d.views[w]
      BY <2>1, <2>2, ViewChanged
    <2> HIDE DEF e
    <2>4. /\ meta[b] \in Profiles /\ meta' = [meta EXCEPT ![b] = meta[b]]
          /\ bound[b] \in SUBSET Views /\ bound' = [bound EXCEPT ![b] = bound[b]]
          /\ copied' = [copied EXCEPT ![b] = copied[b] \cup {v}]
          /\ copied[b] \cup {v} \in SUBSET Views /\ Goto(b, "staging")
      <3>1. pc' = [pc EXCEPT ![b] = "staging"]
        BY <1>1, <1>3 DEF BuildInv, TypeOK
      <3> QED BY <1>1, <1>3, <3>1, HeldFacts DEF Goto
    <2>5. meta[b].sets = NoViews /\ bound[b] = {} /\ meta[b].evidence = None
      BY <1>1, HeldFacts, PhaseFacts, PhaseOrder DEF Grown
    <2>6. /\ "staging" \notin Copied \cup Named \cup Attested \cup Judged \cup Consulted \cup Written
          /\ "staging" \in Working \ {"removing", "replacing"} /\ "staging" \in Holding
      BY PhaseFacts, PhaseOrder
    <2>7. Serialised => d = staging
      BY <1>1, <2>6, HeldFacts DEF Followed, d
    <2>8. /\ pc'[b] = "staging" /\ copied'[b] = copied[b] \cup {v} /\ meta' = meta
          /\ bound' = bound
      BY <1>1, <1>3 DEF BuildInv, TypeOK
    <2>9. Serialised => Followed(b)'
      <3> SUFFICES ASSUME Serialised PROVE Followed(b)'
        OBVIOUS
      <3>1. /\ staging.evidence = meta[b].evidence /\ \A w \in copied[b] : staging.views[w] # None
        BY <1>1, <2>6, HeldFacts DEF Followed
      <3>2. \A w \in Views : meta[b].sets[w] = None
        BY <2>5, EditFacts
      <3>3. \A w \in copied'[b] : e.views[w] # None
        BY <2>2, <2>3, <2>4, <2>7, <2>8, <3>1, HeldFacts
      <3> QED BY <1>3, <2>3, <2>6, <2>7, <2>8, <3>1, <3>2, <3>3, DirectoryFacts
                 DEF Followed
    <2>10. Serialised /\ resting /\ meta[b].read = source =>
             \A w \in Views : e.views[w] \in {None, source[w]}
      <3>1. Serialised /\ resting => \A w \in Views : staging.views[w] \in {None, source[w]}
        BY <1>1, <2>6, HeldFacts DEF OneSnapshot
      <3> QED BY <2>3, <2>7, <3>1
    <2>11. /\ pc[b] \in Working \ {"removing", "replacing"}
           /\ staging' \in Directories \cup {None}
           /\ UNCHANGED <<resting, source, release, issued, publish, outcome>>
           /\ "staging" \notin {"clearing", "making"} /\ meta[b].read = meta[b].read
      BY <1>1, <1>3, <2>3, <2>6
    <2>12. Serialised /\ resting /\ meta[b].read = source =>
             /\ "staging" \in Holding =>
                  /\ \A w \in Views : staging'.views[w] \in {None, source[w]}
                  /\ meta[b].evidence # None =>
                       /\ meta[b].evidence = source /\ PackAt[source].bound
                       /\ OwnEvidencePasses(Facts(source))
             /\ "staging" \in Named /\ PackAt[source].bound =>
                  \A w \in Views : meta[b].sets[w] = staging'.views[w]
      BY <1>3, <2>5, <2>6, <2>10
    <2> QED BY <2>4, <2>5, <2>6, <2>9, <2>11, <2>12, WorkStep
  <1> QED BY <1>2, <1>3 DEF StageView

(* A step that reads and goes on, or aborts.                                *)
LEMMA ReadOn ==
  ASSUME BuildInv, NEW b \in Builders, pc[b] \in Holding \ {"removing", "replacing"},
         NEW phase \in Holding \ {"removing", "replacing"}, Goto(b, phase),
         UNCHANGED <<resting, source, staging, release, issued, publish, meta,
                     copied, bound, outcome>>,
         phase \notin Named \cup {"binding"} => pc[b] \notin Named \cup {"binding"},
         phase \notin Attested => pc[b] \notin Attested,
         phase \notin Written,
         Serialised =>
           /\ phase \in Copied =>
                copied[b] = Views /\ staging.views["participant"] \notin Leaking
           /\ phase = "binding" => bound[b] = {}
           /\ phase \in Judged => RowsFit(meta[b], staging.views)
           /\ resting /\ meta[b].read = source /\ phase \in Named /\ PackAt[source].bound =>
                pc[b] \in Named,
         phase \in Consulted =>
           (Serialised /\ Uncrashed /\ issued # None => Identity(meta[b]) = issued)
  PROVE  BuildInv'
  <1>1. /\ meta[b] \in Profiles /\ meta' = [meta EXCEPT ![b] = meta[b]]
        /\ copied[b] \in SUBSET Views /\ copied' = [copied EXCEPT ![b] = copied[b]]
        /\ bound[b] \in SUBSET Views /\ bound' = [bound EXCEPT ![b] = bound[b]]
        /\ staging' \in Directories \cup {None}
    BY HeldFacts
  <1>2. pc'[b] = phase
    BY DEF BuildInv, TypeOK, Goto
  <1>3. Serialised => Followed(b)
    BY HeldFacts
  <1>4. "making" \notin Holding /\ "aborting" \notin Holding /\ "clearing" \notin Holding
        /\ Holding \subseteq Working /\ "removing" \in Written /\ "replacing" \in Written
    BY PhaseFacts, PhaseOrder
       DEF Holding, Copied, Named, Attested, Judged, Consulted, Written
  <1>5. Serialised => Followed(b)'
    BY <1>2, <1>3, <1>4 DEF Followed
  <1>6. Grown(b)
    BY HeldFacts
  <1>7. /\ phase \notin Named \cup {"binding", "aborting"} => meta[b].sets = NoViews /\ bound[b] = {}
        /\ phase \notin Attested \cup {"aborting"} => meta[b].evidence = None
    BY <1>4, <1>6 DEF Grown
  <1>8. Serialised /\ resting => OneSnapshot(b)
    BY HeldFacts
  <1>9. Serialised /\ resting /\ meta[b].read = source =>
          /\ phase \in Holding =>
               /\ \A v \in Views : staging'.views[v] \in {None, source[v]}
               /\ meta[b].evidence # None =>
                    /\ meta[b].evidence = source /\ PackAt[source].bound
                    /\ OwnEvidencePasses(Facts(source))
          /\ phase \in Named /\ PackAt[source].bound =>
               \A v \in Views : meta[b].sets[v] = staging'.views[v]
    BY <1>8 DEF OneSnapshot
  <1>10. /\ pc[b] \in Working \ {"removing", "replacing"}
         /\ phase \in Working \ {"removing", "replacing"} /\ phase \notin {"clearing", "making"}
         /\ UNCHANGED <<resting, source, release, issued, publish, outcome>>
    BY <1>4
  <1>11. Serialised /\ phase \in Judged => RowsFit(meta[b], staging'.views)
    OBVIOUS
  <1>12. phase \in Consulted =>
           \/ pc[b] \in Consulted /\ meta[b] = meta[b]
           \/ Serialised /\ Uncrashed /\ issued # None => Identity(meta[b]) = issued
    OBVIOUS
  <1>13. /\ meta[b].read = meta[b].read
         /\ phase \in {"clearing", "making"} => copied[b] = {}
         /\ phase \notin Named \cup {"binding", "aborting"} =>
              meta[b].sets = NoViews /\ bound[b] = {}
         /\ phase \notin Attested \cup {"aborting"} => meta[b].evidence = None
    BY <1>7, <1>10
  <1> QED BY <1>1, <1>5, <1>9, <1>10, <1>11, <1>12, <1>13, WorkStep

LEMMA ScanStep ==
  ASSUME BuildInv, NEW b \in Builders, ScanStaged(b)
  PROVE  BuildInv'
  <1>1. pc[b] = "staging" /\ copied[b] = Views /\ UNCHANGED <<shared, locals, outcome>>
    BY DEF ScanStaged
  <1>2. CASE Goto(b, "aborting")
    BY <1>1, <1>2, HeldFacts, PhaseFacts, PhaseOrder, GoAbort DEF shared
  <1>3. CASE ~StagedLeaks /\ Goto(b, "deriving")
    <2>1. Serialised => staging # None
      BY <1>1, HeldFacts, PhaseOrder DEF Followed
    <2>2. /\ "deriving" \notin Named \cup {"binding"} \cup Attested \cup Written \cup Judged \cup Consulted
          /\ "staging" \notin Named \cup {"binding"} \cup Attested
          /\ {"deriving", "staging"} \subseteq Holding \ {"removing", "replacing"}
      BY PhaseFacts, PhaseOrder
    <2> QED BY <1>1, <1>3, <2>1, <2>2, ReadOn DEF StagedLeaks, shared, locals
  <1> QED BY <1>2, <1>3 DEF ScanStaged, Proceed

LEMMA DeriveStep ==
  ASSUME BuildInv, NEW b \in Builders, DeriveManifest(b)
  PROVE  BuildInv'
  <1> DEFINE phase == IF PackAt[source].bound THEN "binding" ELSE "emitting"
  <1>1. pc[b] = "deriving" /\ Goto(b, phase)
        /\ UNCHANGED <<resting, source, staging, release, issued, publish, meta,
                       copied, bound, outcome>>
    BY DEF DeriveManifest, shared, locals
  <1>2. /\ Serialised => copied[b] = Views /\ staging.views["participant"] \notin Leaking
        /\ bound[b] = {}
    BY <1>1, HeldFacts, PhaseFacts, PhaseOrder DEF Followed, Grown
  <1>3. /\ phase \in Holding \ {"removing", "replacing"} /\ phase \in Named \cup {"binding"}
        /\ phase \notin Attested \cup Written \cup Judged \cup Consulted
        /\ phase \in Named => ~PackAt[source].bound
        /\ "deriving" \in Holding \ {"removing", "replacing"} /\ "deriving" \notin Attested
    BY PhaseFacts, PhaseOrder
  <1> HIDE DEF phase
  <1> QED BY <1>1, <1>2, <1>3, ReadOn

LEMMA BindStep ==
  ASSUME BuildInv, NEW b \in Builders, NEW v \in Views, BindView(b, v)
  PROVE  BuildInv'
  <1> DEFINE bs == bound[b] \cup {v}
             phase == IF bs = Views THEN "emitting" ELSE "binding"
             m == [meta[b] EXCEPT !.sets[v] = staging.views[v]]
  <1>1. pc[b] = "binding" /\ UNCHANGED <<resting, source, staging, release, issued,
                                         publish, copied, outcome>>
    BY DEF BindView, shared
  <1>2. CASE Goto(b, "aborting") /\ UNCHANGED <<meta, bound>>
    BY <1>1, <1>2, HeldFacts, PhaseFacts, PhaseOrder, GoAbort DEF locals
  <1>3. CASE /\ Staged(v) /\ Goto(b, phase)
             /\ meta' = [meta EXCEPT ![b].sets[v] = ViewBytes(v)]
             /\ bound' = [bound EXCEPT ![b] = @ \cup {v}]
    <2>1. staging \in Directories /\ staging.views[v] \in Edits \cup {None}
      BY <1>3, HeldFacts, DirectoryFacts DEF Staged, SetsOfViews
    <2>2. /\ m \in Profiles /\ m.read = meta[b].read /\ m.evidence = meta[b].evidence
          /\ m.sets = [meta[b].sets EXCEPT ![v] = staging.views[v]]
      <3>1. meta[b] \in Profiles /\ meta[b].sets \in SetsOfViews
        BY HeldFacts, ProfileFacts
      <3>2. [meta[b].sets EXCEPT ![v] = staging.views[v]] \in SetsOfViews
        BY <2>1, <3>1 DEF SetsOfViews
      <3>3. m = [meta[b] EXCEPT !.sets = [meta[b].sets EXCEPT ![v] = staging.views[v]]]
        BY <3>1 DEF Profiles
      <3> QED BY <3>1, <3>2, <3>3 DEF Profiles
    <2>3. /\ m.sets[v] = staging.views[v]
          /\ \A w \in Views \ {v} : m.sets[w] = meta[b].sets[w]
      BY <2>2, HeldFacts, ProfileFacts DEF SetsOfViews
    <2>4. meta' = [meta EXCEPT ![b] = m]
      BY <1>3 DEF BuildInv, TypeOK, ViewBytes
    <2> HIDE DEF m
    <2>5. /\ bound' = [bound EXCEPT ![b] = bs] /\ bs \in SUBSET Views
          /\ copied[b] \in SUBSET Views /\ copied' = [copied EXCEPT ![b] = copied[b]]
      BY <1>1, <1>3, HeldFacts
    <2>6. /\ phase \in Holding \cap Copied /\ phase \in Working \ {"removing", "replacing"}
          /\ phase \in Named \cup {"binding"} /\ phase \notin {"clearing", "making"}
          /\ phase \notin Attested \cup Written \cup Judged \cup Consulted
          /\ phase \in Named => bs = Views
          /\ "binding" \in Copied /\ "binding" \in Holding /\ "binding" \notin Attested
          /\ "binding" \in Working \ {"removing", "replacing"}
      BY PhaseFacts, PhaseOrder
    <2>7. meta[b].evidence = None
      BY <1>1, <2>6, HeldFacts DEF Grown
    <2>8. pc'[b] = phase /\ meta'[b] = m /\ bound'[b] = bs /\ copied'[b] = copied[b]
      BY <1>1, <1>3, <2>4, <2>5 DEF BuildInv, TypeOK, Goto
    <2> HIDE DEF phase
    <2>9. Serialised => \A w \in bs : m.sets[w] = staging.views[w]
      BY <1>1, <2>3, <2>5, HeldFacts DEF Followed
    <2>10. Serialised => Followed(b)'
      <3> SUFFICES ASSUME Serialised PROVE Followed(b)'
        OBVIOUS
      <3>1. /\ staging # None /\ staging.evidence = meta[b].evidence
            /\ \A w \in Views : meta[b].sets[w] \in {None, staging.views[w]}
            /\ \A w \in copied[b] : staging.views[w] # None
            /\ copied[b] = Views /\ staging.views["participant"] \notin Leaking
        BY <1>1, <2>6, HeldFacts DEF Followed
      <3>2. \A w \in Views : m.sets[w] \in {None, staging.views[w]}
        BY <2>3, <3>1
      <3> QED BY <1>1, <2>2, <2>6, <2>8, <2>9, <3>1, <3>2, PhaseFacts DEF Followed
    <2>11. Serialised /\ resting => \A w \in Views : staging.views[w] \in {None, source[w]}
      BY <1>1, <2>6, HeldFacts DEF OneSnapshot
    <2> HIDE DEF bs
    <2> QED BY <1>1, <1>3, <2>1, <2>2, <2>4, <2>5, <2>6, <2>7, <2>9, <2>10, <2>11,
               WorkStep
  <1> QED BY <1>2, <1>3 DEF BindView

(* The evidence is of the pack as it is now.                                *)
LEMMA EmitStep ==
  ASSUME BuildInv, NEW b \in Builders, EmitEvidence(b)
  PROVE  BuildInv'
  <1>1. /\ pc[b] = "emitting"
        /\ UNCHANGED <<resting, source, release, issued, publish, copied, bound, outcome>>
    BY DEF EmitEvidence
  <1>2. /\ "emitting" \in Holding \ {"removing", "replacing"} /\ "emitting" \in Named
        /\ "emitting" \in Copied /\ "emitting" \notin Attested
        /\ "publishing" \in Holding \ {"removing", "replacing"} /\ "publishing" \in Attested
        /\ "publishing" \in Named /\ "publishing" \in Copied
        /\ "publishing" \in Working \ {"removing", "replacing"}
        /\ "emitting" \in Working \ {"removing", "replacing"}
        /\ "publishing" \notin Judged \cup Consulted \cup Written
        /\ "publishing" \notin {"clearing", "making", "binding"}
    BY PhaseFacts, PhaseOrder
  <1>3. CASE UNCHANGED <<staging, meta>> /\ Goto(b, "aborting")
    BY <1>1, <1>2, <1>3, HeldFacts, PhaseFacts, GoAbort DEF locals
  <1>4. Serialised => copied[b] = Views /\ staging.views["participant"] \notin Leaking
    BY <1>1, <1>2, HeldFacts DEF Followed
  <1>5. CASE UNCHANGED <<staging, meta>> /\ Goto(b, "publishing")
    BY <1>1, <1>2, <1>4, <1>5, ReadOn
  <1>6. CASE /\ CanAttest /\ Goto(b, "publishing")
             /\ staging' = [staging EXCEPT !.evidence = source]
             /\ meta' = [meta EXCEPT ![b].evidence = source]
    <2> DEFINE m == [meta[b] EXCEPT !.evidence = source]
    <2>1. /\ meta[b] \in Profiles /\ source \in Snapshots /\ staging \in Directories
          /\ source # None
      BY <1>6, HeldFacts, DocumentAssumption DEF CanAttest
    <2>2. /\ m \in Profiles /\ m.read = meta[b].read /\ m.sets = meta[b].sets
          /\ m.evidence = source
      BY <2>1 DEF Profiles
    <2>3. meta' = [meta EXCEPT ![b] = m]
      BY <1>6 DEF BuildInv, TypeOK
    <2> HIDE DEF m
    <2>4. /\ staging' \in Directories /\ staging'.views = staging.views
          /\ staging'.evidence = source /\ staging' # None
      <3>1. /\ staging' \in Directories /\ staging'.views = staging.views
            /\ staging'.evidence = source
        BY <1>6, <2>1 DEF Directories
      <3> QED BY <3>1, DirectoryFacts
    <2>5. pc'[b] = "publishing" /\ meta'[b] = m /\ copied' = copied /\ bound' = bound
      BY <1>1, <1>6, <2>3 DEF BuildInv, TypeOK, Goto
    <2>6. Serialised => Followed(b)'
      <3> SUFFICES ASSUME Serialised PROVE Followed(b)'
        OBVIOUS
      <3>1. /\ \A v \in Views : meta[b].sets[v] \in {None, staging.views[v]}
            /\ \A v \in copied[b] : staging.views[v] # None
        BY <1>1, <1>2, HeldFacts DEF Followed
      <3> QED BY <1>2, <1>4, <2>2, <2>4, <2>5, <3>1, PhaseFacts DEF Followed
    <2>7. Serialised /\ resting /\ meta[b].read = source =>
            /\ "publishing" \in Holding =>
                 /\ \A v \in Views : staging'.views[v] \in {None, source[v]}
                 /\ m.evidence # None =>
                      /\ m.evidence = source /\ PackAt[source].bound
                      /\ OwnEvidencePasses(Facts(source))
            /\ "publishing" \in Named /\ PackAt[source].bound =>
                 \A v \in Views : m.sets[v] = staging'.views[v]
      BY <1>1, <1>2, <1>6, <2>2, <2>4, HeldFacts DEF OneSnapshot, CanAttest
    <2>8. /\ copied[b] \in SUBSET Views /\ copied' = [copied EXCEPT ![b] = copied[b]]
          /\ bound[b] \in SUBSET Views /\ bound' = [bound EXCEPT ![b] = bound[b]]
          /\ staging' \in Directories \cup {None}
          /\ pc[b] \in Working \ {"removing", "replacing"}
          /\ UNCHANGED <<resting, source, release, issued, publish, outcome>>
      BY <1>1, <1>2, <2>4, <2>5, HeldFacts
    <2> QED BY <1>2, <1>6, <2>2, <2>3, <2>6, <2>7, <2>8, WorkStep
  <1> QED BY <1>3, <1>5, <1>6 DEF EmitEvidence, Proceed

(* What holds of the members a set names holds of those the view has.       *)
LEMMA RowsStayBacked ==
  ASSUME NEW views \in SetsOfViews, NEW sets \in SetsOfViews,
         \A v \in Views : sets[v] \in {None, views[v]},
         NEW row, RowIsWritten(row), NEW requirements, AreWritten(requirements),
         RowViolations(row, requirements, Members(sets)) = {}
  PROVE  /\ MembershipViolations(row, Members(views)) = {}
         /\ Backed(row, requirements, Members(views))
  <1>1. row.view \in Tiers
    BY DEF RowIsWritten
  <1>2. Members(sets)[row.view] \subseteq Members(views)[row.view]
    BY <1>1 DEF Members
  <1>3. Backed(row, requirements, Members(sets))
    BY RowsAreJudged
  <1> HIDE DEF Members
  <1>4. Backed(row, requirements, Members(views))
    BY <1>2, <1>3 DEF Backed
  <1> QED BY <1>4 DEF Backed, MembershipViolations

LEMMA PublicationStep ==
  ASSUME BuildInv, NEW b \in Builders, CheckPublication(b)
  PROVE  BuildInv'
  <1>1. pc[b] = "publishing" /\ UNCHANGED <<shared, locals, outcome>>
    BY DEF CheckPublication
  <1>2. /\ "publishing" \in Holding \ {"removing", "replacing"} /\ "publishing" \in Attested
        /\ "publishing" \in Named /\ "publishing" \in Copied
        /\ "checking" \in Holding \ {"removing", "replacing"} /\ "checking" \in Attested
        /\ "checking" \in Named /\ "checking" \notin Consulted \cup Written
        /\ "publishing" \in Working \ {"removing", "replacing"} /\ "checking" # "binding"
    BY PhaseFacts, PhaseOrder
  <1>3. CASE Goto(b, "aborting")
    BY <1>1, <1>2, <1>3, HeldFacts, GoAbort DEF shared
  <1>4. CASE /\ PackAt[source].static /\ Goto(b, "checking")
             /\ PublicationViolations(Supplied(meta[b]), PackAt[source].requirements,
                                      Members(meta[b].sets)) = {}
    <2>1. Serialised => /\ copied[b] = Views /\ staging.views["participant"] \notin Leaking
                        /\ staging # None /\ \A v \in Views : meta[b].sets[v] \in {None, staging.views[v]}
      BY <1>1, <1>2, HeldFacts DEF Followed
    <2>2. \A row \in PackAt[meta[b].read].rows :
            RowViolations(row, PackAt[source].requirements, Members(meta[b].sets)) = {}
      BY <1>4 DEF PublicationViolations, Supplied
    <2>3. Serialised => RowsFit(meta[b], staging.views)
      <3> SUFFICES ASSUME Serialised PROVE RowsFit(meta[b], staging.views)
        OBVIOUS
      <3>1. meta[b].sets \in SetsOfViews /\ staging.views \in SetsOfViews
            /\ meta[b].read \in Snapshots /\ source \in Snapshots
        BY <2>1, HeldFacts, ProfileFacts, DirectoryFacts
      <3>2. resting => meta[b].read = source
        BY <1>1, <1>2, HeldFacts DEF OneSnapshot
      <3>3. ASSUME NEW row \in PackAt[meta[b].read].rows
            PROVE  /\ MembershipViolations(row, Members(staging.views)) = {}
                   /\ Backed(row, PackAt[source].requirements, Members(staging.views))
        BY <2>1, <2>2, <3>1, <3>3, AuthorAssumption, RowsStayBacked
      <3> QED BY <1>4, <3>2, <3>3 DEF RowsFit
    <2> QED BY <1>1, <1>2, <1>4, <2>1, <2>3, ReadOn DEF shared, locals
  <1> QED BY <1>3, <1>4 DEF CheckPublication, Proceed

LEMMA ImmutableStep ==
  ASSUME BuildInv, NEW b \in Builders, CheckImmutable(b)
  PROVE  BuildInv'
  <1>1. pc[b] = "checking" /\ UNCHANGED <<shared, locals, outcome>>
    BY DEF CheckImmutable
  <1>2. /\ "checking" \in Holding \ {"removing", "replacing"} /\ "checking" \in Judged
        /\ "checking" \in Attested /\ "checking" \in Named /\ "checking" \in Copied
        /\ "writing" \in Holding \ {"removing", "replacing"} /\ "writing" \in Attested
        /\ "writing" \in Named /\ "writing" \notin Written /\ "writing" # "binding"
        /\ "checking" \in Working \ {"removing", "replacing"}
        /\ {"removing", "replacing"} \subseteq Working
    BY PhaseFacts, PhaseOrder DEF Working
  <1>3. CASE Goto(b, "aborting")
    BY <1>1, <1>2, <1>3, HeldFacts, GoAbort DEF shared
  <1>4. CASE SameIdentity(b) /\ Goto(b, "writing")
    <2>1. Serialised => /\ copied[b] = Views /\ staging.views["participant"] \notin Leaking
                        /\ RowsFit(meta[b], staging.views)
      BY <1>1, <1>2, HeldFacts DEF Followed
    <2>2. Serialised /\ Uncrashed /\ issued # None => Identity(meta[b]) = issued
      <3> SUFFICES ASSUME Serialised, Uncrashed, issued # None PROVE Identity(meta[b]) = issued
        OBVIOUS
      <3>1. \A c \in Builders : pc[c] \notin {"removing", "replacing"}
        BY <1>1, <1>2 DEF BuildInv, OneBuild
      <3>2. Released /\ Identity(release.profile) = issued
        BY <3>1 DEF BuildInv, IssuedOnce
      <3> QED BY <1>4, <3>2 DEF SameIdentity, Released
    <2> QED BY <1>1, <1>2, <1>4, <2>1, <2>2, ReadOn DEF shared, locals
  <1> QED BY <1>3, <1>4 DEF CheckImmutable, Proceed

LEMMA ProfileStep ==
  ASSUME BuildInv, NEW b \in Builders, WriteProfile(b)
  PROVE  BuildInv'
  <1>1. /\ pc[b] = "writing"
        /\ UNCHANGED <<resting, source, release, issued, publish, meta, copied, bound, outcome>>
    BY DEF WriteProfile, locals
  <1>2. /\ "writing" \in Holding /\ "writing" \in Judged /\ "writing" \in Attested
        /\ "writing" \in Named /\ "writing" \in Copied /\ "writing" \in Consulted
        /\ "promoting" \in Written /\ "promoting" \in Attested /\ "promoting" \in Named
        /\ "promoting" \notin {"binding", "clearing", "making", "removing", "replacing"}
        /\ {"writing", "promoting"} \subseteq Working \ {"removing", "replacing"}
    BY PhaseFacts, PhaseOrder
  <1>3. CASE staging' = None /\ Goto(b, "aborting")
    BY <1>1, <1>2, <1>3, GoAbort DEF locals
  <1>4. CASE /\ staging # None /\ Goto(b, "promoting")
             /\ staging' = [staging EXCEPT !.profile = meta[b]]
    <2>1. /\ staging' \in Directories \cup {None} /\ staging' # None
          /\ staging'.profile = meta[b]
          /\ staging'.views = staging.views /\ staging'.evidence = staging.evidence
      <3>1. staging \in Directories /\ meta[b] \in Profiles
        BY <1>4, HeldFacts
      <3>2. /\ staging' \in Directories /\ staging'.profile = meta[b]
            /\ staging'.views = staging.views /\ staging'.evidence = staging.evidence
        BY <1>4, <3>1 DEF Directories
      <3> QED BY <3>2, DirectoryFacts
    <2>2. pc'[b] = "promoting" /\ meta' = meta /\ copied' = copied /\ bound' = bound
      BY <1>1, <1>4 DEF BuildInv, TypeOK, Goto
    <2>3. Serialised => Followed(b)'
      <3> SUFFICES ASSUME Serialised PROVE Followed(b)'
        OBVIOUS
      <3>1. /\ staging.evidence = meta[b].evidence
            /\ \A v \in Views : meta[b].sets[v] \in {None, staging.views[v]}
            /\ \A v \in copied[b] : staging.views[v] # None
            /\ copied[b] = Views /\ staging.views["participant"] \notin Leaking
        BY <1>1, <1>2, HeldFacts DEF Followed
      <3> QED BY <1>2, <2>1, <2>2, <3>1 DEF Followed
    <2>4. Serialised /\ "promoting" \in Judged => RowsFit(meta[b], staging'.views)
      BY <1>1, <1>2, <2>1, HeldFacts
    <2>5. Serialised /\ resting /\ meta[b].read = source =>
            /\ "promoting" \in Holding =>
                 /\ \A v \in Views : staging'.views[v] \in {None, source[v]}
                 /\ meta[b].evidence # None =>
                      /\ meta[b].evidence = source /\ PackAt[source].bound
                      /\ OwnEvidencePasses(Facts(source))
            /\ "promoting" \in Named /\ PackAt[source].bound =>
                 \A v \in Views : meta[b].sets[v] = staging'.views[v]
      BY <1>1, <1>2, <2>1, HeldFacts DEF OneSnapshot
    <2>6. /\ meta[b] \in Profiles /\ meta' = [meta EXCEPT ![b] = meta[b]]
          /\ copied[b] \in SUBSET Views /\ copied' = [copied EXCEPT ![b] = copied[b]]
          /\ bound[b] \in SUBSET Views /\ bound' = [bound EXCEPT ![b] = bound[b]]
          /\ pc[b] \in Working \ {"removing", "replacing"} /\ pc[b] \in Consulted
          /\ "promoting" \in Working \ {"removing", "replacing"}
          /\ UNCHANGED <<resting, source, release, issued, publish, outcome>>
      BY <1>1, <1>2, <2>2, HeldFacts
    <2> QED BY <1>2, <1>4, <2>1, <2>3, <2>4, <2>5, <2>6, WorkStep
  <1> QED BY <1>1, <1>3, <1>4 DEF WriteProfile, Proceed

(* The steps that take the previous release away.                           *)
LEMMA TakeAwayStep ==
  ASSUME BuildInv, NEW b \in Builders, pc[b] \in {"promoting", "removing"},
         NEW phase \in {"removing", "replacing"}, Goto(b, phase),
         UNCHANGED <<resting, source, staging, issued, publish, meta, copied, bound, outcome>>,
         release' \in Directories \cup {None},
         phase = "removing" => release' # None, phase = "replacing" => release' = None,
         release' # None /\ release'.profile # None =>
           /\ release # None /\ release'.profile = release.profile
           /\ release'.evidence \in {None, release.evidence}
  PROVE  BuildInv'
  <1>1. TypeOK /\ outcome[b] = "none" /\ pc[b] \in Consulted /\ pc[b] \in Working
    BY PhaseFacts, PhaseOrder DEF BuildInv, BuildFollows, Grown
  <1>2. /\ phase \in Written /\ pc[b] \in Written /\ phase \notin {"making", "binding"}
        /\ phase \in Holding /\ phase \in Copied /\ phase \in Named /\ phase \in Attested
        /\ pc[b] \in Holding /\ pc[b] \in Copied /\ pc[b] \in Named /\ pc[b] \in Judged
        /\ phase \in Working /\ phase \in Phases /\ phase \notin {"idle", "done", "clearing"}
    BY PhaseFacts, PhaseOrder
  <1>3. TypeOK'
    BY <1>1, <1>2 DEF TypeOK, Goto
  <1>4. pc'[b] = phase /\ \A c \in Builders \ {b} : pc'[c] = pc[c]
    BY <1>1 DEF TypeOK, Goto
  <1>5. Grown(b)'
    BY <1>1, <1>2, <1>4, HeldFacts DEF Grown
  <1>6. Serialised => Followed(b)'
    <2> SUFFICES ASSUME Serialised PROVE Followed(b)'
      OBVIOUS
    <2>1. Followed(b)
      BY HeldFacts
    <2> QED BY <1>2, <1>4, <2>1 DEF Followed
  <1>7. Serialised => RowsFit(meta[b], staging.views)'
    BY <1>2, HeldFacts DEF RowsFit
  <1>8. Serialised /\ resting => OneSnapshot(b)'
    <2> SUFFICES ASSUME Serialised, resting PROVE OneSnapshot(b)'
      OBVIOUS
    <2>1. OneSnapshot(b)
      BY HeldFacts
    <2> QED BY <1>1, <1>2, <1>4, <2>1 DEF OneSnapshot
  <1>9. ReleaseIsBound'
    BY DEF BuildInv, ReleaseIsBound, Released
  <1>10. IssuedOnce'
    <2> SUFFICES ASSUME Serialised, Uncrashed' PROVE IssuedOnce'
      BY DEF IssuedOnce
    <2>1. Uncrashed
      BY DEF Uncrashed
    <2>2. release' # None => pc'[b] = "removing"
      BY <1>4
    <2>3. Released' => Identity(release.profile)' = issued'
      BY <2>1 DEF BuildInv, IssuedOnce, Released, Identity, SetOf
    <2>4. \A c \in Builders : pc'[c] \in Consulted /\ issued' # None => Identity(meta'[c]) = issued'
      BY <1>1, <1>4, <2>1 DEF BuildInv, IssuedOnce
    <2>5. pc'[b] \in {"removing", "replacing"}
      BY <1>4
    <2> QED BY <2>2, <2>3, <2>4, <2>5 DEF IssuedOnce, Identity, SetOf
  <1> QED BY <1>1, <1>3, <1>4, <1>5, <1>6, <1>7, <1>8, <1>9, <1>10, OneBuilderStep

LEMMA PromoteStep ==
  ASSUME BuildInv, NEW b \in Builders, Promote(b)
  PROVE  BuildInv'
  <1> DEFINE phase == IF release = None THEN "replacing" ELSE "removing"
  <1>1. /\ pc[b] = "promoting" /\ Goto(b, phase) /\ release' = release
        /\ UNCHANGED <<resting, source, staging, issued, publish, meta, copied, bound, outcome>>
    BY DEF Promote, shared, locals
  <1>2. phase \in {"removing", "replacing"} /\ release' \in Directories \cup {None}
    BY <1>1 DEF BuildInv, TypeOK
  <1>3. /\ phase = "removing" => release' # None
        /\ phase = "replacing" => release' = None
    BY <1>1
  <1>4. release' # None /\ release'.profile # None =>
           /\ release # None /\ release'.profile = release.profile
           /\ release'.evidence \in {None, release.evidence}
    BY <1>1
  <1> HIDE DEF phase
  <1> QED BY <1>1, <1>2, <1>3, <1>4, TakeAwayStep

LEMMA RemoveEntryStep ==
  ASSUME BuildInv, NEW b \in Builders, RemoveEntry(b)
  PROVE  BuildInv'
  <1>1. /\ pc[b] = "removing" /\ release # None
        /\ UNCHANGED <<resting, source, staging, issued, publish, meta, copied, bound, outcome>>
        /\ Goto(b, "removing")
    BY DEF RemoveEntry, locals, Goto, BuildInv, TypeOK
  <1>2. release \in Directories
    BY <1>1 DEF BuildInv, TypeOK
  <1>3. /\ release' \in Directories
        /\ release'.profile # None => release'.profile = release.profile
        /\ release'.evidence \in {None, release.evidence}
    <2>1. CASE \E v \in Views : release' = [release EXCEPT !.views[v] = None]
      BY <1>2, <2>1, ViewChanged
    <2>2. CASE release' = [release EXCEPT !.evidence = None]
      BY <1>2, <2>2 DEF Directories
    <2>3. CASE release' = [release EXCEPT !.profile = None]
      BY <1>2, <2>3 DEF Directories
    <2> QED BY <2>1, <2>2, <2>3 DEF RemoveEntry
  <1>4. release' # None
    BY <1>3, DirectoryFacts
  <1> QED BY <1>1, <1>3, <1>4, TakeAwayStep

LEMMA RemoveRootStep ==
  ASSUME BuildInv, NEW b \in Builders, RemoveRoot(b)
  PROVE  BuildInv'
  <1>1. pc[b] = "removing" /\ release' = None
        /\ UNCHANGED <<resting, source, staging, issued, publish, meta, copied, bound, outcome>>
    BY DEF RemoveRoot, locals
  <1>2. CASE release # None /\ Goto(b, "replacing")
    BY <1>1, <1>2, TakeAwayStep
  <1>3. CASE release = None /\ Goto(b, "aborting")
    <2>1. ~Serialised
      BY <1>1, <1>3, HeldFacts DEF Followed
    <2>2. release' = release /\ pc[b] \in Working /\ staging' \in Directories \cup {None}
      BY <1>1, <1>3, HeldFacts, PhaseFacts
    <2> QED BY <1>1, <1>3, <2>1, <2>2, GoAbort DEF locals
  <1> QED BY <1>2, <1>3 DEF RemoveRoot, Proceed

(* What is renamed is what was built.                                       *)
LEMMA PromotedFacts ==
  ASSUME BuildInv, Serialised, NEW b \in Builders, pc[b] = "replacing"
  PROVE  /\ staging \in Directories /\ staging.profile = meta[b] /\ meta[b] \in Profiles
         /\ staging.evidence = meta[b].evidence
         /\ \A v \in Views : staging.views[v] # None /\ meta[b].sets[v] \in {None, staging.views[v]}
         /\ staging.views["participant"] \notin Leaking
         /\ RowsFit(meta[b], staging.views)
         /\ release = None
         /\ resting /\ meta[b].evidence # None =>
              /\ meta[b].evidence = meta[b].read /\ meta[b].sets = meta[b].read
              /\ PackAt[meta[b].read].bound /\ PackAt[meta[b].read].static
              /\ OwnEvidencePasses(Facts(meta[b].read))
  <1>1. /\ "replacing" \in Holding /\ "replacing" \in Copied /\ "replacing" \in Written
        /\ "replacing" \in Judged /\ "replacing" \in Named /\ "replacing" \in Working
    BY PhaseFacts
  <1>2. Followed(b) /\ RowsFit(meta[b], staging.views) /\ (resting => OneSnapshot(b))
    BY <1>1, HeldFacts
  <1>3. /\ staging # None /\ staging.profile = meta[b] /\ staging.evidence = meta[b].evidence
        /\ \A v \in Views : meta[b].sets[v] \in {None, staging.views[v]}
        /\ \A v \in Views : staging.views[v] # None
        /\ staging.views["participant"] \notin Leaking /\ release = None
    BY <1>1, <1>2 DEF Followed
  <1>4. staging \in Directories /\ meta[b] \in Profiles
    BY <1>3, HeldFacts
  <1>5. ASSUME resting, meta[b].evidence # None
        PROVE  /\ meta[b].evidence = meta[b].read /\ meta[b].sets = meta[b].read
               /\ PackAt[meta[b].read].bound /\ PackAt[meta[b].read].static
               /\ OwnEvidencePasses(Facts(meta[b].read))
    <2>1. /\ meta[b].read = source /\ meta[b].evidence = source /\ PackAt[source].bound
          /\ OwnEvidencePasses(Facts(source))
          /\ \A v \in Views : staging.views[v] \in {None, source[v]}
          /\ \A v \in Views : meta[b].sets[v] = staging.views[v]
      BY <1>1, <1>2, <1>5 DEF OneSnapshot
    <2>2. \A v \in Views : meta[b].sets[v] = source[v]
      BY <1>3, <2>1
    <2>3. meta[b].sets \in SetsOfViews /\ source \in SetsOfViews
      BY <1>4, HeldFacts, ProfileFacts, EditFacts
    <2>4. meta[b].sets = source
      BY <2>2, <2>3 DEF SetsOfViews
    <2>5. PackAt[meta[b].read].static
      BY <1>2, <1>5 DEF RowsFit
    <2> QED BY <2>1, <2>4, <2>5
  <1> QED BY <1>2, <1>3, <1>4, <1>5

LEMMA ReplaceStep ==
  ASSUME BuildInv, NEW b \in Builders, Replace(b)
  PROVE  BuildInv'
  <1>1. pc[b] = "replacing" /\ UNCHANGED <<resting, source>>
    BY DEF Replace
  <1>2. pc[b] \in Working /\ TypeOK /\ outcome[b] = "none"
    BY <1>1, PhaseFacts DEF BuildInv, BuildFollows, Grown
  <1>3. CASE ~CanReplace /\ Goto(b, "aborting")
             /\ UNCHANGED <<release, staging, issued, locals, outcome>>
    <2>1. ~Serialised
      BY <1>1, <1>3, PromotedFacts, DirectoryFacts DEF CanReplace
    <2>2. staging' \in Directories \cup {None}
      BY <1>3, HeldFacts
    <2> QED BY <1>1, <1>2, <1>3, <2>1, <2>2, GoAbort
  <1>4. CASE /\ CanReplace /\ release' = staging /\ staging' = None
             /\ issued' = IF issued # None \/ staging.profile = None THEN issued
                          ELSE Identity(staging.profile)
             /\ Finish(b, "ok")
    <2>1. TypeOK'
      BY <1>1, <1>2, <1>4, NothingYet DEF TypeOK, Finish, Goto, Phases
    <2>2. /\ pc'[b] = "done" /\ outcome'[b] = "ok" /\ meta'[b] = NoProfile
          /\ copied'[b] = {} /\ bound'[b] = {}
          /\ \A c \in Builders \ {b} :
               /\ pc'[c] = pc[c] /\ outcome'[c] = outcome[c] /\ meta'[c] = meta[c]
               /\ copied'[c] = copied[c] /\ bound'[c] = bound[c]
      BY <1>2, <1>4 DEF TypeOK, Finish, Goto
    <2>3. pc'[b] \notin Working \cup Consulted \cup {"removing", "replacing"}
      BY <2>2, PhaseFacts
    <2>4. Grown(b)'
      BY <2>2, NothingYet, PhaseFacts DEF Grown
    <2>5. (pc[b] \notin Working)' => Followed(b)' /\ (pc[b] \notin Judged)' /\ OneSnapshot(b)'
      BY PhaseFacts DEF Followed, OneSnapshot
    <2>6. ReleaseIsBound'
      <3> SUFFICES ASSUME Serialised, resting, Released', release'.evidence # None
                   PROVE  ReleaseIsBound'
        BY <1>1 DEF ReleaseIsBound
      <3>1. /\ release'.evidence = meta[b].evidence /\ release'.profile = meta[b]
            /\ meta[b].evidence # None
        BY <1>1, <1>4, PromotedFacts
      <3>2. /\ meta[b].evidence = meta[b].read /\ meta[b].sets = meta[b].read
            /\ PackAt[meta[b].read].bound /\ PackAt[meta[b].read].static
            /\ OwnEvidencePasses(Facts(meta[b].read))
        BY <1>1, <3>1, PromotedFacts
      <3>3. \A s : OwnEvidencePasses(Facts(s)) => OwnEvidencePasses(Facts(s))'
        OBVIOUS
      <3> QED BY <3>1, <3>2 DEF ReleaseIsBound
    <2>7. IssuedOnce'
      <3> SUFFICES ASSUME Serialised, Uncrashed' PROVE IssuedOnce'
        BY DEF IssuedOnce
      <3>1. Uncrashed
        BY <1>2, <2>2 DEF Uncrashed
      <3>2. /\ release' # None /\ release'.profile = meta[b] /\ meta[b] # None
            /\ staging.profile = meta[b]
        BY <1>1, <1>4, PromotedFacts, DirectoryFacts, ProfileFacts
      <3>3. issued # None => Identity(meta[b]) = issued
        BY <1>1, <3>1, PhaseFacts DEF BuildInv, IssuedOnce
      <3>4. Identity(meta[b]) = issued'
        BY <1>4, <3>2, <3>3
      <3>5. Released' /\ Identity(release.profile)' = issued'
        BY <3>2, <3>4 DEF Released, Identity, SetOf
      <3>6. \A c \in Builders : pc'[c] \notin Consulted
        BY <1>1, <1>2, <2>2, <2>3, PhaseFacts DEF BuildInv, OneBuild
      <3> QED BY <3>5, <3>6 DEF IssuedOnce
    <2> QED BY <1>1, <1>2, <2>1, <2>2, <2>3, <2>4, <2>5, <2>6, <2>7, OneBuilderStep
  <1> QED BY <1>3, <1>4 DEF Replace

LEMMA AbortStep ==
  ASSUME BuildInv, NEW b \in Builders, Abort(b)
  PROVE  BuildInv'
  <1>1. pc[b] = "aborting" /\ pc[b] \in Working /\ staging' \in Directories \cup {None}
        /\ Finish(b, "failed") /\ UNCHANGED <<resting, source, release, issued>>
    BY PhaseFacts DEF Abort
  <1> QED BY <1>1, FinishStep

LEMMA CrashStep ==
  ASSUME BuildInv, NEW b \in Builders, Crash(b)
  PROVE  BuildInv'
  <1>1. pc[b] \in Working /\ staging' \in Directories \cup {None}
        /\ Finish(b, "crashed") /\ UNCHANGED <<resting, source, release, issued>>
    BY HeldFacts DEF Crash, shared
  <1> QED BY <1>1, FinishStep

LEMMA EditStep ==
  ASSUME BuildInv, NEW v \in Views, Edit(v)
  PROVE  BuildInv'
  <1>1. UNCHANGED <<resting, staging, release, issued, pc, publish, meta, copied,
                    bound, outcome>>
        /\ (resting => Quiet)
    BY DEF Edit, locals
  <1>2. source' \in Snapshots
    <2>1. source \in Snapshots
      BY DEF BuildInv, TypeOK
    <2>2. source[v] + 1 \in EditsOf[v] /\ source[v] + 1 \in Edits
          /\ source' = [source EXCEPT ![v] = source[v] + 1]
      BY <2>1 DEF Edit, Edits, Snapshots
    <2> QED BY <2>1, <2>2 DEF Snapshots
  <1>3. TypeOK'
    BY <1>1, <1>2 DEF BuildInv, TypeOK
  <1>4. OneBuild'
    BY <1>1 DEF BuildInv, OneBuild
  <1>5. BuildFollows'
    <2> SUFFICES ASSUME NEW b \in Builders
                 PROVE  /\ Grown(b)'
                        /\ Serialised => /\ Followed(b)'
                                         /\ (pc[b] \in Judged)' => RowsFit(meta[b], staging.views)'
                                         /\ resting' => OneSnapshot(b)'
      BY DEF BuildFollows
    <2>1. Grown(b)'
      BY <1>1, HeldFacts DEF Grown
    <2>2. Serialised => Followed(b)'
      BY <1>1, HeldFacts DEF Followed
    <2>3. Serialised => ((pc[b] \in Judged)' => RowsFit(meta[b], staging.views)')
      BY <1>1, HeldFacts DEF RowsFit
    <2>4. resting' => OneSnapshot(b)'
      BY <1>1, PhaseFacts DEF OneSnapshot, Quiet
    <2> QED BY <2>1, <2>2, <2>3, <2>4
  <1>6. ReleaseIsBound'
    BY <1>1 DEF BuildInv, ReleaseIsBound, Released
  <1>7. IssuedOnce'
    BY <1>1 DEF BuildInv, IssuedOnce, Released, Uncrashed, Identity, SetOf
  <1> QED BY <1>3, <1>4, <1>5, <1>6, <1>7 DEF BuildInv

LEMMA StepBuild == BuildInv /\ [Next]_vars => BuildInv'
  <1> SUFFICES ASSUME BuildInv, [Next]_vars PROVE BuildInv'
    OBVIOUS
  <1>1. ASSUME NEW b \in Builders, BuilderStep(b) PROVE BuildInv'
    <2>1. ASSUME NEW published \in BOOLEAN, Begin(b, published) PROVE BuildInv'
      BY <2>1, BeginStep
    <2>2. ASSUME NEW v \in Views, StageView(b, v) \/ BindView(b, v) PROVE BuildInv'
      BY <2>2, StageStep, BindStep
    <2>3. CASE Clear(b) \/ Make(b) \/ ScanStaged(b) \/ DeriveManifest(b)
      BY <2>3, ClearStep, MakeStep, ScanStep, DeriveStep
    <2>4. CASE EmitEvidence(b) \/ CheckPublication(b) \/ CheckImmutable(b) \/ WriteProfile(b)
      BY <2>4, EmitStep, PublicationStep, ImmutableStep, ProfileStep
    <2>5. CASE Promote(b) \/ RemoveEntry(b) \/ RemoveRoot(b) \/ Replace(b)
      BY <2>5, PromoteStep, RemoveEntryStep, RemoveRootStep, ReplaceStep
    <2>6. CASE Abort(b) \/ Crash(b)
      BY <2>6, AbortStep, CrashStep
    <2> QED BY <1>1, <2>1, <2>2, <2>3, <2>4, <2>5, <2>6 DEF BuilderStep
  <1>2. ASSUME NEW v \in Views, Edit(v) PROVE BuildInv'
    BY <1>2, EditStep
  <1>3. CASE UNCHANGED vars
    BY <1>3 DEF vars, shared, BuildInv, TypeOK, OneBuild, BuildFollows, Grown, Followed,
                RowsFit, OneSnapshot, ReleaseIsBound, IssuedOnce, Released, Uncrashed,
                Identity, SetOf
  <1> QED BY <1>1, <1>2, <1>3 DEF Next

(* Whatever the number of builders, the edits and the crashes: what a build *)
(* knows of its profile is true of the staging directory while builds take  *)
(* turns, and of the release it leaves (release.py 853-952).                *)
THEOREM BuildInvariant == Spec => []BuildInv
  BY InitBuild, StepBuild, PTL DEF Spec

--------------------------------------------------------------------------------
(***************************************************************************)
(* What it says of the code, when a pack is built by one build at a time.   *)
(***************************************************************************)

(* Every variable keeps its type: the staging directory and the release are *)
(* directories of views, evidence and a profile, or absent, and a build     *)
(* stands at one of its steps with a profile of this pack.                  *)
THEOREM TypeCorrect == Spec => []TypeOK
  BY BuildInvariant, PTL DEF BuildInv

(* While no build dies, builds that take turns never release a version with *)
(* a second identity, and one that fails never takes the release away       *)
(* (release.py 917-919, ADR 0028 90-92).                                    *)
THEOREM ReleasesAreImmutable ==
  ASSUME Serialised
  PROVE  Spec => []ReleaseIsImmutable
  <1>1. BuildInv => ReleaseIsImmutable
    <2> SUFFICES ASSUME BuildInv, Uncrashed, issued # None
                 PROVE  /\ Released => Identity(release.profile) = issued
                        /\ Quiet => Released
      BY DEF ReleaseIsImmutable
    <2>1. Quiet => \A b \in Builders : pc[b] \notin {"removing", "replacing"}
      BY PhaseFacts DEF Quiet
    <2> QED BY <2>1 DEF BuildInv, IssuedOnce
  <1> QED BY <1>1, BuildInvariant, PTL

(* What a consumer finds of a bound release is what its build wrote.        *)
LEMMA FoundEvidence ==
  ASSUME NEW s \in Snapshots, OwnEvidencePasses(Facts(s)), NEW dir,
         dir.profile.read = s, dir.profile.evidence = s, dir.evidence = s
  PROVE  Loaded(Found(dir)) = EvidenceOf(Facts(s))
  <1> DEFINE pack == Facts(s).pack
  <1>1. Facts(s).published /\ s # None /\ ProfileOf(Facts(s)) # Missing
    BY DocumentAssumption DEF Facts
  <1>2. SbomOf(pack) # Missing
    BY DEF OwnEvidencePasses, SbomDefects
  <1>3. ProvenanceOf(Facts(s)) # Missing
    BY DEF OwnEvidencePasses, ProvenanceDefects
  <1>4. /\ Evidence(s).sbom = SbomOf(pack) /\ Evidence(s).provenance = ProvenanceOf(Facts(s))
    BY <1>1 DEF Evidence, EvidenceOf
  <1>5. /\ ProfileOf(Facts(s)).sbom = SbomOf(pack)
        /\ ProfileOf(Facts(s)).provenance = ProvenanceOf(Facts(s))
    BY <1>1 DEF ProfileOf
  <1>6. PICK p, b, r : p = ProfileOf(Facts(s)) /\ b = SbomOf(pack) /\ r = ProvenanceOf(Facts(s))
    OBVIOUS
  <1>7. /\ Found(dir).profile = p /\ Found(dir).sbom = b /\ Found(dir).provenance = r
    <2>1. p = [key \in DOMAIN p |-> p[key]] /\ p.sbom = b /\ p.provenance = r
      BY <1>5, <1>6 DEF ProfileOf
    <2>2. [p EXCEPT !.sbom = b] = p
      BY <2>1
    <2>3. [p EXCEPT !.provenance = r] = p
      BY <2>1
    <2>4. [p EXCEPT !.sbom = b, !.provenance = r] = p
      BY <2>2, <2>3
    <2> QED BY <1>4, <1>6, <2>4 DEF Found
  <1>8. Loaded(Found(dir)) = [profile |-> ProfileOf(Facts(s)), sbom |-> SbomOf(pack),
                              provenance |-> ProvenanceOf(Facts(s))]
    BY <1>1, <1>2, <1>3, <1>5, <1>6, <1>7 DEF Loaded
  <1>9. EvidenceOf(Facts(s)) = [profile |-> ProfileOf(Facts(s)), sbom |-> SbomOf(pack),
                                provenance |-> ProvenanceOf(Facts(s))]
    BY <1>1 DEF EvidenceOf
  <1> QED BY <1>8, <1>9

(* What a build wrote of a valid, bound pack passes the gates of that pack. *)
LEMMA OwnEvidenceIsAccepted ==
  ASSUME NEW s \in Snapshots, OwnEvidencePasses(Facts(s)), PackAt[s].bound, PackAt[s].static,
         NEW dir, Loaded(dir) = EvidenceOf(Facts(s))
  PROVE  Accepted(Verification(Described(s), dir, Missing))
  <1> DEFINE pack == Described(s)
             v == Verification(pack, dir, Missing)
             profile == ProfileOf(Facts(s))
             sbom == SbomOf(pack)
             provenance == ProvenanceOf(Facts(s))
  <1>1. Facts(s).pack = pack /\ Facts(s).published /\ pack.bound /\ pack.static
    BY DEF Facts, Described
  <1>2. /\ Loaded(dir).profile = profile /\ Loaded(dir).sbom = sbom
        /\ Loaded(dir).provenance = provenance
    BY <1>1 DEF EvidenceOf
  <1>3. /\ profile # Missing
        /\ ProvenanceDefects(provenance, pack.name, pack.version, pack.set, sbom) = {}
        /\ SbomDefects(sbom, pack.name, pack.version, pack.set, pack.components) = {}
    BY <1>1, DocumentAssumption DEF OwnEvidencePasses
  <1>4. sbom # Missing /\ provenance # Missing
    BY <1>3 DEF SbomDefects, ProvenanceDefects
  <1>5. /\ profile.current /\ profile.name = pack.name /\ profile.version = pack.version
        /\ profile.set = pack.set /\ profile.sbom = sbom /\ profile.provenance = provenance
    BY <1>1 DEF ProfileOf
  <1>6. /\ sbom.name = pack.name /\ sbom.version = pack.version /\ sbom.set = pack.set
    BY DEF SbomOf
  <1>7. provenance.lock = pack.lock
    BY <1>1 DEF ProvenanceOf
  <1> HIDE DEF pack, profile, sbom, provenance
  <1>8. /\ PublicationGate(profile, pack) = "verified"
        /\ SbomGate(profile, sbom, pack) = "verified"
    BY <1>3, <1>4, <1>5, <1>6 DEF PublicationGate, SbomGate, Referred, Names
  <1>9. ProvenanceGate(profile, provenance, pack) = "verified"
    BY <1>3, <1>4, <1>5 DEF ProvenanceGate, Referred
  <1>10. LockGate(provenance, pack) \in {"verified", "absent"}
    BY <1>4, <1>7 DEF LockGate
  <1>11. SignatureGate(Missing, pack) = "unavailable"
    BY DEF SignatureGate
  <1>12. \A gate \in DOMAIN v :
           /\ v[gate] \in {"verified", "unavailable", "absent"}
           /\ gate \in CoreGates => v[gate] = "verified"
    BY <1>1, <1>2, <1>8, <1>9, <1>10, <1>11
       DEF Verification, CoreGates, StaticGate, ContentGate
  <1>13. CoreGates \subseteq DOMAIN v
    BY DEF Verification, CoreGates
  <1> QED BY <1>12, <1>13 DEF Accepted, pack

(* When the pack rests during builds that take turns, verify_pack_release   *)
(* accepts every release that was published, through any crash (ADR 0037    *)
(* 189-191): a build's documents bind the set and the views beside them.    *)
THEOREM EvidenceAlwaysBinds ==
  ASSUME Serialised
  PROVE  Spec => []EvidenceBindsTheRelease
  <1>1. BuildInv => EvidenceBindsTheRelease
    <2> SUFFICES ASSUME BuildInv, resting, Released, release.evidence # None
                 PROVE  /\ release.evidence = release.profile.sets
                        /\ Accepted(Verification(Described(release.profile.read),
                                                 Found(release), Missing))
      BY DEF EvidenceBindsTheRelease
    <2> DEFINE s == release.profile.read
    <2>1. /\ release.evidence = s /\ release.profile.evidence = s /\ release.profile.sets = s
          /\ PackAt[s].bound /\ PackAt[s].static /\ OwnEvidencePasses(Facts(s))
      BY DEF BuildInv, ReleaseIsBound
    <2>2. s \in Snapshots
      BY DirectoryFacts, ProfileFacts DEF BuildInv, TypeOK, Released
    <2>3. Loaded(Found(release)) = EvidenceOf(Facts(s))
      BY <2>1, <2>2, FoundEvidence
    <2> HIDE DEF s
    <2>4. Accepted(Verification(Described(s), Found(release), Missing))
      BY <2>1, <2>2, <2>3, OwnEvidenceIsAccepted
    <2> QED BY <2>1, <2>4 DEF s
  <1> QED BY <1>1, BuildInvariant, PTL

(* A build that succeeds while no other runs leaves a whole release: its    *)
(* views, sets and evidence agree, its participant view has no operator's   *)
(* token, and its rows are of bytes it has, asked for by the author if the  *)
(* pack rested (release.py 594-645, ADR 0028).                              *)
THEOREM PromotedReleasesAreSound ==
  ASSUME Serialised
  PROVE  Spec => PromotedReleaseIsSound
  <1> DEFINE Sound == \A b \in Builders : pc[b] = "replacing" /\ outcome'[b] = "ok" =>
                        WholeRelease' /\ FitRelease'
  <1>1. BuildInv /\ [Next]_vars => Sound
    <2> SUFFICES ASSUME BuildInv, [Next]_vars, NEW b \in Builders,
                        pc[b] = "replacing", outcome'[b] = "ok"
                 PROVE  WholeRelease' /\ FitRelease'
      OBVIOUS
    <2>1. outcome[b] = "none" /\ outcome \in [Builders -> {"none", "ok", "failed", "crashed"}]
      BY HeldFacts DEF Grown, BuildInv, TypeOK
    <2>2. Replace(b)
      <3>1. PICK e \in Builders : BuilderStep(e)
        BY <2>1 DEF Next, Edit, vars
      <3>2. Replace(e) \/ Abort(e) \/ Crash(e) \/ Make(e)
        BY <2>1, <3>1
        DEF BuilderStep, Begin, Clear, StageView, BindView, ScanStaged, DeriveManifest,
            EmitEvidence, CheckPublication, CheckImmutable, WriteProfile, Promote, RemoveEntry,
            RemoveRoot
      <3> QED BY <2>1, <3>2 DEF Abort, Crash, Make, Replace, Finish
    <2>3. CanReplace /\ release' = staging /\ resting' = resting
      BY <2>1, <2>2 DEF Replace
    <2>4. /\ staging \in Directories /\ staging.profile = meta[b] /\ meta[b] \in Profiles
          /\ staging.evidence = meta[b].evidence
          /\ \A v \in Views : /\ staging.views[v] # None
                               /\ meta[b].sets[v] \in {None, staging.views[v]}
          /\ staging.views["participant"] \notin Leaking
          /\ RowsFit(meta[b], staging.views)
      BY PromotedFacts
    <2>5. WholeRelease'
      BY <2>3, <2>4, DirectoryFacts, ProfileFacts DEF WholeRelease, Released
    <2>6. FitRelease'
      BY <2>3, <2>4 DEF FitRelease, RowsFit
    <2> QED BY <2>5, <2>6
  <1> QED BY <1>1, BuildInvariant, PTL DEF Spec, PromotedReleaseIsSound
--------------------------------------------------------------------------------
(***************************************************************************)
(* Induction along a sequence, and what a function defined by recursion    *)
(* along one computes.                                                     *)
(***************************************************************************)

(* A set of numbers has a least one.                                        *)
LEMMA Least ==
  ASSUME NEW S \in SUBSET Nat, S # {}
  PROVE  \E n \in S : \A m \in S : n <= m
  <1>1. IsWellFoundedOn(OpToRel(<, Nat), Nat)
    BY NatLessThanWellFounded
  <1>2. PICK n \in S : \A m \in S : <<m, n>> \notin OpToRel(<, Nat)
    BY <1>1, WFMin
  <1>3. \A m \in S : ~(m < n)
    BY <1>2 DEF OpToRel
  <1> QED BY <1>3

(* What holds of no element yet, and of one more with each step, holds of all. *)
LEMMA Induction ==
  ASSUME NEW N \in Nat, NEW S, 0 \in S, \A n \in 1 .. N : n - 1 \in S => n \in S
  PROVE  0 .. N \subseteq S
  <1> SUFFICES ASSUME (0 .. N) \ S # {} PROVE FALSE
    OBVIOUS
  <1>1. (0 .. N) \ S \in SUBSET Nat
    OBVIOUS
  <1>2. PICK k \in (0 .. N) \ S : \A m \in (0 .. N) \ S : k <= m
    BY <1>1, Least
  <1>3. k # 0 /\ k \in 1 .. N /\ k - 1 \in 0 .. N /\ ~(k <= k - 1)
    BY <1>2
  <1> QED BY <1>2, <1>3

(* The first k values of the recursion that starts with base and grows.      *)
Follows(f, B, base, grow, k) ==
  /\ f \in [0 .. k -> B] /\ f[0] = base
  /\ \A n \in 1 .. k : f[n] = grow[<<f[n - 1], n>>]

LEMMA Recursion ==
  ASSUME NEW B, NEW base \in B, NEW N \in Nat, NEW grow \in [B \X (1 .. N) -> B]
  PROVE  \E f : Follows(f, B, base, grow, N)
  <1> DEFINE S == {k \in 0 .. N : \E f : Follows(f, B, base, grow, k)}
  <1>1. 0 \in S
    <2>1. Follows([n \in 0 .. 0 |-> base], B, base, grow, 0)
      BY DEF Follows
    <2> QED BY <2>1
  <1>2. ASSUME NEW k \in 1 .. N, k - 1 \in S PROVE k \in S
    <2>1. PICK f : Follows(f, B, base, grow, k - 1)
      BY <1>2
    <2> DEFINE g == [n \in 0 .. k |-> IF n = k THEN grow[<<f[k - 1], k>>] ELSE f[n]]
    <2>2. grow[<<f[k - 1], k>>] \in B
      BY <2>1 DEF Follows
    <2>3. g \in [0 .. k -> B] /\ g[0] = base
      BY <2>1, <2>2 DEF Follows
    <2>4. ASSUME NEW n \in 1 .. k PROVE g[n] = grow[<<g[n - 1], n>>]
      <3>1. n - 1 \in 0 .. k - 1 /\ n - 1 # k /\ n \in 0 .. k
        OBVIOUS
      <3>2. g[n - 1] = f[n - 1]
        BY <3>1
      <3>3. CASE n = k
        <4>1. g[n] = grow[<<f[k - 1], k>>]
          BY <3>1, <3>3
        <4> QED BY <3>2, <3>3, <4>1
      <3>4. CASE n # k
        <4>1. n \in 1 .. k - 1
          BY <3>4
        <4>2. g[n] = f[n]
          BY <3>1, <3>4
        <4>3. f[n] = grow[<<f[n - 1], n>>]
          BY <2>1, <4>1 DEF Follows
        <4> QED BY <3>2, <4>2, <4>3
      <3> QED BY <3>3, <3>4
    <2> HIDE DEF g
    <2>5. Follows(g, B, base, grow, k)
      BY <2>3, <2>4 DEF Follows
    <2> QED BY <2>5
  <1> HIDE DEF S
  <1>3. N \in S
    BY <1>1, <1>2, Induction
  <1> QED BY <1>3 DEF S

(* The lists a flattened list grows through, one for each list in it.       *)
LEMMA FlattenSteps ==
  ASSUME NEW C, NEW ss \in Seq(Seq(C))
  PROVE  \E f : /\ f \in [0 .. Len(ss) -> Seq(C)] /\ f[0] = <<>>
                /\ \A n \in 1 .. Len(ss) : f[n] = f[n - 1] \o ss[n]
                /\ FlattenSeq(ss) = f[Len(ss)]
  <1> DEFINE N == Len(ss)
             grow == [z \in Seq(C) \X (1 .. N) |-> z[1] \o ss[z[2]]]
  <1>1. N \in Nat /\ grow \in [Seq(C) \X (1 .. N) -> Seq(C)]
    OBVIOUS
  <1>2. ASSUME NEW x \in Seq(C), NEW n \in 1 .. N PROVE grow[<<x, n>>] = x \o ss[n]
    OBVIOUS
  <1>3. <<>> \in Seq(C) /\ \A n \in 1 .. N : ss[n] \in Seq(C)
    OBVIOUS
  <1> HIDE DEF grow
  <1>4. PICK f : Follows(f, Seq(C), <<>>, grow, N)
    <2> HIDE DEF N
    <2> QED BY <1>1, <1>3, Recursion
  <1>5. ASSUME NEW n \in 1 .. N
        PROVE  n - 1 \in 0 .. N /\ f[n - 1] \in Seq(C) /\ f[n] = f[n - 1] \o ss[n]
    <2> HIDE DEF N
    <2>1. n - 1 \in 0 .. N
      BY <1>1
    <2>2. f[n - 1] \in Seq(C) /\ f[n] = grow[<<f[n - 1], n>>]
      BY <1>4, <2>1 DEF Follows
    <2> QED BY <1>2, <2>1, <2>2
  <1>6. CASE N = 0
    <2>1. ss = <<>>
      BY <1>6
    <2> QED BY <1>4, <1>6, <2>1 DEF Follows, FlattenSeq
  <1>7. CASE N # 0
    <2> DEFINE body(h) == [i \in 1 .. N |-> IF i = 1 THEN ss[i] ELSE h[i - 1] \o ss[i]]
               g == [i \in 1 .. N |-> f[i]]
               h == CHOOSE h : h = body(h)
    <2>1. f[1] = ss[1]
      <3>1. 1 \in 1 .. N /\ f[0] = <<>>
        BY <1>1, <1>4, <1>7 DEF Follows
      <3>2. ss[1] \in Seq(C) /\ 1 - 1 = 0
        BY <1>3, <3>1
      <3>3. f[1] = f[1 - 1] \o ss[1]
        BY <1>5, <3>1
      <3>4. ASSUME NEW x \in Seq(C) PROVE <<>> \o x = x
        OBVIOUS
      <3>5. f[1] = <<>> \o ss[1]
        BY <3>1, <3>2, <3>3
      <3> QED BY <3>2, <3>4, <3>5
    <2>2. ASSUME NEW i \in 1 .. N, i # 1 PROVE g[i] = g[i - 1] \o ss[i]
      <3>1. i - 1 \in 1 .. N
        BY <1>1, <2>2
      <3> QED BY <1>5, <3>1
    <2>3. g = body(g)
      BY <2>1, <2>2
    <2>4. h = body(h)
      <3> HIDE DEF g
      <3> QED BY <2>3
    <2>5. FlattenSeq(ss) = h[N]
      BY <1>7, Zenon DEF FlattenSeq
    <2> HIDE DEF h, g
    <2>6. ASSUME NEW i \in 1 .. N PROVE h[i] = IF i = 1 THEN ss[i] ELSE h[i - 1] \o ss[i]
      BY <2>4
    <2> DEFINE S == {n \in Nat : n # 0 => h[n] = f[n]}
    <2>7. ASSUME NEW n \in 1 .. N, n - 1 \in S PROVE n \in S
      <3>1. CASE n = 1
        BY <2>1, <2>6, <3>1
      <3>2. CASE n # 1
        <4>1. n - 1 \in 1 .. N /\ n \in Nat
          BY <1>1, <3>2
        <4>2. h[n - 1] = f[n - 1]
          BY <2>7, <4>1
        <4>3. h[n] = f[n]
          BY <1>5, <2>6, <3>2, <4>2
        <4> QED BY <4>1, <4>3
      <3> QED BY <3>1, <3>2
    <2>8. 0 \in S
      OBVIOUS
    <2>9. N \in S
      <3> HIDE DEF S, N
      <3>1. N \in 0 .. N
        BY <1>1
      <3> QED BY <1>1, <2>7, <2>8, <3>1, Induction
    <2>10. FlattenSeq(ss) = f[N]
      BY <1>7, <2>5, <2>9
    <2> QED BY <1>4, <1>5, <2>10 DEF Follows
  <1> QED BY <1>6, <1>7

LEMMA FlattenType ==
  ASSUME NEW C, NEW ss \in Seq(Seq(C))
  PROVE  FlattenSeq(ss) \in Seq(C)
  <1>1. Len(ss) \in Nat
    OBVIOUS
  <1>2. Len(ss) \in 0 .. Len(ss)
    BY <1>1
  <1>3. PICK f : /\ f \in [0 .. Len(ss) -> Seq(C)]
                 /\ FlattenSeq(ss) = f[Len(ss)]
    BY FlattenSteps
  <1> QED BY <1>2, <1>3

--------------------------------------------------------------------------------
(***************************************************************************)
(* The inventory.                                                          *)
(***************************************************************************)

(* What is written of components in a pack: refs, digests and the rest.     *)
Listed(pack) ==
  ToSet(pack.lock) \cup ToSet(pack.exact) \cup ToSet(pack.declared)
    \cup UNION {ToSet(kit) : kit \in ToSet(pack.kits)}
RefsOf(pack) == {row.ref : row \in Listed(pack)}
ComponentsOf(pack) ==
  [ref : RefsOf(pack), digest : {row.digest : row \in Listed(pack)} \cup {NoDigest},
   authority : {row.authority : row \in Listed(pack)}
                 \cup {"module-lock", "kit", "raes-artifact"},
   extra : {row.extra : row \in Listed(pack)} \cup {{}}]
Inventories(pack) ==
  {f \in UNION {[refs -> ComponentsOf(pack)] : refs \in SUBSET RefsOf(pack)} :
     \A ref \in DOMAIN f : f[ref].ref = ref}

LEMMA InventoryShape ==
  ASSUME NEW pack, NEW f
  PROVE  f \in Inventories(pack) <=>
           /\ f = [ref \in DOMAIN f |-> f[ref]]
           /\ DOMAIN f \subseteq RefsOf(pack)
           /\ \A ref \in DOMAIN f : f[ref] \in ComponentsOf(pack) /\ f[ref].ref = ref
  <1> DEFINE R == RefsOf(pack)
             C == ComponentsOf(pack)
  <1>1. f \in UNION {[refs -> C] : refs \in SUBSET R} <=>
          /\ f = [ref \in DOMAIN f |-> f[ref]]
          /\ DOMAIN f \subseteq R
          /\ \A ref \in DOMAIN f : f[ref] \in C
    <2> HIDE DEF R, C
    <2> QED OBVIOUS
  <1> QED BY <1>1 DEF Inventories

LEMMA IncumbentsType ==
  ASSUME NEW pack \in Packs
  PROVE  Incumbents(pack) \in Seq(ComponentsOf(pack))
  <1> DEFINE C == ComponentsOf(pack)
  <1>1. ASSUME NEW row \in Listed(pack), NEW digest \in {row.digest, NoDigest},
               NEW authority \in {"module-lock", "kit", "raes-artifact"}
        PROVE  Component(row.ref, digest, authority) \in C
    BY DEF Component, ComponentsOf, RefsOf
  <1>2. Modules(pack) \in Seq(C)
    <2>1. pack.lock \in Seq(ToSet(pack.lock)) /\ ToSet(pack.lock) \subseteq Listed(pack)
      BY CompositionAssumption DEF IsList, Listed
    <2>2. \A i \in 1 .. Len(pack.lock) : pack.lock[i] \in Listed(pack)
      BY <2>1
    <2>3. Modules(pack) \in [1 .. Len(pack.lock) -> C]
      BY <1>1, <2>1, <2>2 DEF Modules
    <2> HIDE DEF C
    <2> QED BY <2>1, <2>3
  <1>3. ExactArtifacts(pack) \in Seq(C)
    <2>1. pack.exact \in Seq(ToSet(pack.exact)) /\ ToSet(pack.exact) \subseteq Listed(pack)
      BY CompositionAssumption DEF IsList, Listed
    <2>2. \A i \in 1 .. Len(pack.exact) : pack.exact[i] \in Listed(pack)
      BY <2>1
    <2>3. ExactArtifacts(pack) \in [1 .. Len(pack.exact) -> C]
      BY <1>1, <2>1, <2>2 DEF ExactArtifacts
    <2> HIDE DEF C
    <2> QED BY <2>1, <2>3
  <1>4. ASSUME NEW kit \in ToSet(pack.kits)
        PROVE  KitRows(kit) \in Seq(C)
    <2>1. CASE kit = Unavailable
      BY <2>1 DEF KitRows
    <2>2. CASE kit # Unavailable
      <3> DEFINE rows == [i \in DOMAIN kit |->
                            IF kit[i].scope \in Controlled
                            THEN <<Component(kit[i].ref, NoDigest, "kit")>> ELSE <<>>]
      <3>1. kit \in Seq(ToSet(kit)) /\ ToSet(kit) \subseteq Listed(pack)
        BY <2>2, CompositionAssumption DEF IsList, Listed
      <3>2. \A i \in 1 .. Len(kit) : kit[i] \in Listed(pack)
        BY <3>1
      <3>3. \A i \in 1 .. Len(kit) : Component(kit[i].ref, NoDigest, "kit") \in C
        BY <1>1, <3>2
      <3>4. rows \in Seq(Seq(C))
        <4> HIDE DEF C
        <4>1. \A i \in 1 .. Len(kit) : rows[i] \in Seq(C)
          BY <3>1, <3>3
        <4>2. DOMAIN rows = 1 .. Len(kit) /\ Len(kit) \in Nat
          BY <3>1
        <4>3. rows = [i \in 1 .. Len(kit) |-> rows[i]]
          BY <4>2
        <4> HIDE DEF rows
        <4> QED BY <4>1, <4>2, <4>3
      <3>5. FlattenSeq(rows) \in Seq(C)
        <4> HIDE DEF rows, C
        <4> QED BY <3>4, FlattenType
      <3> QED BY <2>2, <3>5 DEF KitRows
    <2> QED BY <2>1, <2>2
  <1>5. KitComponents(pack) \in Seq(C)
    <2> DEFINE rows == [i \in DOMAIN pack.kits |-> KitRows(pack.kits[i])]
    <2>1. pack.kits \in Seq(ToSet(pack.kits))
      BY CompositionAssumption DEF IsList
    <2>2. rows \in Seq(Seq(C))
      <3> HIDE DEF C
      <3>1. \A i \in 1 .. Len(pack.kits) : KitRows(pack.kits[i]) \in Seq(C)
        BY <1>4, <2>1
      <3> QED BY <2>1, <3>1
    <2> HIDE DEF rows, C
    <2>3. FlattenSeq(rows) \in Seq(C)
      BY <2>2, FlattenType
    <2> QED BY <2>3 DEF KitComponents, rows
  <1> HIDE DEF C
  <1>6. Incumbents(pack) \in Seq(C)
    BY <1>2, <1>3, <1>5 DEF Incumbents
  <1> QED BY <1>6 DEF C

LEMMA WithAdds ==
  ASSUME NEW pack, NEW f \in Inventories(pack), NEW c \in ComponentsOf(pack)
  PROVE  /\ With(f, c) \in Inventories(pack)
         /\ DOMAIN With(f, c) = DOMAIN f \cup {c.ref}
         /\ With(f, c)[c.ref] = c
         /\ \A ref \in DOMAIN f : ref # c.ref => With(f, c)[ref] = f[ref]
  <1> DEFINE g == With(f, c)
  <1>1. DOMAIN g = DOMAIN f \cup {c.ref} /\ g = [ref \in DOMAIN g |-> g[ref]]
    BY DEF With
  <1>2. g[c.ref] = c /\ \A ref \in DOMAIN f : ref # c.ref => g[ref] = f[ref]
    BY DEF With
  <1>3. c.ref \in RefsOf(pack)
    BY DEF ComponentsOf
  <1>4. DOMAIN f \subseteq RefsOf(pack)
        /\ \A ref \in DOMAIN f : f[ref] \in ComponentsOf(pack) /\ f[ref].ref = ref
    BY InventoryShape
  <1> HIDE DEF g
  <1>5. DOMAIN g \subseteq RefsOf(pack)
        /\ \A ref \in DOMAIN g : g[ref] \in ComponentsOf(pack) /\ g[ref].ref = ref
    BY <1>1, <1>2, <1>3, <1>4
  <1>6. g \in Inventories(pack)
    BY <1>1, <1>5, InventoryShape
  <1> QED BY <1>1, <1>2, <1>6 DEF g

DigestAt(inventory, ref) == inventory[ref].digest

(* A declared row is added, adds to what is there or is refused: digests stay. *)
LEMMA MergeRowAdds ==
  ASSUME NEW pack, NEW f \in Inventories(pack), NEW row \in ToSet(pack.declared)
  PROVE  /\ MergeRow(f, row) \in Inventories(pack)
         /\ DOMAIN MergeRow(f, row) = DOMAIN f \cup {row.ref}
         /\ \A ref \in DOMAIN f : DigestAt(MergeRow(f, row), ref) = DigestAt(f, ref)
         /\ row.ref \notin DOMAIN f => DigestAt(MergeRow(f, row), row.ref) = row.digest
  <1>1. row \in Listed(pack)
    BY DEF Listed
  <1>2. CASE row.ref \notin DOMAIN f
    <2> DEFINE c == [Component(row.ref, row.digest, row.authority) EXCEPT !.extra = row.extra]
    <2>1. c \in ComponentsOf(pack) /\ c.ref = row.ref /\ c.digest = row.digest
      BY <1>1 DEF Component, ComponentsOf, RefsOf
    <2>2. MergeRow(f, row) = With(f, c)
      BY <1>2 DEF MergeRow
    <2> HIDE DEF c
    <2>3. c \in ComponentsOf(pack) /\ c.ref = row.ref
      BY <2>1
    <2>4. /\ With(f, c) \in Inventories(pack)
          /\ DOMAIN With(f, c) = DOMAIN f \cup {c.ref}
          /\ With(f, c)[c.ref] = c
          /\ \A ref \in DOMAIN f : ref # c.ref => With(f, c)[ref] = f[ref]
      BY <2>3, WithAdds
    <2>5. \A ref \in DOMAIN f : With(f, c)[ref] = f[ref]
      BY <1>2, <2>3, <2>4
    <2> QED BY <1>2, <2>1, <2>2, <2>4, <2>5 DEF DigestAt
  <1>3. CASE row.ref \in DOMAIN f /\ Contradicts(f[row.ref], row)
    BY <1>3 DEF MergeRow, DigestAt
  <1>4. CASE row.ref \in DOMAIN f /\ ~Contradicts(f[row.ref], row)
    <2> DEFINE old == f[row.ref]
               c == Enriched(old, row)
    <2>1. old \in ComponentsOf(pack) /\ old.ref = row.ref
      BY <1>4, InventoryShape
    <2>2. c \in ComponentsOf(pack) /\ c.ref = row.ref /\ c.digest = old.digest
      <3> HIDE DEF old
      <3> QED BY <1>1, <2>1 DEF Enriched, ComponentsOf
    <2>3. MergeRow(f, row) = With(f, c)
      BY <1>4 DEF MergeRow
    <2>4. c.digest = f[row.ref].digest
      BY <2>2
    <2> HIDE DEF c, old
    <2>5. /\ With(f, c) \in Inventories(pack)
          /\ DOMAIN With(f, c) = DOMAIN f \cup {row.ref}
          /\ With(f, c)[row.ref] = c
          /\ \A ref \in DOMAIN f : ref # row.ref => With(f, c)[ref] = f[ref]
      <3>1. c \in ComponentsOf(pack) /\ c.ref = row.ref
        BY <2>2
      <3>2. /\ With(f, c) \in Inventories(pack)
            /\ DOMAIN With(f, c) = DOMAIN f \cup {c.ref}
            /\ With(f, c)[c.ref] = c
            /\ \A ref \in DOMAIN f : ref # c.ref => With(f, c)[ref] = f[ref]
        BY <3>1, WithAdds
      <3> QED BY <3>1, <3>2
    <2>6. \A ref \in DOMAIN f : With(f, c)[ref].digest = f[ref].digest
      BY <2>4, <2>5
    <2> QED BY <1>4, <2>3, <2>5, <2>6 DEF DigestAt
  <1> QED BY <1>2, <1>3, <1>4

(* The dictionary after each incumbent, *)
LEMMA PinnedSteps ==
  ASSUME NEW pack \in Packs
  PROVE  /\ Pinned(pack)[0] = <<>> /\ Pinned(pack)[0] \in Inventories(pack)
         /\ \A n \in 1 .. Len(Incumbents(pack)) :
              /\ Pinned(pack)[n - 1] \in Inventories(pack)
              /\ Pinned(pack)[n] \in Inventories(pack)
              /\ Pinned(pack)[n] = With(Pinned(pack)[n - 1], Incumbents(pack)[n])
  <1> DEFINE c == Incumbents(pack)
             N == Len(c)
             B == Inventories(pack)
             grow == [z \in B \X (1 .. N) |-> With(z[1], c[z[2]])]
  <1>1. N \in Nat /\ \A n \in 1 .. N : c[n] \in ComponentsOf(pack)
    <2>1. c \in Seq(ComponentsOf(pack))
      BY IncumbentsType
    <2> HIDE DEF c
    <2> QED BY <2>1
  <1>2. <<>> \in B
    <2>1. DOMAIN <<>> = {} /\ <<>> = [ref \in {} |-> <<>>[ref]]
      OBVIOUS
    <2> QED BY <2>1, InventoryShape
  <1> HIDE DEF c, N, B
  <1>3. ASSUME NEW f \in B, NEW n \in 1 .. N
        PROVE  With(f, c[n]) \in B /\ grow[<<f, n>>] = With(f, c[n])
    BY <1>1, WithAdds DEF B
  <1>4. grow \in [B \X (1 .. N) -> B]
    BY <1>3
  <1> HIDE DEF grow
  <1>5. PICK f : Follows(f, B, <<>>, grow, N)
    BY <1>1, <1>2, <1>4, Recursion
  <1>6. f = [n \in 0 .. N |-> IF n = 0 THEN <<>> ELSE With(f[n - 1], c[n])]
    <2>1. ASSUME NEW n \in 1 .. N PROVE f[n] = With(f[n - 1], c[n])
      <3>1. n - 1 \in 0 .. N /\ f[n - 1] \in B
        BY <1>1, <1>5 DEF Follows
      <3> QED BY <1>3, <1>5, <3>1 DEF Follows
    <2> QED BY <1>5, <2>1 DEF Follows
  <1>7. Pinned(pack) = [n \in 0 .. N |-> IF n = 0 THEN <<>>
                                       ELSE With(Pinned(pack)[n - 1], c[n])]
    BY <1>6 DEF Pinned, N, c
  <1> DEFINE p == Pinned(pack)
  <1>8. p[0] = <<>> /\ \A n \in 1 .. N : p[n] = With(p[n - 1], c[n])
    <2> HIDE DEF p
    <2>1. p = [n \in 0 .. N |-> IF n = 0 THEN <<>> ELSE With(p[n - 1], c[n])]
      BY <1>7 DEF p
    <2> QED BY <1>1, <2>1
  <1> HIDE DEF p
  <1> DEFINE S == {n \in Nat : p[n] \in B}
  <1>9. 0 .. N \subseteq S
    <2>1. 0 \in S
      BY <1>2, <1>8
    <2>2. ASSUME NEW n \in 1 .. N, n - 1 \in S PROVE n \in S
      <3>1. n \in Nat /\ p[n - 1] \in B /\ p[n] = With(p[n - 1], c[n])
        BY <1>1, <1>8, <2>2
      <3>2. With(p[n - 1], c[n]) \in B
        BY <1>3, <3>1
      <3> QED BY <3>1, <3>2
    <2> HIDE DEF S
    <2> QED BY <1>1, <2>1, <2>2, Induction
  <1>10. \A n \in 1 .. N : n - 1 \in 0 .. N /\ n \in 0 .. N
    BY <1>1
  <1> QED BY <1>2, <1>8, <1>9, <1>10 DEF p, B, N, c

(* ... and, beginning with all of them, after each declared row.            *)
LEMMA MergedSteps ==
  ASSUME NEW pack \in Packs
  PROVE  /\ Merged(pack)[0] = Pinned(pack)[Len(Incumbents(pack))]
         /\ \A n \in 1 .. Len(pack.declared) :
              /\ Merged(pack)[n - 1] \in Inventories(pack)
              /\ Merged(pack)[n] = MergeRow(Merged(pack)[n - 1], pack.declared[n])
  <1> DEFINE d == pack.declared
             N == Len(d)
             B == Inventories(pack)
             first == Pinned(pack)[Len(Incumbents(pack))]
             grow == [z \in B \X (1 .. N) |-> MergeRow(z[1], d[z[2]])]
  <1>1. N \in Nat /\ \A n \in 1 .. N : d[n] \in ToSet(d)
    <2>1. d \in Seq(ToSet(d))
      BY CompositionAssumption DEF IsList
    <2> HIDE DEF d
    <2> QED BY <2>1
  <1>2. first \in B
    <2>1. Len(Incumbents(pack)) \in Nat
      BY IncumbentsType
    <2>2. Len(Incumbents(pack)) = 0 \/ Len(Incumbents(pack)) \in 1 .. Len(Incumbents(pack))
      BY <2>1
    <2> QED BY <2>2, PinnedSteps
  <1> HIDE DEF N, B, first
  <1>3. ASSUME NEW f \in B, NEW n \in 1 .. N
        PROVE  MergeRow(f, d[n]) \in B /\ grow[<<f, n>>] = MergeRow(f, d[n])
    <2>1. MergeRow(f, d[n]) \in B
      BY <1>1, MergeRowAdds DEF B
    <2> HIDE DEF d
    <2> QED BY <2>1
  <1> HIDE DEF d
  <1>4. grow \in [B \X (1 .. N) -> B]
    BY <1>3
  <1> HIDE DEF grow
  <1>5. PICK f : Follows(f, B, first, grow, N)
    BY <1>1, <1>2, <1>4, Recursion
  <1>6. f = [n \in 0 .. N |-> IF n = 0 THEN first ELSE MergeRow(f[n - 1], d[n])]
    <2>1. ASSUME NEW n \in 1 .. N PROVE f[n] = MergeRow(f[n - 1], d[n])
      <3>1. n - 1 \in 0 .. N /\ f[n - 1] \in B
        BY <1>1, <1>5 DEF Follows
      <3> QED BY <1>3, <1>5, <3>1 DEF Follows
    <2> QED BY <1>5, <2>1 DEF Follows
  <1> DEFINE m == Merged(pack)
  <1>7. m = [n \in 0 .. N |-> IF n = 0 THEN first ELSE MergeRow(m[n - 1], d[n])]
    BY <1>6 DEF Merged, N, d, first
  <1> HIDE DEF m
  <1>8. m[0] = first /\ \A n \in 1 .. N : m[n] = MergeRow(m[n - 1], d[n])
    BY <1>1, <1>7
  <1> DEFINE S == {n \in Nat : m[n] \in B}
  <1>9. 0 .. N \subseteq S
    <2>1. 0 \in S
      BY <1>2, <1>8
    <2>2. ASSUME NEW n \in 1 .. N, n - 1 \in S PROVE n \in S
      <3>1. n \in Nat /\ m[n - 1] \in B /\ m[n] = MergeRow(m[n - 1], d[n])
        BY <1>1, <1>8, <2>2
      <3>2. MergeRow(m[n - 1], d[n]) \in B
        BY <1>3, <3>1
      <3> QED BY <3>1, <3>2
    <2> HIDE DEF S
    <2> QED BY <1>1, <2>1, <2>2, Induction
  <1>10. \A n \in 1 .. N : n - 1 \in 0 .. N /\ n \in 0 .. N
    BY <1>1
  <1> QED BY <1>8, <1>9, <1>10 DEF m, B, N, d, first

(* Where refs are pinned once, every incumbent so far is there as it was pinned. *)
LEMMA PinnedHolds ==
  ASSUME NEW pack \in Packs, PinnedOnce(pack), NEW i \in DOMAIN Incumbents(pack)
  PROVE  LET pinned == Pinned(pack)[Len(Incumbents(pack))]
             c == Incumbents(pack)[i]
         IN c.ref \in DOMAIN pinned /\ pinned[c.ref] = c
  <1> DEFINE c == Incumbents(pack)
             N == Len(c)
             p == Pinned(pack)
             S == {n \in Nat : \A j \in 1 .. n :
                     c[j].ref \in DOMAIN p[n] /\ p[n][c[j].ref] = c[j]}
  <1>1. N \in Nat /\ DOMAIN c = 1 .. N /\ \A n \in 1 .. N : c[n] \in ComponentsOf(pack)
    <2>1. c \in Seq(ComponentsOf(pack))
      BY IncumbentsType
    <2> HIDE DEF c
    <2> QED BY <2>1
  <1>2. \A j, k \in 1 .. N : c[j].ref = c[k].ref => j = k
    BY <1>1 DEF PinnedOnce
  <1>3. \A n \in 1 .. N : p[n - 1] \in Inventories(pack) /\ p[n] = With(p[n - 1], c[n])
    BY PinnedSteps
  <1> HIDE DEF c, N, p
  <1>4. 0 \in S
    OBVIOUS
  <1>5. ASSUME NEW n \in 1 .. N, n - 1 \in S PROVE n \in S
    <2>1. /\ DOMAIN p[n] = DOMAIN p[n - 1] \cup {c[n].ref} /\ p[n][c[n].ref] = c[n]
          /\ \A ref \in DOMAIN p[n - 1] : ref # c[n].ref => p[n][ref] = p[n - 1][ref]
      <3>1. p[n - 1] \in Inventories(pack) /\ c[n] \in ComponentsOf(pack)
        BY <1>1, <1>3
      <3>2. p[n] = With(p[n - 1], c[n])
        BY <1>3
      <3> DEFINE f == p[n - 1]
                 x == c[n]
      <3> HIDE DEF f, x
      <3>3. f \in Inventories(pack) /\ x \in ComponentsOf(pack)
        BY <3>1 DEF f, x
      <3>4. /\ DOMAIN With(f, x) = DOMAIN f \cup {x.ref} /\ With(f, x)[x.ref] = x
            /\ \A ref \in DOMAIN f : ref # x.ref => With(f, x)[ref] = f[ref]
        BY <3>3, WithAdds
      <3>5. p[n] = With(f, x)
        BY <3>2 DEF f, x
      <3> QED BY <3>4, <3>5 DEF f, x
    <2>2. ASSUME NEW j \in 1 .. n
          PROVE  c[j].ref \in DOMAIN p[n] /\ p[n][c[j].ref] = c[j]
      <3>1. CASE j = n
        BY <2>1, <3>1
      <3>2. CASE j # n
        <4>1. j \in 1 .. n - 1 /\ j \in 1 .. N
          BY <1>1, <3>2
        <4>2. c[j].ref # c[n].ref
          BY <1>2, <3>2, <4>1
        <4> QED BY <1>5, <2>1, <4>1, <4>2
      <3> QED BY <3>1, <3>2
    <2> QED BY <1>1, <2>2
  <1> HIDE DEF S
  <1>6. N \in S
    <2>1. N \in 0 .. N
      BY <1>1
    <2> QED BY <1>1, <1>4, <1>5, <2>1, Induction
  <1> QED BY <1>1, <1>6 DEF S, p, N, c

(* Declared rows leave digests as they are, and contradict none if none was  *)
(* reported.                                                                 *)
LEMMA MergedHolds ==
  ASSUME NEW pack \in Packs, ~BoundaryFails(pack)
  PROVE  LET before == Merged(pack)[0]
             after == Inventory(pack)
         IN /\ \A ref \in DOMAIN before :
                 ref \in DOMAIN after /\ after[ref].digest = before[ref].digest
            /\ \A i \in DOMAIN pack.declared :
                 LET row == pack.declared[i]
                 IN row.ref \in DOMAIN after /\ ~Contradicts(after[row.ref], row)
  <1> DEFINE d == pack.declared
             N == Len(d)
             m == Merged(pack)
             S == {n \in Nat :
                     /\ \A ref \in DOMAIN m[0] :
                          ref \in DOMAIN m[n] /\ m[n][ref].digest = m[0][ref].digest
                     /\ \A j \in 1 .. n :
                          d[j].ref \in DOMAIN m[n] /\ ~Contradicts(m[n][d[j].ref], d[j])}
  <1>1. N \in Nat /\ DOMAIN d = 1 .. N /\ \A n \in 1 .. N : d[n] \in ToSet(d)
    <2>1. d \in Seq(ToSet(d))
      BY CompositionAssumption DEF IsList
    <2> HIDE DEF d
    <2> QED BY <2>1
  <1>2. \A n \in 1 .. N : m[n - 1] \in Inventories(pack) /\ m[n] = MergeRow(m[n - 1], d[n])
    BY MergedSteps
  <1>3. \A n \in 1 .. N : d[n].ref \in DOMAIN m[n - 1] => ~Contradicts(m[n - 1][d[n].ref], d[n])
    BY <1>1 DEF BoundaryFails
  <1>4. ASSUME NEW n \in 1 .. N
        PROVE  /\ DOMAIN m[n] = DOMAIN m[n - 1] \cup {d[n].ref}
               /\ \A ref \in DOMAIN m[n - 1] : m[n][ref].digest = m[n - 1][ref].digest
               /\ d[n].ref \notin DOMAIN m[n - 1] => m[n][d[n].ref].digest = d[n].digest
    <2>1. m[n - 1] \in Inventories(pack) /\ d[n] \in ToSet(pack.declared)
      BY <1>1, <1>2
    <2>2. m[n] = MergeRow(m[n - 1], d[n])
      BY <1>2
    <2> HIDE DEF m, d
    <2> DEFINE f == m[n - 1]
               row == d[n]
    <2> HIDE DEF f, row
    <2>3. f \in Inventories(pack) /\ row \in ToSet(pack.declared)
      BY <2>1 DEF f, row
    <2>4. /\ DOMAIN MergeRow(f, row) = DOMAIN f \cup {row.ref}
          /\ \A ref \in DOMAIN f : MergeRow(f, row)[ref].digest = f[ref].digest
          /\ row.ref \notin DOMAIN f => MergeRow(f, row)[row.ref].digest = row.digest
      <3>1. f \in Inventories(pack)
        BY <2>3
      <3>2. row \in ToSet(pack.declared)
        BY <2>3
      <3>3. DOMAIN MergeRow(f, row) = DOMAIN f \cup {row.ref}
        BY <3>1, <3>2, MergeRowAdds
      <3>4. \A ref \in DOMAIN f : DigestAt(MergeRow(f, row), ref) = DigestAt(f, ref)
        BY <3>1, <3>2, MergeRowAdds
      <3>5. row.ref \notin DOMAIN f => DigestAt(MergeRow(f, row), row.ref) = row.digest
        BY <3>1, <3>2, MergeRowAdds
      <3> QED BY <3>3, <3>4, <3>5 DEF DigestAt
    <2>5. m[n] = MergeRow(f, row)
      BY <2>2 DEF f, row
    <2> QED BY <2>4, <2>5 DEF f, row
  <1> HIDE DEF d, N, m
  <1>5. 0 \in S
    OBVIOUS
  <1>6. ASSUME NEW n \in 1 .. N, n - 1 \in S PROVE n \in S
    <2>1. \A ref \in DOMAIN m[0] : ref \in DOMAIN m[n] /\ m[n][ref].digest = m[0][ref].digest
      BY <1>4, <1>6
    <2>2. ASSUME NEW j \in 1 .. n
          PROVE  d[j].ref \in DOMAIN m[n] /\ ~Contradicts(m[n][d[j].ref], d[j])
      <3>1. CASE j = n
        <4>1. CASE d[n].ref \in DOMAIN m[n - 1]
          <5>1. ~Contradicts(m[n - 1][d[n].ref], d[n])
            BY <1>3, <4>1
          <5>2. m[n][d[n].ref].digest = m[n - 1][d[n].ref].digest /\ d[n].ref \in DOMAIN m[n]
            BY <1>4, <4>1
          <5> QED BY <3>1, <5>1, <5>2 DEF Contradicts
        <4>2. CASE d[n].ref \notin DOMAIN m[n - 1]
          BY <1>4, <3>1, <4>2 DEF Contradicts
        <4> QED BY <4>1, <4>2
      <3>2. CASE j # n
        <4>1. j \in 1 .. n - 1
          BY <1>1, <3>2
        <4>2. d[j].ref \in DOMAIN m[n - 1] /\ ~Contradicts(m[n - 1][d[j].ref], d[j])
          BY <1>6, <4>1
        <4>3. m[n][d[j].ref].digest = m[n - 1][d[j].ref].digest /\ d[j].ref \in DOMAIN m[n]
          BY <1>4, <4>2
        <4> QED BY <4>2, <4>3 DEF Contradicts
      <3> QED BY <3>1, <3>2
    <2> QED BY <1>1, <2>1, <2>2
  <1>7. N \in S
    <2>1. N \in 0 .. N
      BY <1>1
    <2> HIDE DEF S
    <2> QED BY <1>1, <1>5, <1>6, <2>1, Induction
  <1> QED BY <1>1, <1>7 DEF Inventory, S, m, N, d

(* However many rows and kits a pack has, an inventory that raises nothing   *)
(* has every component an authority pins with the digest it pins, and every   *)
(* declared one uncontradicted (component_boundary.py 372-421).               *)
THEOREM InventoriesAreComplete == InventoryIsComplete
  <1> SUFFICES ASSUME NEW pack \in Packs, PinnedOnce(pack), ~BoundaryFails(pack)
               PROVE  LET inventory == Inventory(pack)
                      IN /\ \A i \in DOMAIN Incumbents(pack) :
                              LET c == Incumbents(pack)[i]
                              IN /\ c.ref \in DOMAIN inventory
                                 /\ inventory[c.ref].digest = c.digest
                         /\ \A i \in DOMAIN pack.declared :
                              LET row == pack.declared[i]
                              IN /\ row.ref \in DOMAIN inventory
                                 /\ ~Contradicts(inventory[row.ref], row)
    BY DEF InventoryIsComplete
  <1>1. ASSUME NEW i \in DOMAIN Incumbents(pack)
        PROVE  LET c == Incumbents(pack)[i]
               IN c.ref \in DOMAIN Inventory(pack) /\ Inventory(pack)[c.ref].digest = c.digest
    BY PinnedHolds, MergedHolds, MergedSteps
  <1> QED BY <1>1, MergedHolds
================================================================================
