------------------------- MODULE PackDistributionProofs -------------------------
(***************************************************************************)
(* What TLAPS proves of PackDistribution and of the gates of               *)
(* ReleaseVerification, for any consumers, archives, releases and builds.  *)
(***************************************************************************)
EXTENDS PackDistribution, FiniteSetTheorems, NaturalsInduction, WellFoundedInduction,
        TLAPS

Carrying == {"promoting", "moving", "recording", "writing"}
Replacing == {"staging", "rechecking", "verifying", "promoting", "moving"}

(* What an apply carries was planned, and verified under its policy.        *)
CarriesThePlan ==
  \A c \in Consumers :
    /\ pc[c] \in Applying => plan[c].op \in Changing /\ Applicable(c)
    /\ pc[c] \in Carrying =>
         /\ local[c].staged = plan[c].subject /\ local[c].staged \in Releases
         /\ local[c].require => PackOf[local[c].staged].set \in Trusted
    /\ pc[c] = "writing" => local[c].described \in Directories
    /\ outcome[c] # "none" => pc[c] = "done"

OneAtATime ==
  turns => \A c, e \in Consumers : pc[c] \in Busy /\ pc[e] \in Busy => c = e

(* The evidence names the release: its SBOM, and the set it attests.        *)
NamesRelease(refs, r) ==
  refs.sbom = SbomOf(PackOf[r]) /\ refs.provenance.subject = PackOf[r].set

Orderly == turns /\ moved = 0 /\ \A c \in Consumers : outcome[c] # "broken"

(* In turns the target is absent until an install moves its tree, and the   *)
(* receipt is that of the target whenever none is being written.            *)
TurnsTellTheTree ==
  Orderly =>
    /\ target \in Releases \cup {None}
    /\ \A c \in Consumers :
         /\ pc[c] \in Replacing => (plan[c].op = "install" <=> target = None)
         /\ pc[c] \in {"recording", "writing"} => target = local[c].staged
         /\ pc[c] = "writing" => receipt = Empty
    /\ target \in Releases /\ (\A c \in Consumers : pc[c] \notin {"recording", "writing"}) =>
         receipt \in ReceiptRecord /\ receipt.subject = target

(* A publisher that waits leaves the evidence an apply verified.            *)
CalmTellsTheEvidence ==
  Orderly /\ calm =>
    /\ \A c \in Consumers :
         /\ pc[c] \in Carrying => NamesRelease(RefsOf[evidence], local[c].staged)
         /\ pc[c] = "writing" => NamesRelease(RefsOf[local[c].described], local[c].staged)
    /\ target \in Releases /\ (\A c \in Consumers : pc[c] \notin {"recording", "writing"}) =>
         NamesRelease(receipt.evidence, target)

ReceiptInv ==
  /\ TypeOK
  /\ CarriesThePlan
  /\ ReceiptTellsAPromotion
  /\ OneAtATime
  /\ TurnsTellTheTree
  /\ CalmTellsTheEvidence
--------------------------------------------------------------------------------
(***************************************************************************)
(* The gates.                                                              *)
(***************************************************************************)

LEMMA BuildFacts ==
  ASSUME NEW b \in Builds
  PROVE  /\ ProfileOf(b).set = b.pack.set /\ ProfileOf(b).current
         /\ ProfileOf(b).name = b.pack.name /\ ProfileOf(b).version = b.pack.version
         /\ ProfileOf(b).sbom = IF b.published THEN SbomOf(b.pack) ELSE Missing
         /\ ProfileOf(b).provenance = IF b.published THEN ProvenanceOf(b) ELSE Missing
         /\ ProvenanceOf(b).subject = b.pack.set /\ ProvenanceOf(b).lock = b.pack.lock
         /\ SbomOf(b.pack).name = b.pack.name /\ SbomOf(b.pack).version = b.pack.version
         /\ SbomOf(b.pack).set = b.pack.set
         /\ EvidenceOf(b).profile = ProfileOf(b)
  BY DEF ProfileOf, ProvenanceOf, SbomOf, EvidenceOf

(* The documents that OwnEvidencePasses looks at are there.                 *)
LEMMA BuildsAreWhole ==
  ASSUME NEW b \in Builds
  PROVE  /\ ProfileOf(b) # Missing /\ SbomOf(b.pack) # Missing /\ ProvenanceOf(b) # Missing
         /\ ProvenanceDefects(ProvenanceOf(b), b.pack.name, b.pack.version, b.pack.set,
                              SbomOf(b.pack)) = {}
  <1>1. OwnEvidencePasses(b) /\ ProfileOf(b) # Missing
    BY DistributionAssumption
  <1>2. SbomOf(b.pack) # Missing
    BY <1>1 DEF OwnEvidencePasses, SbomDefects
  <1>3. ProvenanceOf(b) # Missing
    BY <1>1 DEF OwnEvidencePasses, ProvenanceDefects
  <1> QED BY <1>1, <1>2, <1>3 DEF OwnEvidencePasses

(* An accepted verification passed each core gate, and no gate failed.      *)
LEMMA GatesOf ==
  ASSUME NEW pack, NEW dir, NEW trusts
  PROVE  /\ Accepted(Verification(pack, dir, trusts)) =>
              /\ pack.static /\ pack.bound
              /\ PublicationGate(Loaded(dir).profile, pack) = "verified"
              /\ SbomGate(Loaded(dir).profile, Loaded(dir).sbom, pack) = "verified"
              /\ ProvenanceGate(Loaded(dir).profile, Loaded(dir).provenance, pack) = "verified"
         /\ Authenticated(Verification(pack, dir, trusts)) /\ pack.bound =>
              SignatureGate(trusts, pack) = "verified"
  <1> DEFINE v == Verification(pack, dir, trusts)
  <1>1. Accepted(v) => v["static"] = "verified" /\ v["content"] = "verified"
                       /\ v["publication"] = "verified" /\ v["sbom"] = "verified"
                       /\ v["provenance"] = "verified"
    BY DEF Accepted, CoreGates
  <1>2. /\ v["static"] = StaticGate(pack) /\ v["content"] = ContentGate(pack)
        /\ pack.bound =>
             /\ v["publication"] = PublicationGate(Loaded(dir).profile, pack)
             /\ v["sbom"] = SbomGate(Loaded(dir).profile, Loaded(dir).sbom, pack)
             /\ v["provenance"] =
                  ProvenanceGate(Loaded(dir).profile, Loaded(dir).provenance, pack)
             /\ v["signature"] = SignatureGate(trusts, pack)
    BY DEF Verification, CoreGates
  <1> QED BY <1>1, <1>2 DEF Authenticated, StaticGate, ContentGate

LEMMA AcceptedEvidence ==
  ASSUME NEW pack, NEW dir \in Mixtures, NEW trusts,
         Accepted(Verification(pack, dir, trusts))
  PROVE  /\ pack.static /\ pack.bound
         /\ \E b \in Builds :
              /\ b.published /\ b.pack.set = pack.set
              /\ dir.profile = ProfileOf(b) /\ Loaded(dir) = EvidenceOf(b)
  <1>1. /\ pack.static /\ pack.bound
        /\ PublicationGate(Loaded(dir).profile, pack) = "verified"
        /\ SbomGate(Loaded(dir).profile, Loaded(dir).sbom, pack) = "verified"
        /\ ProvenanceGate(Loaded(dir).profile, Loaded(dir).provenance, pack) = "verified"
    BY GatesOf
  <1>2. Loaded(dir).profile = dir.profile
    BY DEF Loaded
  <1>3. dir.profile # Missing /\ dir.profile.set = pack.set
    BY <1>1, <1>2 DEF PublicationGate
  <1>4. PICK b \in Builds : dir.profile = ProfileOf(b)
    BY <1>3 DEF Mixtures, EvidenceOf
  <1>5. /\ dir.profile.sbom # Missing /\ Loaded(dir).sbom = dir.profile.sbom
    BY <1>1, <1>2, <1>3 DEF SbomGate, Referred
  <1>6. /\ dir.profile.provenance # Missing
        /\ Loaded(dir).provenance = dir.profile.provenance
    BY <1>1, <1>2, <1>3 DEF ProvenanceGate, Referred
  <1>7. b.published /\ Loaded(dir).sbom = SbomOf(b.pack)
        /\ Loaded(dir).provenance = ProvenanceOf(b) /\ b.pack.set = pack.set
    BY <1>3, <1>4, <1>5, <1>6, BuildFacts
  <1>8. Loaded(dir) = EvidenceOf(b)
    BY <1>2, <1>4, <1>7 DEF Loaded, EvidenceOf
  <1> QED BY <1>1, <1>4, <1>7, <1>8

(* What a published build wrote passes the core gates of its own pack.      *)
LEMMA OwnEvidenceIsAccepted ==
  ASSUME NEW b \in Builds, b.published, b.pack.static, b.pack.bound,
         NEW dir, Loaded(dir) = EvidenceOf(b)
  PROVE  Accepted(Verification(b.pack, dir, Missing))
  <1> DEFINE pack == b.pack
             v == Verification(pack, dir, Missing)
             docs == EvidenceOf(b)
  <1>1. /\ docs.profile = ProfileOf(b) /\ docs.sbom = SbomOf(pack)
        /\ docs.provenance = ProvenanceOf(b)
    BY DEF EvidenceOf
  <1>2. /\ PublicationGate(docs.profile, pack) = "verified"
        /\ SbomGate(docs.profile, docs.sbom, pack) = "verified"
    BY <1>1, BuildFacts, BuildsAreWhole
    DEF PublicationGate, SbomGate, Referred, Names
  <1>3. ProvenanceGate(docs.profile, docs.provenance, pack) = "verified"
    BY <1>1, BuildFacts, BuildsAreWhole DEF ProvenanceGate, Referred
  <1>4. LockGate(docs.provenance, pack) # "failed"
    BY <1>1, BuildFacts, BuildsAreWhole DEF LockGate
  <1>5. SignatureGate(Missing, pack) = "unavailable"
    BY DEF SignatureGate
  <1>6. \A gate \in DOMAIN v :
          /\ v[gate] \in {"verified", "unavailable", "absent"}
          /\ gate \in CoreGates => v[gate] = "verified"
    BY <1>2, <1>3, <1>4, <1>5
       DEF Verification, CoreGates, StaticGate, ContentGate, LockGate
  <1>7. CoreGates \subseteq DOMAIN v
    BY DEF Verification, CoreGates
  <1> QED BY <1>6, <1>7 DEF Accepted

(* A release is accepted exactly with the evidence that one of its published *)
(* builds wrote (verify.py: the publication, SBOM and provenance gates):     *)
(* digests tell the packs of Builds apart, so no document can be swapped for *)
(* that of another build, and what is published is never refused.            *)
THEOREM VerdictsAreExact == VerdictIsExact
  <1> SUFFICES ASSUME NEW pack \in {b.pack : b \in Builds}, NEW dir \in Mixtures
               PROVE  Accepted(Verification(pack, dir, Missing)) <=>
                        /\ pack.static /\ pack.bound
                        /\ \E b \in Builds :
                             b.pack = pack /\ b.published /\ Loaded(dir) = EvidenceOf(b)
    BY DEF VerdictIsExact
  <1>1. \A b \in Builds : b.pack.set = pack.set => b.pack = pack
    BY EvidenceAssumption
  <1>2. ASSUME Accepted(Verification(pack, dir, Missing))
        PROVE  /\ pack.static /\ pack.bound
               /\ \E b \in Builds :
                    b.pack = pack /\ b.published /\ Loaded(dir) = EvidenceOf(b)
    BY <1>1, <1>2, AcceptedEvidence
  <1>3. ASSUME pack.static, pack.bound,
               NEW b \in Builds, b.pack = pack, b.published, Loaded(dir) = EvidenceOf(b)
        PROVE  Accepted(Verification(pack, dir, Missing))
    BY <1>3, OwnEvidenceIsAccepted
  <1> QED BY <1>2, <1>3

--------------------------------------------------------------------------------
(***************************************************************************)
(* The inductive invariant holds, action by action.                        *)
(***************************************************************************)

(* What an apply accepts is a release, its evidence names it, and its       *)
(* signature is one the verifier accepts.                                   *)
LEMMA VerdictFacts ==
  ASSUME NEW r \in Releases \cup {None}, NEW d \in Directories, NEW verifier \in BOOLEAN,
         Accepted(Verdicts[r][d][verifier])
  PROVE  /\ r \in Releases /\ NamesRelease(RefsOf[d], r)
         /\ Authenticated(Verdicts[r][d][verifier]) => PackOf[r].set \in Trusted
  <1> DEFINE pack == IF r = None THEN UnknownPack ELSE PackOf[r]
             trusts == Trusts(verifier)
             dir == DirectoryOf[d]
  <1>1. Verdicts[r][d][verifier] = Verification(pack, dir, trusts)
    BY DEF Verdicts
  <1>2. dir \in Mixtures
    BY EvidenceAssumption
  <1> HIDE DEF pack, trusts, dir
  <1>3. /\ pack.bound
        /\ \E b \in Builds :
             /\ b.published /\ b.pack.set = pack.set
             /\ dir.profile = ProfileOf(b) /\ Loaded(dir) = EvidenceOf(b)
    BY <1>1, <1>2, AcceptedEvidence
  <1>4. r \in Releases /\ pack = PackOf[r]
    BY <1>3, DistributionAssumption DEF pack
  <1>5. PICK b \in Builds : /\ b.published /\ b.pack.set = pack.set
                            /\ dir.profile = ProfileOf(b)
    BY <1>3
  <1>6. b.pack = PackOf[r]
    <2>1. b.pack.set = PackOf[r].set
      BY <1>4, <1>5
    <2> QED BY <1>4, <2>1, EvidenceAssumption
  <1>7. RefsOf[d].sbom = SbomOf(PackOf[r]) /\ RefsOf[d].provenance = ProvenanceOf(b)
    BY <1>5, <1>6, BuildFacts, BuildsAreWhole DEF RefsOf, Referred, dir
  <1>8. NamesRelease(RefsOf[d], r)
    BY <1>6, <1>7, BuildFacts DEF NamesRelease
  <1>9. ASSUME Authenticated(Verdicts[r][d][verifier]) PROVE PackOf[r].set \in Trusted
    <2>1. SignatureGate(trusts, pack) = "verified"
      BY <1>1, <1>3, <1>9, GatesOf
    <2>2. trusts # Missing /\ pack.set \in trusts
      BY <2>1 DEF SignatureGate
    <2> QED BY <1>4, <2>2 DEF trusts, Trusts
  <1> QED BY <1>4, <1>8, <1>9

LEMMA InitReceipt == Init => ReceiptInv
  <1> SUFFICES ASSUME Init PROVE ReceiptInv
    OBVIOUS
  <1>1. NoPlan \in Plan /\ NothingHeld \in Local
    BY DEF NoPlan, Plan, Changing, Routes, NothingHeld, Local
  <1>2. TypeOK
    BY <1>1, DistributionAssumption DEF Init, TypeOK, Receipts, Phases
  <1>3. CarriesThePlan /\ OneAtATime
    BY DEF Init, CarriesThePlan, OneAtATime, Applying, Carrying, Busy, Planning
  <1>4. receipt \notin ReceiptRecord /\ target \notin Releases
    BY ReceiptAssumption, DistributionAssumption DEF Init
  <1>5. TurnsTellTheTree /\ CalmTellsTheEvidence
    BY <1>4 DEF Init, TurnsTellTheTree, CalmTellsTheEvidence, Replacing, Carrying
  <1> QED BY <1>2, <1>3, <1>4, <1>5 DEF ReceiptInv, ReceiptTellsAPromotion

(* A step of one consumer that leaves the world alone.                      *)
LEMMA PrivateStep ==
  ASSUME ReceiptInv, UNCHANGED world, TypeOK', NEW c \in Consumers, pc[c] # "done",
         \A e \in Consumers \ {c} :
           /\ pc'[e] = pc[e] /\ outcome'[e] = outcome[e]
           /\ plan'[e] = plan[e] /\ local'[e] = local[e],
         pc'[c] \notin {"recording", "writing"},
         pc[c] \in {"recording", "writing"} => outcome'[c] = "broken",
         outcome'[c] # "none" => pc'[c] = "done",
         pc'[c] \in Busy => pc[c] \in Busy \/ MayStart,
         pc'[c] \in Applying => plan'[c].op \in Changing /\ Applicable(c)',
         pc'[c] \in Replacing /\ Orderly => (plan'[c].op = "install" <=> target = None),
         pc'[c] \in Carrying =>
           /\ local'[c].staged = plan'[c].subject /\ local'[c].staged \in Releases
           /\ local'[c].require => PackOf[local'[c].staged].set \in Trusted
           /\ Orderly /\ calm => NamesRelease(RefsOf[evidence], local'[c].staged)
  PROVE  ReceiptInv'
  <1>1. outcome[c] = "none" /\ (Orderly' => Orderly /\ outcome'[c] # "broken")
    BY DEF ReceiptInv, CarriesThePlan, Orderly, world, fixed
  <1>2. CarriesThePlan'
    BY DEF ReceiptInv, CarriesThePlan, Applicable
  <1>3. ReceiptTellsAPromotion'
    BY <1>1 DEF ReceiptInv, ReceiptTellsAPromotion, world
  <1>4. OneAtATime'
    BY DEF ReceiptInv, OneAtATime, world, fixed, MayStart, Quiet
  <1>5. TurnsTellTheTree'
    BY <1>1 DEF ReceiptInv, TurnsTellTheTree, world
  <1>6. CalmTellsTheEvidence'
    BY <1>1 DEF ReceiptInv, CalmTellsTheEvidence, world, fixed
  <1> QED BY <1>2, <1>3, <1>4, <1>5, <1>6 DEF ReceiptInv

(* The types of the two ways to leave a step.                               *)
LEMMA FailStep ==
  ASSUME ReceiptInv, NEW c \in Consumers, NEW result \in {"failed", "broken"},
         pc[c] # "done", pc[c] \in {"recording", "writing"} => result = "broken",
         UNCHANGED world, Fail(c, result)
  PROVE  ReceiptInv'
  <1>1. NoPlan \in Plan /\ NothingHeld \in Local
    BY DEF NoPlan, Plan, Changing, Routes, NothingHeld, Local
  <1>2. TypeOK
    BY DEF ReceiptInv
  <1>3. TypeOK'
    BY <1>1, <1>2 DEF TypeOK, Fail, Ended, world, fixed, Phases
  <1>4. pc'[c] = "done" /\ outcome'[c] = result
    BY <1>2 DEF TypeOK, Fail, Ended
  <1>5. \A e \in Consumers \ {c} :
           /\ pc'[e] = pc[e] /\ outcome'[e] = outcome[e]
           /\ plan'[e] = plan[e] /\ local'[e] = local[e]
    BY <1>2 DEF TypeOK, Fail, Ended
  <1>6. pc'[c] \notin Busy \cup Applying \cup Replacing \cup Carrying
    BY <1>4 DEF Busy, Planning, Applying, Replacing, Carrying
  <1> QED BY <1>3, <1>4, <1>5, <1>6, PrivateStep

(* A step to the next phase that may change what c alone holds.             *)
LEMMA GoStep ==
  ASSUME ReceiptInv, UNCHANGED world, NEW c \in Consumers, NEW phase \in Phases,
         NEW p \in Plan, NEW l \in Local, pc[c] \notin {"done", "recording", "writing"},
         Goto(c, phase), plan' = [plan EXCEPT ![c] = p], local' = [local EXCEPT ![c] = l],
         phase \notin {"recording", "writing"},
         phase \in Busy => pc[c] \in Busy \/ MayStart,
         phase \in Applying => p.op \in Changing /\ ~p.blocked /\ p.accepted,
         phase \in Replacing /\ Orderly => (p.op = "install" <=> target = None),
         phase \in Carrying =>
           /\ l.staged = p.subject /\ l.staged \in Releases
           /\ l.require => PackOf[l.staged].set \in Trusted
           /\ Orderly /\ calm => NamesRelease(RefsOf[evidence], l.staged)
  PROVE  ReceiptInv'
  <1>2. TypeOK
    BY DEF ReceiptInv
  <1>3. TypeOK'
    BY <1>2 DEF TypeOK, Goto, world, fixed
  <1>4. /\ pc'[c] = phase /\ outcome'[c] = outcome[c] /\ plan'[c] = p /\ local'[c] = l
        /\ outcome[c] = "none"
    BY <1>2 DEF TypeOK, Goto, ReceiptInv, CarriesThePlan
  <1>5. \A e \in Consumers \ {c} :
           /\ pc'[e] = pc[e] /\ outcome'[e] = outcome[e]
           /\ plan'[e] = plan[e] /\ local'[e] = local[e]
    BY <1>2 DEF TypeOK, Goto
  <1>6. phase \in Applying => Applicable(c)'
    BY <1>4 DEF Applicable
  <1> QED BY <1>3, <1>4, <1>5, <1>6, PrivateStep

LEMMA StagedFacts ==
  ASSUME NEW a \in Archives
  PROVE  /\ \A route \in Routes : StagedBy[route][a] \in Releases \cup {None, Refused}
         /\ StagedBy["repository"][a] \in Releases \cup {None}
  <1>1. \A files : /\ ReleaseWith(files) \in Releases \cup {None, Refused}
                   /\ files # Refused => ReleaseWith(files) \in Releases \cup {None}
    BY DEF ReleaseWith
  <1>2. StagedBy["repository"][a] = ReleaseWith(StagedTree(Unpacked[a]))
    BY DEF StagedBy, Routes
  <1> QED BY <1>1, <1>2, DistributionAssumption DEF StagedBy

(* What a plan and an apply hold, field by field.                           *)
LEMMA HeldFacts ==
  ASSUME TypeOK, NEW c \in Consumers
  PROVE  /\ plan[c] \in Plan /\ local[c] \in Local /\ NoPlan \in Plan
         /\ plan[c].route \in Routes /\ plan[c].subject \in Releases \cup {None}
         /\ plan = [plan EXCEPT ![c] = plan[c]] /\ local = [local EXCEPT ![c] = local[c]]
         /\ local[c].staged \in Releases \cup {None}
  <1>1. plan \in [Consumers -> Plan] /\ local \in [Consumers -> Local]
    BY DEF TypeOK
  <1>2. plan[c] \in Plan /\ local[c] \in Local /\ NoPlan \in Plan
    BY <1>1 DEF NoPlan, Plan, Changing, Routes
  <1>3. plan = [plan EXCEPT ![c] = plan[c]] /\ local = [local EXCEPT ![c] = local[c]]
    BY <1>1
  <1> QED BY <1>2, <1>3 DEF Plan, Local

(* A planning step goes to a phase before the apply.                        *)
LEMMA PlanningStep ==
  ASSUME ReceiptInv, UNCHANGED <<world, local>>, NEW c \in Consumers,
         pc[c] \in {"idle", "sampling", "resolving"}, pc[c] = "idle" => MayStart,
         NEW phase \in {"resolving", "sampling", "planned"}, NEW p \in Plan,
         Goto(c, phase), plan' = [plan EXCEPT ![c] = p]
  PROVE  ReceiptInv'
  <1>1. TypeOK
    BY DEF ReceiptInv
  <1>2. local' = [local EXCEPT ![c] = local[c]] /\ local[c] \in Local
    BY <1>1, HeldFacts
  <1>3. phase \in Phases /\ phase \notin Applying \cup Replacing \cup Carrying
    BY DEF Phases, Busy, Planning, Applying, Replacing, Carrying
  <1>4. pc[c] # "idle" => pc[c] \in Busy
    BY DEF Busy, Planning
  <1> QED BY <1>2, <1>3, <1>4, GoStep

LEMMA PlanStep ==
  ASSUME ReceiptInv, NEW c \in Consumers,
         \/ \E route \in Routes : PlanInstall(c, route) \/ PlanUpdate(c, route)
         \/ \E op \in ReadOnly : PlanReadOnly(c, op)
  PROVE  ReceiptInv'
  <1>1. TypeOK /\ NoPlan \in Plan
    BY HeldFacts DEF ReceiptInv
  <1>2. ASSUME NEW route \in Routes, PlanInstall(c, route)
        PROVE  ReceiptInv'
    <2> DEFINE p == [NoPlan EXCEPT !.route = route, !.blocked = (target # None)]
    <2>1. p \in Plan
      BY <1>1 DEF Plan
    <2> HIDE DEF p
    <2> QED BY <1>2, <2>1, PlanningStep DEF PlanInstall, p
  <1>3. ASSUME NEW route \in Routes, PlanUpdate(c, route)
        PROVE  ReceiptInv'
    <2> DEFINE p == [NoPlan EXCEPT !.op = "update", !.route = route, !.blocked = FALSE,
                                   !.prior = ReceiptSubject]
    <2>1. ReceiptSubject \in Releases \cup {None}
      BY DEF ReceiptSubject, ReceiptRecord
    <2>2. p \in Plan
      BY <1>1, <2>1 DEF Plan, Changing
    <2> QED BY <1>3, <2>2, PlanningStep DEF PlanUpdate
  <1>4. ASSUME NEW op \in ReadOnly, PlanReadOnly(c, op)
        PROVE  ReceiptInv'
    <2> DEFINE read == StagedBy["repository"][served]
               p == IF op = "publish"
                    THEN [NoPlan EXCEPT !.op = op, !.accepted = TRUE,
                                        !.blocked = ~Publishable(DirectoryOf[evidence])]
                    ELSE [NoPlan EXCEPT !.op = op, !.blocked = FALSE, !.subject = read,
                                        !.accepted = Accepted(Verdict(read, FALSE))]
    <2>1. read \in Releases \cup {None}
      BY <1>1, StagedFacts DEF TypeOK
    <2>2. /\ Accepted(Verdict(read, FALSE)) \in BOOLEAN
          /\ Publishable(DirectoryOf[evidence]) \in BOOLEAN
      BY DEF Accepted, Publishable
    <2>3. p \in Plan
      <3> HIDE DEF read
      <3> QED BY <1>1, <2>1, <2>2 DEF Plan
    <2> QED BY <1>4, <2>3, PlanningStep DEF PlanReadOnly
  <1> QED BY <1>2, <1>3, <1>4

LEMMA ResolveStep ==
  ASSUME ReceiptInv, NEW c \in Consumers, Resolve(c)
  PROVE  ReceiptInv'
  <1> DEFINE transport == IF plan[c].route = "archive" THEN served ELSE None
             p == [plan[c] EXCEPT !.transport = transport]
  <1>1. TypeOK
    BY DEF ReceiptInv
  <1>2. transport \in Archives \cup {None}
    BY <1>1 DEF TypeOK
  <1>3. p \in Plan
    BY <1>1, <1>2, HeldFacts DEF Plan
  <1>4. plan' = [plan EXCEPT ![c] = p]
    BY <1>1 DEF Resolve, TypeOK
  <1> QED BY <1>3, <1>4, PlanningStep DEF Resolve

LEMMA SampleStep ==
  ASSUME ReceiptInv, NEW c \in Consumers, Sample(c)
  PROVE  ReceiptInv'
  <1> DEFINE read == StagedBy[plan[c].route][served]
  <1>1. TypeOK
    BY DEF ReceiptInv
  <1>2. pc[c] = "sampling" /\ UNCHANGED world
    BY DEF Sample
  <1>3. CASE Fail(c, "failed")
    BY <1>2, <1>3, FailStep
  <1>4. ASSUME read # Refused, NEW verifier \in BOOLEAN,
               plan' = [plan EXCEPT ![c].subject = read,
                                    ![c].accepted = Accepted(Verdict(read, verifier))],
               Goto(c, IF plan[c].op = "install" THEN "planned" ELSE "resolving"),
               UNCHANGED local
        PROVE  ReceiptInv'
    <2> DEFINE ok == Accepted(Verdict(read, verifier))
               p == [plan[c] EXCEPT !.subject = read, !.accepted = ok]
    <2>1. read \in Releases \cup {None}
      BY <1>1, <1>4, StagedFacts, HeldFacts DEF TypeOK
    <2>2. ok \in BOOLEAN
      BY DEF Accepted
    <2> HIDE DEF read, ok
    <2>3. p \in Plan
      BY <1>1, <2>1, <2>2, HeldFacts DEF Plan
    <2>4. plan' = [plan EXCEPT ![c] = p]
      BY <1>1, <1>4 DEF TypeOK, ok
    <2> QED BY <1>2, <1>4, <2>3, <2>4, PlanningStep
  <1> QED BY <1>3, <1>4 DEF Sample

LEMMA ApplyStep ==
  ASSUME ReceiptInv, NEW c \in Consumers, NEW authorized \in BOOLEAN, Apply(c, authorized)
  PROVE  ReceiptInv'
  <1>1. TypeOK /\ pc[c] = "planned" /\ MayStart /\ UNCHANGED world
    BY DEF ReceiptInv, Apply
  <1>2. CASE Fail(c, "failed")
    BY <1>1, <1>2, FailStep
  <1>3. CASE Precondition(c, authorized) /\ Goto(c, "staging") /\ UNCHANGED <<plan, local>>
    <2>1. /\ plan[c].op \in Changing /\ ~plan[c].blocked /\ plan[c].accepted
          /\ plan[c].op = "install" <=> target = None
      BY <1>3 DEF Precondition, Applicable
    <2>2. "staging" \in Phases /\ "staging" \notin Carrying
      BY DEF Phases, Busy, Applying, Carrying
    <2>3. plan' = [plan EXCEPT ![c] = plan[c]] /\ local' = [local EXCEPT ![c] = local[c]]
      BY <1>1, <1>3, HeldFacts
    <2> QED BY <1>1, <1>3, <2>1, <2>2, <2>3, HeldFacts, GoStep
  <1> QED BY <1>2, <1>3 DEF Apply

(* A step of an apply that touches neither the target nor its receipt.      *)
LEMMA ApplyingStep ==
  ASSUME ReceiptInv, UNCHANGED <<world, plan>>, NEW c \in Consumers,
         pc[c] \in {"staging", "rechecking", "verifying", "promoting"},
         NEW phase \in {"rechecking", "verifying", "promoting", "moving"}, NEW l \in Local,
         Goto(c, phase), local' = [local EXCEPT ![c] = l],
         phase \in Carrying =>
           /\ l.staged = plan[c].subject /\ l.staged \in Releases
           /\ l.require => PackOf[l.staged].set \in Trusted
           /\ Orderly /\ calm => NamesRelease(RefsOf[evidence], l.staged)
  PROVE  ReceiptInv'
  <1>1. TypeOK
    BY DEF ReceiptInv
  <1>2. /\ plan[c].op \in Changing /\ ~plan[c].blocked /\ plan[c].accepted
        /\ Orderly => (plan[c].op = "install" <=> target = None)
    BY DEF ReceiptInv, CarriesThePlan, TurnsTellTheTree, Applicable, Applying, Replacing
  <1>3. phase \in Phases /\ pc[c] \in Busy
    BY DEF Phases, Busy, Applying
  <1>4. plan' = [plan EXCEPT ![c] = plan[c]] /\ plan[c] \in Plan
    BY <1>1, HeldFacts
  <1> QED BY <1>2, <1>3, <1>4, GoStep

LEMMA StageStep ==
  ASSUME ReceiptInv, NEW c \in Consumers, Stage(c)
  PROVE  ReceiptInv'
  <1> DEFINE read == StagedBy[plan[c].route][served]
             l == [local[c] EXCEPT !.staged = read]
  <1>1. TypeOK /\ pc[c] = "staging" /\ UNCHANGED world
    BY DEF ReceiptInv, Stage
  <1>2. CASE Fail(c, "failed")
    BY <1>1, <1>2, FailStep
  <1>3. CASE /\ read # Refused /\ local' = [local EXCEPT ![c].staged = read]
             /\ Goto(c, "rechecking") /\ UNCHANGED plan
    <2>1. read \in Releases \cup {None}
      BY <1>1, <1>3, StagedFacts, HeldFacts DEF TypeOK
    <2> HIDE DEF read
    <2>2. l \in Local
      BY <1>1, <2>1, HeldFacts DEF Local
    <2>3. local' = [local EXCEPT ![c] = l]
      BY <1>1, <1>3 DEF TypeOK
    <2> QED BY <1>1, <1>3, <2>2, <2>3, ApplyingStep DEF Carrying
  <1> QED BY <1>2, <1>3 DEF Stage

LEMMA RecheckStep ==
  ASSUME ReceiptInv, NEW c \in Consumers, Recheck(c)
  PROVE  ReceiptInv'
  <1>1. TypeOK /\ pc[c] = "rechecking" /\ UNCHANGED world
    BY DEF ReceiptInv, Recheck
  <1>2. CASE Fail(c, "failed")
    BY <1>1, <1>2, FailStep
  <1>3. CASE Goto(c, "verifying") /\ UNCHANGED <<plan, local>>
    <2>1. local' = [local EXCEPT ![c] = local[c]] /\ local[c] \in Local
      BY <1>1, <1>3, HeldFacts
    <2> QED BY <1>1, <1>3, <2>1, ApplyingStep DEF Carrying
  <1> QED BY <1>2, <1>3 DEF Recheck

LEMMA VerifyStep ==
  ASSUME ReceiptInv, NEW c \in Consumers, Verify(c)
  PROVE  ReceiptInv'
  <1>1. TypeOK /\ pc[c] = "verifying" /\ UNCHANGED world
    BY DEF ReceiptInv, Verify
  <1>2. CASE Fail(c, "failed")
    BY <1>1, <1>2, FailStep
  <1>3. ASSUME NEW require \in BOOLEAN, NEW verifier \in BOOLEAN,
               Promotable(c, require, verifier),
               local' = [local EXCEPT ![c].require = require],
               Goto(c, "promoting"), UNCHANGED plan
        PROVE  ReceiptInv'
    <2> DEFINE l == [local[c] EXCEPT !.require = require]
    <2>1. l \in Local /\ l.require = require /\ l.staged = local[c].staged
      BY <1>1, HeldFacts DEF Local
    <2>2. local' = [local EXCEPT ![c] = l]
      BY <1>1, <1>3 DEF TypeOK
    <2> HIDE DEF l
    <2>3. /\ local[c].staged \in Releases
          /\ NamesRelease(RefsOf[evidence], local[c].staged)
          /\ require => PackOf[local[c].staged].set \in Trusted
      BY <1>1, <1>3, HeldFacts, VerdictFacts DEF Promotable, Verdict, TypeOK
    <2>4. local[c].staged = plan[c].subject
      BY <1>3 DEF Promotable
    <2> QED BY <1>1, <1>3, <2>1, <2>2, <2>3, <2>4, ApplyingStep
  <1> QED BY <1>2, <1>3 DEF Verify

LEMMA PromoteStep ==
  ASSUME ReceiptInv, NEW c \in Consumers, Promote(c)
  PROVE  ReceiptInv'
  <1> DEFINE way == IF target = None THEN "noreplace" ELSE "exchange"
             l == [local[c] EXCEPT !.way = way]
  <1>1. TypeOK /\ pc[c] = "promoting"
    BY DEF ReceiptInv, Promote
  <1>2. l \in Local /\ l.require = local[c].require /\ l.staged = local[c].staged
    BY <1>1, HeldFacts DEF Local
  <1>3. local' = [local EXCEPT ![c] = l]
    BY <1>1 DEF Promote, TypeOK
  <1> HIDE DEF l
  <1>4. /\ local[c].staged = plan[c].subject /\ local[c].staged \in Releases
        /\ local[c].require => PackOf[local[c].staged].set \in Trusted
        /\ Orderly /\ calm => NamesRelease(RefsOf[evidence], local[c].staged)
    BY <1>1 DEF ReceiptInv, CarriesThePlan, CalmTellsTheEvidence, Carrying
  <1> QED BY <1>1, <1>2, <1>3, <1>4, ApplyingStep DEF Promote

LEMMA BreakStep ==
  ASSUME ReceiptInv, NEW c \in Consumers, Break(c)
  PROVE  ReceiptInv'
  BY FailStep DEF Break, Applying

(* The rename.  In turns nobody else is at work, so what it puts at the      *)
(* target is what the next step records.                                    *)
LEMMA MoveStep ==
  ASSUME ReceiptInv, NEW c \in Consumers, Move(c)
  PROVE  ReceiptInv'
  <1>1. TypeOK /\ pc[c] = "moving" /\ outcome[c] = "none"
        /\ UNCHANGED <<fixed, served, evidence, receipt, republished, moved>>
    BY DEF ReceiptInv, Move, CarriesThePlan
  <1>2. CASE Fail(c, "failed") /\ UNCHANGED target
    BY <1>1, <1>2, FailStep DEF world
  <1>3. CASE target' = local[c].staged /\ Goto(c, "recording") /\ UNCHANGED <<plan, local>>
    <2>1. /\ plan[c].op \in Changing /\ Applicable(c)
          /\ local[c].staged = plan[c].subject /\ local[c].staged \in Releases
          /\ local[c].require => PackOf[local[c].staged].set \in Trusted
          /\ Orderly /\ calm => NamesRelease(RefsOf[evidence], local[c].staged)
      BY <1>1 DEF ReceiptInv, CarriesThePlan, CalmTellsTheEvidence, Applying, Carrying
    <2>2. pc[c] \in Busy
      BY <1>1 DEF Busy, Applying
    <2>3. /\ pc'[c] = "recording" /\ UNCHANGED outcome
          /\ \A e \in Consumers \ {c} : pc'[e] = pc[e]
      BY <1>1, <1>3 DEF TypeOK, Goto
    <2>4. TypeOK'
      BY <1>1, <1>3, <2>1 DEF TypeOK, Goto, fixed, Phases, Busy, Applying
    <2>5. CarriesThePlan'
      BY <1>1, <1>3, <2>1, <2>3 DEF ReceiptInv, CarriesThePlan, Applicable
    <2>6. ReceiptTellsAPromotion'
      BY <1>1, <1>3, <2>3 DEF ReceiptInv, ReceiptTellsAPromotion
    <2>7. OneAtATime'
      BY <1>1, <2>2, <2>3 DEF ReceiptInv, OneAtATime, fixed
    <2>8. turns => \A e \in Consumers \ {c} : pc'[e] \notin Busy
      BY <2>2, <2>3 DEF ReceiptInv, OneAtATime
    <2>9. "recording" \notin Replacing /\ Replacing \cup Carrying \subseteq Busy
          /\ {"recording", "writing"} \subseteq Busy
      BY DEF Replacing, Carrying, Busy, Applying
    <2>10. Orderly' => Orderly /\ turns
      BY <1>1, <2>3 DEF Orderly, fixed
    <2>11. TurnsTellTheTree'
      BY <1>3, <2>1, <2>3, <2>8, <2>9, <2>10 DEF TurnsTellTheTree
    <2>12. CalmTellsTheEvidence'
      BY <1>1, <1>3, <2>1, <2>3, <2>8, <2>9, <2>10 DEF CalmTellsTheEvidence, fixed
    <2> QED BY <2>4, <2>5, <2>6, <2>7, <2>11, <2>12 DEF ReceiptInv
  <1> QED BY <1>2, <1>3 DEF Move

LEMMA RecordStep ==
  ASSUME ReceiptInv, NEW c \in Consumers, Record(c)
  PROVE  ReceiptInv'
  <1> DEFINE l == [local[c] EXCEPT !.described = evidence]
  <1>1. TypeOK /\ pc[c] = "recording" /\ outcome[c] = "none" /\ receipt' = Empty
        /\ UNCHANGED <<fixed, served, evidence, target, plan, republished, moved>>
    BY DEF ReceiptInv, Record, CarriesThePlan
  <1>2. l \in Local /\ l.require = local[c].require /\ l.staged = local[c].staged
        /\ l.described = evidence
    BY <1>1, HeldFacts DEF Local, TypeOK
  <1> HIDE DEF l
  <1>3. local' = [local EXCEPT ![c] = l]
    BY <1>1 DEF Record, TypeOK, l
  <1>4. /\ pc'[c] = "writing" /\ UNCHANGED outcome /\ local'[c] = l
        /\ \A e \in Consumers \ {c} : pc'[e] = pc[e] /\ local'[e] = local[e]
    BY <1>1, <1>3 DEF TypeOK, Record, Goto
  <1>5. TypeOK'
    BY <1>1, <1>2, <1>3
       DEF TypeOK, Record, Goto, fixed, Phases, Busy, Applying, Receipts
  <1>6. /\ plan[c].op \in Changing /\ Applicable(c)
        /\ l.staged = plan[c].subject /\ l.staged \in Releases
        /\ l.require => PackOf[l.staged].set \in Trusted
        /\ Orderly => target = l.staged
        /\ Orderly /\ calm => NamesRelease(RefsOf[evidence], l.staged)
    BY <1>1, <1>2
    DEF ReceiptInv, CarriesThePlan, TurnsTellTheTree, CalmTellsTheEvidence, Applying,
        Carrying
  <1>7. CarriesThePlan'
    BY <1>1, <1>2, <1>4, <1>6 DEF ReceiptInv, CarriesThePlan, Applicable, TypeOK
  <1>8. ReceiptTellsAPromotion'
    BY <1>1, ReceiptAssumption DEF ReceiptTellsAPromotion
  <1>9. pc[c] \in Busy /\ "writing" \notin Replacing /\ Replacing \cup Carrying \subseteq Busy
        /\ {"recording", "writing"} \subseteq Busy
    BY <1>1 DEF Replacing, Carrying, Busy, Applying
  <1>10. OneAtATime'
    BY <1>1, <1>4, <1>9 DEF ReceiptInv, OneAtATime, fixed
  <1>11. turns => \A e \in Consumers \ {c} : pc'[e] \notin Busy
    BY <1>4, <1>9 DEF ReceiptInv, OneAtATime
  <1>12. Orderly' => Orderly /\ turns
    BY <1>1, <1>4 DEF Orderly, fixed
  <1>13. TurnsTellTheTree'
    BY <1>1, <1>4, <1>6, <1>9, <1>11, <1>12 DEF ReceiptInv, TurnsTellTheTree
  <1>14. CalmTellsTheEvidence'
    BY <1>1, <1>2, <1>4, <1>6, <1>9, <1>11, <1>12 DEF CalmTellsTheEvidence, fixed
  <1> QED BY <1>5, <1>7, <1>8, <1>10, <1>13, <1>14 DEF ReceiptInv

(* Overlaid texts need two writers; in turns the receipt is that of c.      *)
LEMMA WriteStep ==
  ASSUME ReceiptInv, NEW c \in Consumers, WriteReceipt(c)
  PROVE  ReceiptInv'
  <1>0. pc[c] = "writing"
    BY DEF WriteReceipt
  <1>1. TypeOK /\ pc[c] = "writing" /\ outcome[c] = "none"
        /\ UNCHANGED <<fixed, served, evidence, target, plan, republished, moved>>
        /\ \/ receipt' = Written(c)
           \/ receipt \notin {Empty, Written(c)} /\ receipt' = Unreadable
    <2>1. TypeOK /\ outcome[c] = "none"
      BY <1>0 DEF ReceiptInv, CarriesThePlan
    <2>2. UNCHANGED <<fixed, served, evidence, target, plan, republished, moved>>
      BY DEF WriteReceipt
    <2>3. \/ receipt' = Written(c)
          \/ receipt \notin {Empty, Written(c)} /\ receipt' = Unreadable
      BY DEF WriteReceipt
    <2> QED BY <1>0, <2>1, <2>2, <2>3
  <1>2. /\ pc' = [pc EXCEPT ![c] = "done"] /\ outcome' = [outcome EXCEPT ![c] = "ok"]
        /\ local' = [local EXCEPT ![c] = NothingHeld]
    BY DEF WriteReceipt, Ended
  <1>3. /\ pc'[c] = "done" /\ outcome'[c] = "ok"
        /\ \A e \in Consumers \ {c} :
             pc'[e] = pc[e] /\ outcome'[e] = outcome[e] /\ local'[e] = local[e]
    BY <1>1, <1>2 DEF TypeOK
  <1>4. /\ local[c].staged = plan[c].subject /\ local[c].staged \in Releases
        /\ local[c].described \in Directories
        /\ Orderly => target = local[c].staged /\ receipt = Empty
        /\ Orderly /\ calm => NamesRelease(RefsOf[local[c].described], local[c].staged)
    BY <1>1
       DEF ReceiptInv, CarriesThePlan, TurnsTellTheTree, CalmTellsTheEvidence, Carrying
  <1>5. /\ Written(c) \in ReceiptRecord /\ Written(c).subject = local[c].staged
        /\ Written(c).transport = plan[c].transport
        /\ Written(c).evidence = RefsOf[local[c].described]
    <2>1. plan[c].transport \in Archives \cup {None}
      BY <1>1, HeldFacts DEF Plan
    <2> QED BY <1>4, <2>1 DEF Written, ReceiptOf, ReceiptRecord
  <1>6. NothingHeld \in Local
    BY DEF NothingHeld, Local
  <1>7. TypeOK'
    BY <1>1, <1>2, <1>5, <1>6 DEF TypeOK, fixed, Phases, Receipts
  <1>8. CarriesThePlan'
    BY <1>1, <1>3 DEF ReceiptInv, CarriesThePlan, Applicable, Applying, Carrying
  <1>9. ReceiptTellsAPromotion'
    BY <1>1, <1>3, <1>4, <1>5, ReceiptAssumption DEF ReceiptTellsAPromotion
  <1>10. pc[c] \in Busy /\ "done" \notin Busy /\ Replacing \cup Carrying \subseteq Busy
         /\ {"recording", "writing"} \subseteq Busy
    BY <1>1 DEF Replacing, Carrying, Busy, Planning, Applying
  <1>11. OneAtATime'
    BY <1>1, <1>3, <1>10 DEF ReceiptInv, OneAtATime, fixed
  <1>12. turns => \A e \in Consumers : pc'[e] \notin Busy
    BY <1>3, <1>10 DEF ReceiptInv, OneAtATime
  <1>13. Orderly' => Orderly /\ turns
    BY <1>1, <1>3 DEF Orderly, fixed
  <1>14. TurnsTellTheTree'
    BY <1>1, <1>4, <1>5, <1>10, <1>12, <1>13 DEF TurnsTellTheTree
  <1>15. CalmTellsTheEvidence'
    BY <1>1, <1>4, <1>5, <1>10, <1>12, <1>13 DEF CalmTellsTheEvidence, fixed
  <1> QED BY <1>7, <1>8, <1>9, <1>11, <1>14, <1>15 DEF ReceiptInv

LEMMA PublisherStep ==
  ASSUME ReceiptInv, Republish
  PROVE  ReceiptInv'
  <1>1. /\ UNCHANGED <<fixed, target, receipt, pc, outcome, plan, local, moved>>
        /\ calm => Quiet
    BY DEF Republish
  <1>2. TypeOK'
    <2>1. served' \in Archives /\ evidence' \in Directories
      BY DEF ReceiptInv, TypeOK, Republish
    <2>2. republished' \in 0 .. Republications
      BY DistributionAssumption DEF ReceiptInv, TypeOK, Republish
    <2> QED BY <1>1, <2>1, <2>2 DEF ReceiptInv, TypeOK, fixed
  <1>3. CarriesThePlan' /\ ReceiptTellsAPromotion' /\ OneAtATime'
    BY <1>1
       DEF ReceiptInv, CarriesThePlan, Applicable, ReceiptTellsAPromotion, OneAtATime,
           fixed
  <1>4. TurnsTellTheTree'
    BY <1>1 DEF ReceiptInv, TurnsTellTheTree, Orderly, fixed
  <1>5. CalmTellsTheEvidence'
    BY <1>1
    DEF ReceiptInv, CalmTellsTheEvidence, Orderly, fixed, Quiet, Busy, Applying,
        Carrying
  <1> QED BY <1>2, <1>3, <1>4, <1>5 DEF ReceiptInv

LEMMA UserStep ==
  ASSUME ReceiptInv, UserMove
  PROVE  ReceiptInv'
  <1>1. UNCHANGED <<fixed, served, evidence, receipt, pc, outcome, plan, local, republished>>
        /\ moved' = moved + 1 /\ moved < UserMoves /\ target' \in {None, Foreign}
    BY DEF UserMove
  <1>2. TypeOK'
    BY <1>1, DistributionAssumption DEF ReceiptInv, TypeOK, fixed
  <1>3. ~Orderly'
    BY <1>1, <1>2 DEF ReceiptInv, TypeOK, Orderly
  <1>4. CarriesThePlan' /\ ReceiptTellsAPromotion' /\ OneAtATime'
    BY <1>1
       DEF ReceiptInv, CarriesThePlan, Applicable, ReceiptTellsAPromotion, OneAtATime,
           fixed
  <1> QED BY <1>2, <1>3, <1>4 DEF ReceiptInv, TurnsTellTheTree, CalmTellsTheEvidence

LEMMA StepReceipt == ReceiptInv /\ [Next]_vars => ReceiptInv'
  <1> SUFFICES ASSUME ReceiptInv, [Next]_vars PROVE ReceiptInv'
    OBVIOUS
  <1>1. ASSUME NEW c \in Consumers, ConsumerStep(c) PROVE ReceiptInv'
    BY <1>1, PlanStep, ResolveStep, SampleStep, ApplyStep, StageStep, RecheckStep,
       VerifyStep,
       PromoteStep, MoveStep, RecordStep, WriteStep, BreakStep
    DEF ConsumerStep
  <1>2. CASE UNCHANGED vars
    BY <1>2
    DEF ReceiptInv, vars, world, fixed, TypeOK, CarriesThePlan, Applicable, OneAtATime,
        ReceiptTellsAPromotion, TurnsTellTheTree, CalmTellsTheEvidence, Orderly
  <1> QED BY <1>1, <1>2, PublisherStep, UserStep DEF Next

(* Whatever consumers, users and the publisher do: an apply carries what its *)
(* plan resolved, and what the receipt says was promoted (distribution.py    *)
(* 700-830).                                                                 *)
THEOREM ReceiptInvariant == Spec => []ReceiptInv
  BY InitReceipt, StepReceipt, PTL DEF Spec

--------------------------------------------------------------------------------
(***************************************************************************)
(* What it says of the code.                                               *)
(***************************************************************************)

(* Every variable keeps its type: what is at the target is a release, a     *)
(* tree of the user, or nothing, and the receipt is one of the four texts   *)
(* that write_receipt can leave.                                            *)
THEOREM TypeCorrect == Spec => []TypeOK
  BY ReceiptInvariant, PTL DEF ReceiptInv

(* For any number of consumers, faults and republications: a readable       *)
(* receipt is that of an apply that succeeded (distribution.py 822-830).    *)
THEOREM ReceiptsTellPromotions == Spec => []ReceiptTellsAPromotion
  BY ReceiptInvariant, PTL DEF ReceiptInv

(* When consumers take turns and applies end, the receipt names the tree    *)
(* at the target; when the publisher waits too, it names its evidence       *)
(* (docs/public/distribution.md 103-105).                                   *)
THEOREM ReceiptsTellTheTree == Spec => []ReceiptTellsTheTree
  <1>1. ReceiptInv => ReceiptTellsTheTree
    <2> SUFFICES ASSUME ReceiptInv, Undisturbed, Quiet, target \in Releases
                 PROVE  /\ receipt \in ReceiptRecord /\ receipt.subject = target
                        /\ calm => NamesRelease(receipt.evidence, target)
      BY DEF ReceiptTellsTheTree, NamesRelease
    <2>1. Orderly /\ \A c \in Consumers : pc[c] \notin {"recording", "writing"}
      BY DEF Undisturbed, Orderly, Quiet, Busy, Applying
    <2> QED BY <2>1 DEF ReceiptInv, TurnsTellTheTree, CalmTellsTheEvidence
  <1> QED BY <1>1, ReceiptInvariant, PTL

(* Only a tree that an applicable plan resolved, authenticated unless the   *)
(* caller opted out, reaches the target, and in turns an install replaces   *)
(* nothing (distribution.py 708-758).                                       *)
THEOREM PromotionsAreAuthorized == Spec => PromotionIsAuthorized
  <1> DEFINE Authorized ==
        \A c \in Consumers : Promotes(c) =>
          /\ plan[c].op \in Changing /\ Applicable(c)
          /\ target' = plan[c].subject
          /\ local[c].require => PackOf[target'].set \in Trusted
          /\ Undisturbed /\ plan[c].op = "install" => target = None
  <1>1. ReceiptInv /\ [Next]_vars => Authorized
    <2> SUFFICES ASSUME ReceiptInv, [Next]_vars, NEW c \in Consumers, Promotes(c)
                 PROVE  /\ plan[c].op \in Changing /\ Applicable(c)
                        /\ target' = plan[c].subject
                        /\ local[c].require => PackOf[target'].set \in Trusted
                        /\ Undisturbed /\ plan[c].op = "install" => target = None
      OBVIOUS
    <2>1. pc[c] = "moving" /\ pc'[c] = "recording" /\ TypeOK
      BY DEF Promotes, ReceiptInv
    <2>2. /\ plan[c].op \in Changing /\ Applicable(c)
          /\ local[c].staged = plan[c].subject
          /\ local[c].require => PackOf[local[c].staged].set \in Trusted
          /\ Orderly => (plan[c].op = "install" <=> target = None)
      BY <2>1
         DEF ReceiptInv, CarriesThePlan, TurnsTellTheTree, Applying, Carrying, Replacing
    <2>3. Move(c)
      <3>1. PICK e \in Consumers : ConsumerStep(e)
        BY <2>1 DEF Next, Republish, UserMove, vars
      <3>2. c = e
        BY <2>1, <3>1
        DEF TypeOK, ConsumerStep, PlanInstall, PlanUpdate, PlanReadOnly, Resolve,
            Sample, Apply,
            Stage, Recheck, Verify, Promote, Move, Record, WriteReceipt, Break, Goto, Fail, Ended
      <3> QED BY <2>1, <3>1, <3>2
        DEF TypeOK, ConsumerStep, PlanInstall, PlanUpdate, PlanReadOnly, Resolve,
            Sample, Apply,
            Stage, Recheck, Verify, Promote, Record, WriteReceipt, Break, Fail, Ended
    <2>4. target' = local[c].staged
      BY <2>1, <2>3 DEF Move, Fail, Ended, TypeOK
    <2> QED BY <2>2, <2>4 DEF Undisturbed, Orderly
  <1> QED BY <1>1, ReceiptInvariant, PTL DEF Spec, PromotionIsAuthorized

--------------------------------------------------------------------------------
(***************************************************************************)
(* Induction along a sequence, and what a function defined by recursion    *)
(* along one computes.                                                     *)
(***************************************************************************)

(* A set of numbers has a least one.                                        *)
LEMMA Least ==
  ASSUME NEW S \in SUBSET Nat, S # {}
  PROVE  \E n \in S : \A m \in S : n <= m
  <1>1. IsWellFoundedOn(OpToRel(<, Nat), Nat)
    BY NatLessThanWellFounded
  <1>2. PICK n \in S : \A m \in S : <<m, n>> \notin OpToRel(<, Nat)
    BY <1>1, WFMin
  <1>3. \A m \in S : ~(m < n)
    BY <1>2 DEF OpToRel
  <1> QED BY <1>3

(* What holds of no element yet, and of one more with each step, holds of all. *)
LEMMA Induction ==
  ASSUME NEW N \in Nat, NEW S, 0 \in S, \A n \in 1 .. N : n - 1 \in S => n \in S
  PROVE  0 .. N \subseteq S
  <1> SUFFICES ASSUME (0 .. N) \ S # {} PROVE FALSE
    OBVIOUS
  <1>1. (0 .. N) \ S \in SUBSET Nat
    OBVIOUS
  <1>2. PICK k \in (0 .. N) \ S : \A m \in (0 .. N) \ S : k <= m
    BY <1>1, Least
  <1>3. k # 0 /\ k \in 1 .. N /\ k - 1 \in 0 .. N /\ ~(k <= k - 1)
    BY <1>2
  <1> QED BY <1>2, <1>3

(* The first k values of the recursion that starts with base and takes step. *)
Follows(f, B, base, grow, k) ==
  /\ f \in [0 .. k -> B] /\ f[0] = base
  /\ \A n \in 1 .. k : f[n] = grow[<<f[n - 1], n>>]

LEMMA Recursion ==
  ASSUME NEW B, NEW base \in B, NEW N \in Nat, NEW grow \in [B \X (1 .. N) -> B]
  PROVE  \E f : Follows(f, B, base, grow, N)
  <1> DEFINE S == {k \in 0 .. N : \E f : Follows(f, B, base, grow, k)}
  <1>1. 0 \in S
    <2>1. Follows([n \in 0 .. 0 |-> base], B, base, grow, 0)
      BY DEF Follows
    <2> QED BY <2>1
  <1>2. ASSUME NEW k \in 1 .. N, k - 1 \in S PROVE k \in S
    <2>1. PICK f : Follows(f, B, base, grow, k - 1)
      BY <1>2
    <2> DEFINE g == [n \in 0 .. k |-> IF n = k THEN grow[<<f[k - 1], k>>] ELSE f[n]]
    <2>2. grow[<<f[k - 1], k>>] \in B
      BY <2>1 DEF Follows
    <2>3. g \in [0 .. k -> B] /\ g[0] = base
      BY <2>1, <2>2 DEF Follows
    <2>4. ASSUME NEW n \in 1 .. k PROVE g[n] = grow[<<g[n - 1], n>>]
      <3>1. n - 1 \in 0 .. k - 1 /\ n - 1 # k /\ n \in 0 .. k
        OBVIOUS
      <3>2. g[n - 1] = f[n - 1]
        BY <3>1
      <3>3. CASE n = k
        <4>1. g[n] = grow[<<f[k - 1], k>>]
          BY <3>1, <3>3
        <4> QED BY <3>2, <3>3, <4>1
      <3>4. CASE n # k
        <4>1. n \in 1 .. k - 1
          BY <3>4
        <4>2. g[n] = f[n]
          BY <3>1, <3>4
        <4>3. f[n] = grow[<<f[n - 1], n>>]
          BY <2>1, <4>1 DEF Follows
        <4> QED BY <3>2, <4>2, <4>3
      <3> QED BY <3>3, <3>4
    <2> HIDE DEF g
    <2>5. Follows(g, B, base, grow, k)
      BY <2>3, <2>4 DEF Follows
    <2> QED BY <2>5
  <1> HIDE DEF S
  <1>3. N \in S
    BY <1>1, <1>2, Induction
  <1> QED BY <1>3 DEF S

(* The lists a flattened list grows through, one for each list in it.       *)
LEMMA FlattenSteps ==
  ASSUME NEW C, NEW ss \in Seq(Seq(C))
  PROVE  \E f : /\ f \in [0 .. Len(ss) -> Seq(C)] /\ f[0] = <<>>
                /\ \A n \in 1 .. Len(ss) : f[n] = f[n - 1] \o ss[n]
                /\ FlattenSeq(ss) = f[Len(ss)]
  <1> DEFINE N == Len(ss)
             grow == [z \in Seq(C) \X (1 .. N) |-> z[1] \o ss[z[2]]]
  <1>1. N \in Nat /\ grow \in [Seq(C) \X (1 .. N) -> Seq(C)]
    OBVIOUS
  <1>2. ASSUME NEW x \in Seq(C), NEW n \in 1 .. N PROVE grow[<<x, n>>] = x \o ss[n]
    OBVIOUS
  <1>3. <<>> \in Seq(C) /\ \A n \in 1 .. N : ss[n] \in Seq(C)
    OBVIOUS
  <1> HIDE DEF grow
  <1>4. PICK f : Follows(f, Seq(C), <<>>, grow, N)
    <2> HIDE DEF N
    <2> QED BY <1>1, <1>3, Recursion
  <1>5. ASSUME NEW n \in 1 .. N
        PROVE  n - 1 \in 0 .. N /\ f[n - 1] \in Seq(C) /\ f[n] = f[n - 1] \o ss[n]
    <2> HIDE DEF N
    <2>1. n - 1 \in 0 .. N
      BY <1>1
    <2>2. f[n - 1] \in Seq(C) /\ f[n] = grow[<<f[n - 1], n>>]
      BY <1>4, <2>1 DEF Follows
    <2> QED BY <1>2, <2>1, <2>2
  <1>6. CASE N = 0
    <2>1. ss = <<>>
      BY <1>6
    <2> QED BY <1>4, <1>6, <2>1 DEF Follows, FlattenSeq
  <1>7. CASE N # 0
    <2> DEFINE body(h) == [i \in 1 .. N |-> IF i = 1 THEN ss[i] ELSE h[i - 1] \o ss[i]]
               g == [i \in 1 .. N |-> f[i]]
               h == CHOOSE h : h = body(h)
    <2>1. f[1] = ss[1]
      <3>1. 1 \in 1 .. N /\ f[0] = <<>>
        BY <1>1, <1>4, <1>7 DEF Follows
      <3>2. ss[1] \in Seq(C) /\ 1 - 1 = 0
        BY <1>3, <3>1
      <3>3. f[1] = f[1 - 1] \o ss[1]
        BY <1>5, <3>1
      <3>4. ASSUME NEW x \in Seq(C) PROVE <<>> \o x = x
        OBVIOUS
      <3>5. f[1] = <<>> \o ss[1]
        BY <3>1, <3>2, <3>3
      <3> QED BY <3>2, <3>4, <3>5
    <2>2. ASSUME NEW i \in 1 .. N, i # 1 PROVE g[i] = g[i - 1] \o ss[i]
      <3>1. i - 1 \in 1 .. N
        BY <1>1, <2>2
      <3> QED BY <1>5, <3>1
    <2>3. g = body(g)
      BY <2>1, <2>2
    <2>4. h = body(h)
      <3> HIDE DEF g
      <3> QED BY <2>3
    <2>5. FlattenSeq(ss) = h[N]
      BY <1>7, Zenon DEF FlattenSeq
    <2> HIDE DEF h, g
    <2>6. ASSUME NEW i \in 1 .. N PROVE h[i] = IF i = 1 THEN ss[i] ELSE h[i - 1] \o ss[i]
      BY <2>4
    <2> DEFINE S == {n \in Nat : n # 0 => h[n] = f[n]}
    <2>7. ASSUME NEW n \in 1 .. N, n - 1 \in S PROVE n \in S
      <3>1. CASE n = 1
        BY <2>1, <2>6, <3>1
      <3>2. CASE n # 1
        <4>1. n - 1 \in 1 .. N /\ n \in Nat
          BY <1>1, <3>2
        <4>2. h[n - 1] = f[n - 1]
          BY <2>7, <4>1
        <4>3. h[n] = f[n]
          BY <1>5, <2>6, <3>2, <4>2
        <4> QED BY <4>1, <4>3
      <3> QED BY <3>1, <3>2
    <2>8. 0 \in S
      OBVIOUS
    <2>9. N \in S
      <3> HIDE DEF S, N
      <3>1. N \in 0 .. N
        BY <1>1
      <3> QED BY <1>1, <2>7, <2>8, <3>1, Induction
    <2>10. FlattenSeq(ss) = f[N]
      BY <1>7, <2>5, <2>9
    <2> QED BY <1>4, <1>5, <2>10 DEF Follows
  <1> QED BY <1>6, <1>7

--------------------------------------------------------------------------------
(***************************************************************************)
(* The two routes.                                                         *)
(***************************************************************************)

Member(tree, p) == [name |-> p, kind |-> "file", content |-> tree[p].content]
Members == [name : Paths, kind : {"file"}, content : Contents]

(* The members that the archive grows through, path by path.                *)
Exported(tree, e) ==
  /\ e \in [0 .. Len(PathOrder) -> Seq(Members)] /\ e[0] = <<>>
  /\ \A n \in 1 .. Len(PathOrder) :
       e[n] = e[n - 1] \o (IF PathOrder[n] \in Regular(tree)
                           THEN <<Member(tree, PathOrder[n])>> ELSE <<>>)
  /\ Export(tree) = e[Len(PathOrder)]

LEMMA Order ==
  /\ Len(PathOrder) \in Nat /\ DOMAIN PathOrder = 1 .. Len(PathOrder)
  /\ \A n \in 1 .. Len(PathOrder) : PathOrder[n] \in Paths
  /\ Paths = {PathOrder[n] : n \in 1 .. Len(PathOrder)}
  BY ArchiveAssumption DEF Paths, ToSet

LEMMA ExportSteps ==
  ASSUME NEW tree \in Trees
  PROVE  \E e : Exported(tree, e)
  <1> DEFINE N == Len(PathOrder)
             Part(n) == IF PathOrder[n] \in Regular(tree)
                        THEN <<Member(tree, PathOrder[n])>> ELSE <<>>
             ss == [n \in DOMAIN PathOrder |-> Part(n)]
  <1>1. N \in Nat /\ DOMAIN PathOrder = 1 .. N
    BY Order
  <1>2. ASSUME NEW n \in 1 .. N PROVE Part(n) \in Seq(Members)
    <2>1. CASE PathOrder[n] \in Regular(tree)
      <3>1. Member(tree, PathOrder[n]) \in Members
        BY <2>1, Order, TreesAssumption DEF Member, Members, Regular
      <3>2. <<Member(tree, PathOrder[n])>> \in Seq(Members)
        BY <3>1
      <3> QED BY <2>1, <3>2
    <2>2. CASE PathOrder[n] \notin Regular(tree)
      BY <2>2
    <2> QED BY <2>1, <2>2
  <1>3. ss = [n \in 1 .. N |-> Part(n)]
    BY <1>1
  <1>4. \A n \in 1 .. N : ss[n] = Part(n)
    BY <1>1
  <1>5. Export(tree) = FlattenSeq(ss)
    BY DEF Export, Member
  <1> HIDE DEF N, Part, ss
  <1>6. ss \in Seq(Seq(Members)) /\ Len(ss) = N
    BY <1>1, <1>2, <1>3
  <1>7. PICK e : /\ e \in [0 .. Len(ss) -> Seq(Members)] /\ e[0] = <<>>
                 /\ \A n \in 1 .. Len(ss) : e[n] = e[n - 1] \o ss[n]
                 /\ FlattenSeq(ss) = e[Len(ss)]
    BY <1>6, FlattenSteps
  <1>8. \A n \in 1 .. N : e[n] = e[n - 1] \o Part(n)
    BY <1>4, <1>6, <1>7
  <1> QED BY <1>5, <1>6, <1>7, <1>8 DEF Exported, N, Part

(* What is exported so far stays at the front of the archive.               *)
LEMMA ExportGrows ==
  ASSUME NEW tree \in Trees, NEW e, Exported(tree, e), NEW n \in 0 .. Len(PathOrder)
  PROVE  /\ Len(e[n]) <= Len(Export(tree))
         /\ \A k \in 1 .. Len(e[n]) : Export(tree)[k] = e[n][k]
  <1> DEFINE N == Len(PathOrder)
             S == {d \in Nat : n + d <= N =>
                     /\ Len(e[n]) <= Len(e[n + d])
                     /\ \A k \in 1 .. Len(e[n]) : e[n + d][k] = e[n][k]}
  <1>1. N \in Nat
    BY Order
  <1>2. /\ \A m \in 0 .. N : e[m] \in Seq(Members)
        /\ \A m \in 1 .. N : \/ e[m] = e[m - 1]
                             \/ e[m] = e[m - 1] \o <<Member(tree, PathOrder[m])>>
        /\ Export(tree) = e[N]
    <2>1. \A m \in 1 .. N : m - 1 \in 0 .. N
      BY <1>1
    <2>2. ASSUME NEW m \in 1 .. N
          PROVE  \/ e[m] = e[m - 1]
                 \/ e[m] = e[m - 1] \o <<Member(tree, PathOrder[m])>>
      <3>1. e[m - 1] \in Seq(Members)
        BY <2>1 DEF Exported
      <3>2. e[m - 1] \o <<>> = e[m - 1]
        BY <3>1
      <3> QED BY <3>2 DEF Exported
    <2> QED BY <2>2 DEF Exported
  <1>3. n \in 0 .. N
    OBVIOUS
  <1> HIDE DEF N
  <1>4. 0 \in S
    <2>1. n + 0 = n /\ Len(e[n]) \in Nat
      BY <1>1, <1>2, <1>3
    <2> QED BY <2>1
  <1>5. ASSUME NEW d \in 1 .. N, d - 1 \in S PROVE d \in S
    <2> SUFFICES ASSUME n + d <= N
                 PROVE  /\ Len(e[n]) <= Len(e[n + d])
                        /\ \A k \in 1 .. Len(e[n]) : e[n + d][k] = e[n][k]
      BY <1>1
    <2> DEFINE m == n + d
               s == e[m - 1]
               x == Member(tree, PathOrder[m])
    <2>1. m \in 1 .. N /\ m - 1 \in 0 .. N /\ n + (d - 1) = m - 1 /\ n + (d - 1) <= N
      BY <1>1, <1>3
    <2>2. Len(e[n]) <= Len(s) /\ \A k \in 1 .. Len(e[n]) : s[k] = e[n][k]
      BY <1>5, <2>1
    <2>3. e[m] = s \/ e[m] = s \o <<x>>
      BY <1>2, <2>1
    <2>4. s \in Seq(Members) /\ e[n] \in Seq(Members)
      BY <1>2, <1>3, <2>1
    <2> HIDE DEF s, x, m
    <2>5. Len(s) <= Len(s \o <<x>>) /\ \A k \in 1 .. Len(s) : (s \o <<x>>)[k] = s[k]
      BY <2>4
    <2>6. Len(s) \in Nat /\ Len(e[n]) \in Nat /\ Len(s \o <<x>>) \in Nat
      BY <2>4
    <2>7. CASE e[m] = s
      BY <2>2, <2>7 DEF m
    <2>8. CASE e[m] = s \o <<x>>
      <3>1. Len(e[n]) <= Len(e[m])
        BY <2>2, <2>5, <2>6, <2>8
      <3>2. ASSUME NEW k \in 1 .. Len(e[n]) PROVE e[m][k] = e[n][k]
        <4>1. k \in 1 .. Len(s)
          BY <2>2, <2>6
        <4> QED BY <2>2, <2>5, <2>8, <4>1
      <3> QED BY <3>1, <3>2 DEF m
    <2> QED BY <2>3, <2>7, <2>8
  <1>6. N - n \in S
    <2>1. N - n \in 0 .. N
      BY <1>1, <1>3
    <2> HIDE DEF S
    <2> QED BY <1>1, <1>4, <1>5, <2>1, Induction
  <1>7. n + (N - n) = N
    BY <1>1, <1>3
  <1> QED BY <1>1, <1>2, <1>6, <1>7

--------------------------------------------------------------------------------
(* A staging stays within what is staged of canonical paths and contents.     *)
LEMMA StageMemberType ==
  ASSUME NEW staging \in Stagings \cup {Refused}, NEW member \in Members
  PROVE  StageMember(staging, member) \in Stagings \cup {Refused}
  <1>1. CASE staging = Refused \/ staging.count = MaxCount \/ ~Admissible(staging, member)
    BY <1>1 DEF StageMember, Members
  <1>2. CASE staging \in Stagings /\ Admissible(staging, member)
    <2> DEFINE new == Extracted(staging, member)
               size == SizeOf[member.content]
    <2>1. size \in Nat /\ member.name \in Paths /\ member.content \in Contents
      BY ArchiveAssumption DEF Members
    <2>2. /\ staging.count \in Nat /\ staging.total \in Nat
          /\ DOMAIN staging.files \subseteq Paths
          /\ \A p \in DOMAIN staging.files : staging.files[p] \in Contents
      BY <1>2 DEF Stagings
    <2> HIDE DEF size
    <2> DEFINE files == [p \in DOMAIN staging.files \cup {member.name} |->
                           IF p = member.name THEN member.content ELSE staging.files[p]]
    <2>3. files \in [DOMAIN staging.files \cup {member.name} -> Contents]
      BY <2>1, <2>2
    <2>4. DOMAIN staging.files \cup {member.name} \in SUBSET Paths
      BY <2>1, <2>2
    <2>5. new = [count |-> staging.count + 1, total |-> staging.total + size, files |-> files]
      BY DEF Extracted, size
    <2> HIDE DEF files, new
    <2>6. files \in UNION {[T -> Contents] : T \in SUBSET Paths}
      BY <2>3, <2>4
    <2>7. new \in Stagings
      BY <2>1, <2>2, <2>5, <2>6 DEF Stagings
    <2> QED BY <2>7 DEF StageMember, new, Members
  <1> QED BY <1>1, <1>2

LEMMA StagingSteps ==
  ASSUME NEW archive \in Seq(Members)
  PROVE  /\ Staging(archive)[0] = NothingStaged
         /\ \A n \in 1 .. Len(archive) :
              Staging(archive)[n] = StageMember(Staging(archive)[n - 1], archive[n])
  <1> DEFINE N == Len(archive)
             B == Stagings \cup {Refused}
             grow == [z \in B \X (1 .. N) |-> StageMember(z[1], archive[z[2]])]
  <1>1. N \in Nat /\ \A n \in 1 .. N : archive[n] \in Members
    OBVIOUS
  <1>2. NothingStaged \in B
    <2>1. <<>> \in [{} -> Contents] /\ {} \in SUBSET Paths
      OBVIOUS
    <2>2. <<>> \in UNION {[T -> Contents] : T \in SUBSET Paths}
      BY <2>1
    <2> QED BY <2>2 DEF NothingStaged, Stagings
  <1>3. ASSUME NEW staging \in B, NEW n \in 1 .. N
        PROVE  StageMember(staging, archive[n]) \in B
    BY <1>1, StageMemberType
  <1> HIDE DEF N, B
  <1>4. ASSUME NEW staging \in B, NEW n \in 1 .. N
        PROVE  grow[<<staging, n>>] = StageMember(staging, archive[n])
    OBVIOUS
  <1>5. grow \in [B \X (1 .. N) -> B]
    BY <1>3
  <1> HIDE DEF grow
  <1>6. PICK f : Follows(f, B, NothingStaged, grow, N)
    BY <1>1, <1>2, <1>5, Recursion
  <1>7. f = [n \in 0 .. N |-> IF n = 0 THEN NothingStaged ELSE StageMember(f[n - 1], archive[n])]
    <2>1. ASSUME NEW n \in 1 .. N PROVE f[n] = StageMember(f[n - 1], archive[n])
      <3>1. n - 1 \in 0 .. N
        BY <1>1
      <3>2. f[n - 1] \in B
        BY <1>6, <3>1 DEF Follows
      <3> QED BY <1>4, <1>6, <3>2 DEF Follows
    <2> QED BY <1>6, <2>1 DEF Follows
  <1> DEFINE g == Staging(archive)
  <1>8. g = [n \in 0 .. N |-> IF n = 0 THEN NothingStaged ELSE StageMember(g[n - 1], archive[n])]
    BY <1>7 DEF Staging, N
  <1> HIDE DEF g
  <1>9. g[0] = NothingStaged /\ \A n \in 1 .. N : g[n] = StageMember(g[n - 1], archive[n])
    BY <1>1, <1>8
  <1> QED BY <1>9 DEF g, N

LEMMA BytesSteps ==
  ASSUME NEW files, \A p \in DOMAIN files : files[p] \in Contents
  PROVE  /\ Bytes(files)[0] = 0
         /\ \A n \in 1 .. Len(PathOrder) :
              /\ Bytes(files)[n - 1] \in Nat /\ Bytes(files)[n] \in Nat
              /\ Bytes(files)[n] = IF PathOrder[n] \in DOMAIN files
                                   THEN Bytes(files)[n - 1] + SizeOf[files[PathOrder[n]]]
                                   ELSE Bytes(files)[n - 1]
  <1> DEFINE N == Len(PathOrder)
             Next1(x, n) == IF PathOrder[n] \in DOMAIN files
                            THEN x + SizeOf[files[PathOrder[n]]] ELSE x
             grow == [z \in Nat \X (1 .. N) |-> Next1(z[1], z[2])]
  <1>1. N \in Nat
    BY Order
  <1>2. ASSUME NEW x \in Nat, NEW n \in 1 .. N PROVE Next1(x, n) \in Nat
    BY ArchiveAssumption
  <1> DEFINE b == Bytes(files)
             body(g) == [n \in 0 .. N |-> IF n = 0 THEN 0 ELSE Next1(g[n - 1], n)]
             h == CHOOSE g : g = body(g)
  <1>3. b = h
    BY Zenon DEF Bytes
  <1> HIDE DEF N, Next1, b
  <1>4. ASSUME NEW x \in Nat, NEW n \in 1 .. N PROVE grow[<<x, n>>] = Next1(x, n)
    OBVIOUS
  <1>5. grow \in [Nat \X (1 .. N) -> Nat]
    BY <1>2
  <1> HIDE DEF grow
  <1>6. PICK f : Follows(f, Nat, 0, grow, N)
    BY <1>1, <1>5, Recursion
  <1>7. ASSUME NEW n \in 1 .. N PROVE f[n] = Next1(f[n - 1], n)
    <2>1. n - 1 \in 0 .. N
      BY <1>1
    <2>2. f[n - 1] \in Nat
      BY <1>6, <2>1 DEF Follows
    <2> QED BY <1>4, <1>6, <2>2 DEF Follows
  <1>8. f = body(f)
    BY <1>6, <1>7 DEF Follows
  <1>9. h = body(h)
    <2> HIDE DEF body
    <2> QED BY <1>8
  <1> HIDE DEF h
  <1>10. b[0] = 0 /\ \A n \in 1 .. N : b[n] = Next1(b[n - 1], n)
    BY <1>1, <1>3, <1>9
  <1> DEFINE S == {n \in Nat : b[n] \in Nat}
  <1>11. 0 .. N \subseteq S
    <2>1. 0 \in S
      BY <1>10
    <2>2. ASSUME NEW n \in 1 .. N, n - 1 \in S PROVE n \in S
      <3>1. n \in Nat /\ b[n - 1] \in Nat /\ b[n] = Next1(b[n - 1], n)
        BY <1>1, <1>10, <2>2
      <3> QED BY <1>2, <3>1
    <2> HIDE DEF S
    <2> QED BY <1>1, <2>1, <2>2, Induction
  <1>12. \A n \in 1 .. N : n - 1 \in 0 .. N /\ n \in 0 .. N
    BY <1>1
  <1> QED BY <1>10, <1>11, <1>12 DEF b, N, Next1

--------------------------------------------------------------------------------
(* The files among the first n paths, and whether they are within the limits. *)
FilesTo(tree, n) == {PathOrder[i] : i \in 1 .. n} \cap Regular(tree)
FitTo(tree, n) ==
  /\ Cardinality(FilesTo(tree, n)) <= MaxCount
  /\ \A p \in FilesTo(tree, n) : SizeOf[StagedTree(tree)[p]] <= MaxMemberSize
  /\ Bytes(StagedTree(tree))[n] <= MaxTotalSize
StagedTo(tree, n) ==
  IF FitTo(tree, n)
  THEN [count |-> Cardinality(FilesTo(tree, n)), total |-> Bytes(StagedTree(tree))[n],
        files |-> [p \in FilesTo(tree, n) |-> StagedTree(tree)[p]]]
  ELSE Refused

LEMMA StagedTreeType ==
  ASSUME NEW tree \in Trees
  PROVE  /\ DOMAIN StagedTree(tree) = Regular(tree) /\ Regular(tree) \subseteq Paths
         /\ \A p \in Regular(tree) :
              /\ StagedTree(tree)[p] = tree[p].content
              /\ StagedTree(tree)[p] \in Contents /\ SizeOf[StagedTree(tree)[p]] \in Nat
  BY TreesAssumption, ArchiveAssumption DEF StagedTree, Regular

(* One more path: another file, or none.                                    *)
LEMMA OneMorePath ==
  ASSUME NEW tree \in Trees, NEW n \in 1 .. Len(PathOrder),
         IsFiniteSet(FilesTo(tree, n - 1))
  PROVE  /\ IsFiniteSet(FilesTo(tree, n))
         /\ Cardinality(FilesTo(tree, n - 1)) \in Nat
         /\ PathOrder[n] \notin Regular(tree) => FilesTo(tree, n) = FilesTo(tree, n - 1)
         /\ PathOrder[n] \in Regular(tree) =>
              /\ FilesTo(tree, n) = FilesTo(tree, n - 1) \cup {PathOrder[n]}
              /\ PathOrder[n] \notin FilesTo(tree, n - 1)
              /\ Cardinality(FilesTo(tree, n)) = Cardinality(FilesTo(tree, n - 1)) + 1
  <1> DEFINE A == FilesTo(tree, n - 1)
             B == FilesTo(tree, n)
             p == PathOrder[n]
  <1>1. Len(PathOrder) \in Nat /\ 1 .. n = (1 .. n - 1) \cup {n} /\ n \notin 1 .. n - 1
        /\ 1 .. n \subseteq DOMAIN PathOrder
    BY Order
  <1>2. Cardinality(A) \in Nat
    BY FS_CardinalityType
  <1>3. CASE p \notin Regular(tree)
    <2>1. B = A
      BY <1>1, <1>3 DEF FilesTo
    <2> QED BY <1>2, <1>3, <2>1
  <1>4. CASE p \in Regular(tree)
    <2>1. B = A \cup {p}
      BY <1>1, <1>4 DEF FilesTo
    <2>2. p \notin A
      BY <1>1, ArchiveAssumption DEF FilesTo
    <2> HIDE DEF A, B, p
    <2>3. IsFiniteSet(A)
      BY DEF A
    <2>4. IsFiniteSet(B) /\ Cardinality(B) = Cardinality(A) + 1
      BY <2>1, <2>2, <2>3, FS_AddElement
    <2> QED BY <1>2, <1>4, <2>1, <2>2, <2>4 DEF A, B, p
  <1> QED BY <1>3, <1>4

(* What is staged when a file is met, from what was staged before.          *)
LEMMA StagedNext ==
  ASSUME NEW tree \in Trees, NEW n \in 1 .. Len(PathOrder), PathOrder[n] \in Regular(tree),
         IsFiniteSet(FilesTo(tree, n - 1))
  PROVE  StageMember(StagedTo(tree, n - 1), Member(tree, PathOrder[n])) = StagedTo(tree, n)
  <1> DEFINE p == PathOrder[n]
             F == StagedTree(tree)
             A == FilesTo(tree, n - 1)
             B == FilesTo(tree, n)
             k == Cardinality(A)
             before == Bytes(F)[n - 1]
             after == Bytes(F)[n]
             size == SizeOf[F[p]]
             m == Member(tree, p)
  <1>1. B = A \cup {p} /\ p \notin A /\ Cardinality(B) = k + 1 /\ k \in Nat
    BY OneMorePath
  <1>2. p \in Paths /\ F[p] = tree[p].content /\ size \in Nat /\ A \subseteq Regular(tree)
    BY StagedTreeType DEF FilesTo
  <1>3. before \in Nat /\ after = before + size
    <2>1. \A q \in DOMAIN F : F[q] \in Contents
      BY StagedTreeType
    <2>2. p \in DOMAIN F
      BY StagedTreeType
    <2> HIDE DEF F
    <2> QED BY <2>1, <2>2, BytesSteps
  <1>4. m = [name |-> p, kind |-> "file", content |-> F[p]]
    BY <1>2 DEF Member
  <1>5. {MaxCount, MaxMemberSize, MaxTotalSize} \subseteq Nat /\ Refused \notin Stagings
    BY ArchiveAssumption
  <1>6. \A q \in A : SizeOf[F[q]] \in Nat /\ F[q] \in Contents /\ q \in Paths
    BY <1>2, StagedTreeType
  <1> DEFINE old == [count |-> k, total |-> before, files |-> [q \in A |-> F[q]]]
             new == [count |-> k + 1, total |-> after, files |-> [q \in B |-> F[q]]]
             fitted == /\ k <= MaxCount /\ before <= MaxTotalSize
                       /\ \A q \in A : SizeOf[F[q]] <= MaxMemberSize
  <1>7. StagedTo(tree, n - 1) = IF fitted THEN old ELSE Refused
    BY DEF StagedTo, FitTo
  <1>8. StagedTo(tree, n) = IF /\ k + 1 <= MaxCount /\ after <= MaxTotalSize
                               /\ \A q \in B : SizeOf[F[q]] <= MaxMemberSize
                            THEN new ELSE Refused
    BY <1>1 DEF StagedTo, FitTo
  <1>9. old # Refused
    <2>1. [q \in A |-> F[q]] \in [A -> Contents] /\ A \in SUBSET Paths
      BY <1>6
    <2>2. [q \in A |-> F[q]] \in UNION {[T -> Contents] : T \in SUBSET Paths}
      BY <2>1
    <2>3. old \in Stagings
      BY <1>1, <1>3, <2>2 DEF Stagings
    <2> QED BY <1>5, <2>3
  <1> HIDE DEF F, A, B, k, before, after, size, m, p
  <1>10. Extracted(old, m) = new
    <2>1. [q \in DOMAIN [r \in A |-> F[r]] \cup {p} |->
             IF q = p THEN F[p] ELSE [r \in A |-> F[r]][q]] = [q \in B |-> F[q]]
      BY <1>1
    <2> QED BY <1>3, <1>4, <2>1 DEF Extracted, size
  <1>11. Admissible(old, m) <=> size <= MaxMemberSize /\ after <= MaxTotalSize
    BY <1>1, <1>2, <1>3, <1>4 DEF Admissible, size
  <1>12. m.kind = "file"
    BY <1>4
  <1>13. old.count = k
    OBVIOUS
  <1>14. fitted /\ k # MaxCount /\ size <= MaxMemberSize /\ after <= MaxTotalSize <=>
           /\ k + 1 <= MaxCount /\ after <= MaxTotalSize
           /\ \A q \in B : SizeOf[F[q]] <= MaxMemberSize
    <2>1. (\A q \in B : SizeOf[F[q]] <= MaxMemberSize) <=>
            size <= MaxMemberSize /\ \A q \in A : SizeOf[F[q]] <= MaxMemberSize
      BY <1>1 DEF size
    <2>2. k <= MaxCount /\ k # MaxCount <=> k + 1 <= MaxCount
      BY <1>1, <1>5
    <2>3. after <= MaxTotalSize => before <= MaxTotalSize
      BY <1>2, <1>3, <1>5
    <2> QED BY <2>1, <2>2, <2>3
  <1> HIDE DEF old, new
  <1>15. CASE ~fitted
    BY <1>7, <1>8, <1>14, <1>15 DEF StageMember, m, p
  <1>16. CASE fitted
    <2>1. StageMember(old, m) = IF k = MaxCount THEN Refused
                                ELSE IF size <= MaxMemberSize /\ after <= MaxTotalSize
                                THEN new ELSE Refused
      BY <1>9, <1>10, <1>11, <1>12, <1>13 DEF StageMember
    <2>2. StagedTo(tree, n - 1) = old
      BY <1>7, <1>16
    <2> QED BY <1>8, <1>14, <1>16, <2>1, <2>2 DEF m, p
  <1> QED BY <1>15, <1>16

LEMMA StagedSoFar ==
  ASSUME NEW tree \in Trees
  PROVE  /\ IsFiniteSet(FilesTo(tree, Len(PathOrder)))
         /\ StagedArchive(Export(tree)) =
              LET end == StagedTo(tree, Len(PathOrder))
              IN IF end = Refused THEN Refused ELSE end.files
  <1>1. PICK e : Exported(tree, e)
    BY ExportSteps
  <1> DEFINE N == Len(PathOrder)
             archive == Export(tree)
             g == Staging(archive)
             S == {n \in Nat : /\ IsFiniteSet(FilesTo(tree, n))
                               /\ g[Len(e[n])] = StagedTo(tree, n)}
  <1>2. N \in Nat /\ archive \in Seq(Members) /\ archive = e[N] /\ e[0] = <<>>
    <2>1. N \in 0 .. N
      BY Order
    <2> QED BY <1>1, <2>1, Order DEF Exported
  <1>3. /\ g[0] = NothingStaged
        /\ \A k \in 1 .. Len(archive) : g[k] = StageMember(g[k - 1], archive[k])
    BY <1>2, StagingSteps
  <1>4. 0 \in S
    <2>1. FilesTo(tree, 0) = {}
      BY DEF FilesTo
    <2>2. Cardinality({}) = 0 /\ IsFiniteSet({})
      BY FS_EmptySet
    <2>3. Bytes(StagedTree(tree))[0] = 0
      <3>1. \A p \in DOMAIN StagedTree(tree) : StagedTree(tree)[p] \in Contents
        BY StagedTreeType
      <3> QED BY <3>1, BytesSteps
    <2>4. FitTo(tree, 0)
      <3>1. 0 <= MaxCount /\ 0 <= MaxTotalSize
        BY ArchiveAssumption
      <3> QED BY <2>1, <2>2, <2>3, <3>1 DEF FitTo
    <2>5. [p \in {} |-> StagedTree(tree)[p]] = <<>>
      OBVIOUS
    <2>6. StagedTo(tree, 0) = NothingStaged
      BY <2>1, <2>2, <2>3, <2>4, <2>5 DEF StagedTo, NothingStaged
    <2>7. Len(e[0]) = 0
      BY <1>2
    <2> QED BY <1>3, <2>1, <2>2, <2>6, <2>7
  <1>5. ASSUME NEW n \in 1 .. N, n - 1 \in S PROVE n \in S
    <2>1. n \in Nat /\ n - 1 \in 0 .. N /\ n \in 0 .. N
      BY <1>2
    <2>2. IsFiniteSet(FilesTo(tree, n - 1)) /\ g[Len(e[n - 1])] = StagedTo(tree, n - 1)
      BY <1>5
    <2>3. IsFiniteSet(FilesTo(tree, n))
      BY <2>2, OneMorePath
    <2>4. e[n - 1] \in Seq(Members)
      BY <1>1, <2>1 DEF Exported
    <2>5. CASE PathOrder[n] \notin Regular(tree)
      <3>1. e[n] = e[n - 1]
        <4>1. e[n] = e[n - 1] \o <<>>
          BY <1>1, <2>5 DEF Exported
        <4> QED BY <2>4, <4>1
      <3>2. StagedTo(tree, n) = StagedTo(tree, n - 1)
        <4>1. FilesTo(tree, n) = FilesTo(tree, n - 1)
          BY <2>2, <2>5, OneMorePath
        <4>2. Bytes(StagedTree(tree))[n] = Bytes(StagedTree(tree))[n - 1]
          <5>1. PathOrder[n] \notin DOMAIN StagedTree(tree)
                /\ \A p \in DOMAIN StagedTree(tree) : StagedTree(tree)[p] \in Contents
            BY <2>5, StagedTreeType
          <5> QED BY <5>1, BytesSteps
        <4> QED BY <4>1, <4>2 DEF StagedTo, FitTo
      <3> QED BY <2>1, <2>2, <2>3, <3>1, <3>2
    <2>6. CASE PathOrder[n] \in Regular(tree)
      <3> DEFINE x == Member(tree, PathOrder[n])
                 s == e[n - 1]
                 k == Len(s)
      <3>1. e[n] = s \o <<x>>
        BY <1>1, <2>6 DEF Exported
      <3>2. Len(e[n]) <= Len(archive) /\ \A j \in 1 .. Len(e[n]) : archive[j] = e[n][j]
        BY <1>1, <2>1, ExportGrows
      <3> HIDE DEF x, s
      <3>3. k \in Nat /\ Len(s \o <<x>>) = k + 1 /\ (s \o <<x>>)[k + 1] = x
        BY <2>4 DEF s
      <3> HIDE DEF archive, g
      <3>4. Len(e[n]) = k + 1 /\ k + 1 \in 1 .. Len(archive) /\ archive[k + 1] = x
        <4>1. Len(archive) \in Nat
          BY <1>2
        <4> QED BY <3>1, <3>2, <3>3, <4>1
      <3>5. g[k + 1] = StageMember(g[k], x)
        <4>1. (k + 1) - 1 = k
          BY <3>3
        <4> QED BY <1>3, <3>4, <4>1
      <3>6. g[k] = StagedTo(tree, n - 1)
        BY <2>2 DEF s, archive, g
      <3>7. StageMember(StagedTo(tree, n - 1), x) = StagedTo(tree, n)
        BY <2>2, <2>6, StagedNext DEF x
      <3>8. g[Len(e[n])] = StagedTo(tree, n)
        BY <3>4, <3>5, <3>6, <3>7
      <3> QED BY <2>1, <2>3, <3>8 DEF g, archive
    <2> QED BY <2>5, <2>6
  <1>6. N \in S
    <2>1. N \in 0 .. N
      BY <1>2
    <2> HIDE DEF S, N
    <2> QED BY <1>2, <1>4, <1>5, <2>1, Induction
  <1> QED BY <1>2, <1>6 DEF StagedArchive

(* Whatever regular files, links and sizes a tree has: the archive exported   *)
(* from it stages exactly what copying it stages, or is refused, and refused  *)
(* only when the limits are exceeded (distribution.py 206-364).               *)
THEOREM RoutesAlwaysAgree == RoutesAgree
  <1> SUFFICES ASSUME NEW tree \in Trees
               PROVE  StagedArchive(Export(tree)) =
                        IF WithinLimits(StagedTree(tree)) THEN StagedTree(tree) ELSE Refused
    BY DEF RoutesAgree
  <1> DEFINE N == Len(PathOrder)
             F == StagedTree(tree)
  <1>1. FilesTo(tree, N) = Regular(tree) /\ DOMAIN F = Regular(tree)
    BY StagedTreeType, Order DEF FilesTo
  <1>2. FitTo(tree, N) <=> WithinLimits(F)
    BY <1>1 DEF FitTo, WithinLimits
  <1>3. [p \in Regular(tree) |-> F[p]] = F
    BY DEF StagedTree
  <1>4. FitTo(tree, N) => StagedTo(tree, N) # Refused /\ StagedTo(tree, N).files = F
    <2> DEFINE c == Cardinality(Regular(tree))
               t == Bytes(F)[N]
    <2> SUFFICES ASSUME FitTo(tree, N)
                 PROVE  StagedTo(tree, N) # Refused /\ StagedTo(tree, N).files = F
      OBVIOUS
    <2>1. StagedTo(tree, N) = [count |-> c, total |-> t, files |-> F]
      BY <1>1, <1>3 DEF StagedTo
    <2>2. c \in Nat
      BY <1>1, StagedSoFar, FS_CardinalityType
    <2>3. t \in Nat
      <3>1. \A p \in DOMAIN F : F[p] \in Contents
        BY StagedTreeType
      <3> HIDE DEF F
      <3>2. N = 0 \/ N \in 1 .. N
        BY Order
      <3> QED BY <3>1, <3>2, BytesSteps
    <2>4. F \in UNION {[T -> Contents] : T \in SUBSET Paths}
      <3>1. F \in [Regular(tree) -> Contents] /\ Regular(tree) \in SUBSET Paths
        BY <1>3, StagedTreeType
      <3> QED BY <3>1
    <2> HIDE DEF c, t, F
    <2>5. [count |-> c, total |-> t, files |-> F] \in Stagings
      BY <2>2, <2>3, <2>4 DEF Stagings
    <2> QED BY <2>1, <2>5, ArchiveAssumption
  <1>5. ~FitTo(tree, N) => StagedTo(tree, N) = Refused
    BY DEF StagedTo
  <1> QED BY <1>2, <1>4, <1>5, StagedSoFar
================================================================================
