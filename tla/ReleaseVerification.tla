-------------------------- MODULE ReleaseVerification --------------------------
(***************************************************************************)
(* The evidence of a published release and the gates a consumer puts it    *)
(* through: sbom.py and release_provenance.py, which write and check the   *)
(* documents, and verify.py, which reads them back and judges.             *)
(*                                                                         *)
(* A document is a record and stands for its own digest.  A pack is what   *)
(* is staged: its identity, whether it passes static validation, whether   *)
(* its associated-artifact set binds, its lock and its components.         *)
(***************************************************************************)
EXTENDS FiniteSets

CONSTANT Missing   \* a document that is absent or cannot be read

--------------------------------------------------------------------------------
(* What a build writes.  `facts` is the build: [pack, revision, published].  *)
SbomOf(pack) ==
  [format |-> "cyclonedx", name |-> pack.name, version |-> pack.version,
   set |-> pack.set, components |-> pack.components]

ProvenanceOf(facts) ==
  [type |-> "pack-release", subject |-> facts.pack.set, name |-> facts.pack.name,
   version |-> facts.pack.version, revision |-> facts.revision,
   lock |-> facts.pack.lock, sbom |-> SbomOf(facts.pack)]

(* release.yaml refers to the evidence of a published build by digest. *)
ProfileOf(facts) ==
  [current |-> TRUE, name |-> facts.pack.name, version |-> facts.pack.version,
   set |-> facts.pack.set,
   sbom |-> IF facts.published THEN SbomOf(facts.pack) ELSE Missing,
   provenance |-> IF facts.published THEN ProvenanceOf(facts) ELSE Missing]

EvidenceOf(facts) ==
  [profile |-> ProfileOf(facts),
   sbom |-> IF facts.published THEN SbomOf(facts.pack) ELSE Missing,
   provenance |-> IF facts.published THEN ProvenanceOf(facts) ELSE Missing]

(* validate_sbom_document *)
SbomDefects(document, name, version, set, components) ==
  IF document = Missing THEN {"sbom.not-an-object"}
  ELSE {d \in {"sbom.format", "sbom.subject-mismatch", "sbom.subject-digest-mismatch",
               "sbom.coverage-missing"} :
          CASE d = "sbom.format" -> document.format # "cyclonedx"
            [] d = "sbom.subject-mismatch" ->
                 document.name # name \/ document.version # version
            [] d = "sbom.subject-digest-mismatch" -> document.set # set
            [] d = "sbom.coverage-missing" -> ~(components \subseteq document.components)}

(* validate_release_provenance, of what the consumer knows without it. *)
ProvenanceDefects(document, name, version, set, sbom) ==
  IF document = Missing THEN {"provenance.not-an-object"}
  ELSE {d \in {"provenance.type", "provenance.subject-mismatch",
               "provenance.pack-mismatch", "provenance.binding-missing",
               "provenance.sbom-digest-mismatch"} :
          CASE d = "provenance.type" -> document.type # "pack-release"
            [] d = "provenance.subject-mismatch" -> document.subject # set
            [] d = "provenance.pack-mismatch" ->
                 document.name # name \/ document.version # version
            [] d = "provenance.binding-missing" -> document.sbom = Missing
            [] d = "provenance.sbom-digest-mismatch" ->
                 document.sbom \notin {Missing, sbom}}

(* EvidenceRefused: release.py holds the documents it wrote to the same      *)
(* checks before it lets the build go on.                                    *)
OwnEvidencePasses(facts) ==
  LET p == facts.pack
  IN /\ SbomDefects(SbomOf(p), p.name, p.version, p.set, p.components) = {}
     /\ ProvenanceDefects(ProvenanceOf(facts), p.name, p.version, p.set, SbomOf(p)) = {}

--------------------------------------------------------------------------------
(* load_release_evidence: what the profile does not refer to is not read. *)
Loaded(dir) ==
  [profile |-> dir.profile,
   sbom |-> IF dir.profile = Missing \/ dir.profile.sbom = Missing THEN Missing
            ELSE dir.sbom,
   provenance |-> IF dir.profile = Missing \/ dir.profile.provenance = Missing
                  THEN Missing ELSE dir.provenance]

Names(document, pack) == document.name = pack.name /\ document.version = pack.version

(* _publication_gate *)
PublicationGate(profile, pack) ==
  CASE profile = Missing -> "absent"
    [] OTHER -> IF profile.current /\ Names(profile, pack) /\ profile.set = pack.set
                THEN "verified" ELSE "failed"

Referred(profile, key) == IF profile = Missing THEN Missing ELSE profile[key]

(* _sbom_gate *)
SbomGate(profile, document, pack) ==
  CASE Referred(profile, "sbom") = Missing -> "absent"
    [] Referred(profile, "sbom") # Missing /\ document = Missing -> "unverified"
    [] OTHER -> IF /\ document = Referred(profile, "sbom")
                   /\ Names(document, pack) /\ document.set = pack.set
                THEN "verified" ELSE "failed"

(* Defect: the provenance is not compared with the digest the release refers  *)
(* to.                                                                       *)
ProvenanceUnbound(profile, document, pack) ==
  CASE Referred(profile, "provenance") = Missing -> "absent"
    [] Referred(profile, "provenance") # Missing /\ document = Missing -> "unverified"
    [] OTHER -> IF ProvenanceDefects(document, pack.name, pack.version, pack.set,
                                     Referred(profile, "sbom")) = {}
                THEN "verified" ELSE "failed"

(* _provenance_gate *)
ProvenanceGate(profile, document, pack) ==
  CASE Referred(profile, "provenance") = Missing -> "absent"
    [] Referred(profile, "provenance") # Missing /\ document = Missing -> "unverified"
    [] OTHER -> IF /\ document = Referred(profile, "provenance")
                   /\ ProvenanceDefects(document, pack.name, pack.version, pack.set,
                                        Referred(profile, "sbom")) = {}
                THEN "verified" ELSE "failed"

(* _signature_gate: `trusts` are the subjects the injected verifier accepts, *)
(* Missing when there is no verifier.                                        *)
SignatureGate(trusts, pack) ==
  IF trusts = Missing THEN "unavailable"
  ELSE IF pack.set \in trusts THEN "verified" ELSE "failed"

(* _lock_gate *)
LockGate(document, pack) ==
  LET attested == IF document = Missing THEN Missing ELSE document.lock
  IN CASE pack.lock = Missing /\ attested = Missing -> "absent"
       [] pack.lock = attested /\ attested # Missing -> "verified"
       [] OTHER -> "failed"

CoreGates == {"static", "content", "publication", "sbom", "provenance"}

(* verify_pack_release: without a bound subject nothing else can be bound.   *)
(* No caller configures a verifier of module signatures.                     *)
StaticGate(pack) == IF pack.static THEN "verified" ELSE "failed"
ContentGate(pack) == IF pack.bound THEN "verified" ELSE "failed"

Verification(pack, dir, trusts) ==
  LET docs == Loaded(dir)
      bound == [publication |-> PublicationGate(docs.profile, pack),
                sbom |-> SbomGate(docs.profile, docs.sbom, pack),
                provenance |-> ProvenanceGate(docs.profile, docs.provenance, pack),
                signature |-> SignatureGate(trusts, pack),
                lock |-> LockGate(docs.provenance, pack),
                modules |-> "unavailable"]
  IN [gate \in CoreGates \cup DOMAIN bound |->
        CASE gate = "static" -> StaticGate(pack)
          [] gate = "content" -> ContentGate(pack)
          [] OTHER -> IF pack.bound THEN bound[gate] ELSE "absent"]

(* VerificationResult.accepted and .authenticated *)
Accepted(result) ==
  /\ \A gate \in DOMAIN result : result[gate] # "failed"
  /\ \A gate \in CoreGates : result[gate] = "verified"
Authenticated(result) == result.signature = "verified"

--------------------------------------------------------------------------------
(* plan_publish: a directory can be published when its profile names a set   *)
(* and has evidence; the documents themselves are not looked at.             *)
Publishable(dir) == dir.profile # Missing /\ dir.profile.provenance # Missing
================================================================================
