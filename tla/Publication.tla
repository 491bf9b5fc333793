------------------------------ MODULE Publication ------------------------------
(***************************************************************************)
(* publication.py: what a release profile claims to supply, joined back to *)
(* the artifact requirements the author wrote.                             *)
(*                                                                         *)
(* A requirement has an id, a posture, the artifacts it names (its exact   *)
(* one, candidates and locked inputs by id), the specifications it permits *)
(* by id, and its routes.  A publication row joins one requirement by its  *)
(* compiled address; its `selectors` map the selectors it carries to ids.  *)
(* A profile is the record violations are asked of:                        *)
(*   [rows, claims, availability, channels, identity, parent, bound, sets] *)
(* with parent "absent", "referenced" (no digest) or "digested".           *)
(***************************************************************************)
EXTENDS Naturals, FiniteSets

CONSTANTS Addresses,        \* well-formed compiled addresses
          DigestOf,         \* artifact -> digest
          GovernedArtifacts, GovernedMechanisms, \* what RAES's own models accept
          TrustedProfiles,  \* backend profiles of the corpus with a manifest contract
          Ambiguous,        \* an address two scenarios own
          Nothing           \* an absent artifact, mechanism, capability or set

(* authored_artifact_requirements: `scenarios` are the parsed SDL documents,  *)
(* each a function from owner addresses to requirements.                      *)
AuthoredRequirements(scenarios) ==
  [address \in UNION {DOMAIN s : s \in scenarios} |->
     LET owners == {s \in scenarios : address \in DOMAIN s}
     IN IF Cardinality(owners) = 1 THEN (CHOOSE s \in owners : TRUE)[address]
        ELSE Ambiguous]

(* _resolution_outcome *)
Resolution(claim, requirements) ==
  IF claim.address \notin Addresses THEN {"address-invalid"}
  ELSE IF claim.address \notin DOMAIN requirements THEN {"requirement-unknown"}
  ELSE IF requirements[claim.address] = Ambiguous THEN {"address-ambiguous"}
  ELSE IF requirements[claim.address].id # claim.requirement
       THEN {"requirement-id-mismatch"} ELSE {}

--------------------------------------------------------------------------------
(* Rows. *)
StructureViolations(row) ==
  {code \in {"artifact-invalid", "mechanism-invalid"} :
     \/ code = "artifact-invalid" /\ row.artifact \notin GovernedArtifacts \cup {Nothing}
     \/ code = "mechanism-invalid" /\ row.mechanism \notin GovernedMechanisms \cup {Nothing}}

MembershipViolations(row, members) ==
  IF row.artifact = Nothing \/ DigestOf[row.artifact] \in members[row.view]
  THEN {} ELSE {"artifact-not-in-view"}

(* _permitted_routes_for *)
PermittedRoutes(mechanism, requirement) ==
  {route \in requirement.routes : route.mechanism = mechanism}

RouteViolations(row, requirement) ==
  IF row.mechanism # Nothing /\ PermittedRoutes(row.mechanism, requirement) = {}
  THEN {"mechanism-unpermitted"} ELSE {}

(* Defect: a selector may relabel the exact artifact. *)
ExactByArtifact(row, requirement) ==
  IF row.artifact = requirement.exact THEN {} ELSE {"exact-substitution"}

(* _exact_violations *)
ExactViolations(row, requirement) ==
  IF DOMAIN row.selectors = {} /\ row.artifact = requirement.exact
       /\ requirement.exact # Nothing
  THEN {} ELSE {"exact-substitution"}

(* _candidate_violations and _locked_input_violations *)
NamedArtifactViolations(row, id, named) ==
  IF id \notin DOMAIN named THEN {"selector-unknown"}
  ELSE IF named[id] = row.artifact THEN {} ELSE {"artifact-mismatch"}

(* _specification_violations: the artifact of such a row is not looked at. *)
SpecificationViolations(row, id, named) ==
  IF id \notin DOMAIN named THEN {"selector-unknown"}
  ELSE IF named[id] = [digest |-> row.specification, mechanism |-> row.mechanism]
       THEN {} ELSE {"materialization-unpermitted"}

(* _constrained_violations, of a row with one selector at most. *)
ConstrainedViolations(row, requirement) ==
  CASE DOMAIN row.selectors = {} -> {"selector-missing"}
    [] DOMAIN row.selectors = {"candidate"} ->
         NamedArtifactViolations(row, row.selectors["candidate"], requirement.candidates)
    [] DOMAIN row.selectors = {"locked"} ->
         NamedArtifactViolations(row, row.selectors["locked"], requirement.locked)
    [] DOMAIN row.selectors = {"specification"} ->
         SpecificationViolations(row, row.selectors["specification"], requirement.specs)

(* _open_violations *)
OpenViolations(row) ==
  IF DOMAIN row.selectors = {} /\ row.artifact = Nothing THEN {} ELSE {"open-overreach"}

PostureViolations(row, requirement) ==
  CASE requirement.posture = "exact" -> ExactViolations(row, requirement)
    [] requirement.posture = "constrained" -> ConstrainedViolations(row, requirement)
    [] requirement.posture = "open" -> OpenViolations(row)

(* The loop over _rows in publication_violations. *)
RowViolations(row, requirements, members) ==
  IF Resolution(row, requirements) # {} THEN Resolution(row, requirements)
  ELSE LET requirement == requirements[row.address]
       IN MembershipViolations(row, members) \cup
            (IF StructureViolations(row) # {} THEN StructureViolations(row)
             ELSE IF Cardinality(DOMAIN row.selectors) > 1 THEN {"selector-ambiguous"}
             ELSE RouteViolations(row, requirement) \cup PostureViolations(row, requirement))

--------------------------------------------------------------------------------
(* Capability claims: _claim_violations and _capability_applies. *)
CapabilityApplies(capability, requirement) ==
  /\ "source-artifact" \in capability.kinds
  /\ \E route \in PermittedRoutes(capability.mechanism, requirement) :
       <<route.acquisition, route.timing>> \in capability.routes

ClaimViolations(claim, requirements) ==
  IF Resolution(claim, requirements) # {} THEN Resolution(claim, requirements)
  ELSE IF claim.capability = Nothing THEN {"capability-unproven"}
  ELSE IF claim.profile \notin TrustedProfiles THEN {"backend-profile-untrusted"}
  ELSE IF CapabilityApplies(claim.capability, requirements[claim.address])
       THEN {} ELSE {"capability-inapplicable"}

(* The profile as a whole. *)
Claiming(profile) ==
  {row.view : row \in profile.rows} \cup {claim.view : claim \in profile.claims}

(* _binding_violations *)
BindingViolations(profile) ==
  IF Claiming(profile) = {} THEN {}
  ELSE {code \in {"binding-missing", "view-set-missing"} :
          \/ code = "binding-missing" /\ ~(profile.bound /\ profile.parent = "digested")
          \/ /\ code = "view-set-missing"
             /\ \E view \in Claiming(profile) : profile.sets[view] = Nothing}

(* _availability_violations: an availability record is `secret` when one of   *)
(* its fields or references may carry a credential.                           *)
AvailabilityViolations(profile) ==
  IF \E record \in profile.availability : record.secret
  THEN {"availability-secret"} ELSE {}

(* _channel_violations *)
ChannelViolations(profile) ==
  IF profile.channels \subseteq {profile.identity} THEN {} ELSE {"channel-unresolved"}

PublicationViolations(profile, requirements, members) ==
  UNION {RowViolations(row, requirements, members) : row \in profile.rows}
    \cup UNION {ClaimViolations(claim, requirements) : claim \in profile.claims}
    \cup BindingViolations(profile)
    \cup AvailabilityViolations(profile)
    \cup ChannelViolations(profile)

--------------------------------------------------------------------------------
(* What an author's requirement admits, spelled out: pairs of the selectors a *)
(* row may carry and the artifact it then supplies.                           *)
NoSelector == [s \in {} |-> Nothing]
Admitted(requirement) ==
  CASE requirement.posture = "exact" ->
         {<<NoSelector, a>> : a \in {requirement.exact} \ {Nothing}}
    [] requirement.posture = "open" -> {<<NoSelector, Nothing>>}
    [] requirement.posture = "constrained" ->
         {<<[candidate |-> id], requirement.candidates[id]>> :
            id \in DOMAIN requirement.candidates}
         \cup {<<[locked |-> id], requirement.locked[id]>> :
                 id \in DOMAIN requirement.locked}
         \cup {<<[specification |-> id], a>> :
                 id \in DOMAIN requirement.specs, a \in GovernedArtifacts \cup {Nothing}}

AuthoredSpecification(row, requirement) ==
  "specification" \in DOMAIN row.selectors =>
    requirement.specs[row.selectors["specification"]] =
      [digest |-> row.specification, mechanism |-> row.mechanism]

Backed(row, requirements, members) ==
  /\ row.address \in DOMAIN requirements \cap Addresses
  /\ requirements[row.address] # Ambiguous
  /\ LET requirement == requirements[row.address]
     IN /\ requirement.id = row.requirement
        /\ <<row.selectors, row.artifact>> \in Admitted(requirement)
        /\ AuthoredSpecification(row, requirement)
        /\ row.mechanism # Nothing =>
             /\ row.mechanism \in GovernedMechanisms
             /\ \E route \in requirement.routes : route.mechanism = row.mechanism
  /\ row.artifact # Nothing =>
       row.artifact \in GovernedArtifacts /\ DigestOf[row.artifact] \in members[row.view]
================================================================================
