--------------------------- MODULE PackDistribution ---------------------------
(***************************************************************************)
(* distribution.py: planning an install or update and applying the plan.   *)
(*                                                                         *)
(* Several consumers work on one target directory.  What they read is not  *)
(* theirs: the publisher replaces the archive behind the selector and the  *)
(* release evidence whenever it likes, and the user may place or remove a  *)
(* tree at the target.  A plan records what it saw; an apply reads it all  *)
(* again, step by step, and writes the receipt only after the tree moved.  *)
(*                                                                         *)
(* An archive stands for its transport digest and a release for the set    *)
(* digest of its bytes (the "subject").  PackArchive says what a route     *)
(* stages, ReleaseVerification whether a staged release is accepted under  *)
(* the evidence directory as it is then.  The three documents are loaded   *)
(* one by one; since the publisher may leave any mixture of old and new    *)
(* files, loading such a mixture at once yields nothing else.              *)
(***************************************************************************)
EXTENDS ReleaseVerification, PackArchive

CONSTANTS Consumers,
          Archives,       \* archives by transport digest
          Packed,         \* archive -> its members
          Unpacked,       \* archive -> the pack tree it was exported from
          Releases,       \* releases by subject
          TreeOf,         \* release -> its files
          PackOf,         \* release -> what verification sees of it
          UnknownPack,    \* what it sees of any other tree
          Directories,    \* contents the evidence directory may have
          DirectoryOf,    \* contents -> its documents
          Trusted,        \* sets whose signature the configured verifier accepts
          Builds, Trees,  \* builds and pack trees the gates and routes are checked on
          Foreign,        \* a tree at the target that no apply promoted
          None,
          Empty,          \* a receipt truncated by write_text, not yet written
          Unreadable,     \* two receipts overlaid: not a JSON document
          Faults,         \* TRUE: an apply may die, a receipt fail to be written
          Republications, \* how often the publisher changes what it serves
          UserMoves       \* how often the user places or removes the target

ASSUME DistributionAssumption ==
  /\ DOMAIN Packed = Archives /\ DOMAIN Unpacked = Archives
  /\ DOMAIN TreeOf = Releases /\ DOMAIN PackOf = Releases
  /\ DOMAIN DirectoryOf = Directories
  /\ \A build \in Builds : OwnEvidencePasses(build) /\ ProfileOf(build) # Missing
  /\ \A archive \in Archives : StagedTree(Unpacked[archive]) # Refused
  /\ ~UnknownPack.bound     \* a tree with a set digest is a release
  /\ None \notin Archives \cup Releases
  /\ Foreign \notin Releases \cup {None}
  /\ Faults \in BOOLEAN
  /\ Republications \in Nat /\ UserMoves \in Nat

(* The members of a tree are at canonical paths. *)
ASSUME TreesAssumption ==
  \A tree \in Trees :
    /\ DOMAIN tree \subseteq Paths
    /\ \A p \in DOMAIN tree : tree[p].content \in Contents

(* Every mixture of the documents of the builds, or of missing ones. *)
Mixtures ==
  [profile : {EvidenceOf(b).profile : b \in Builds} \cup {Missing},
   sbom : {SbomOf(b.pack) : b \in Builds} \cup {Missing},
   provenance : {ProvenanceOf(b) : b \in Builds} \cup {Missing}]

(* The publisher serves what builds wrote, old and new files mixed, and a   *)
(* set digest stands for the pack it was computed over.                     *)
ASSUME EvidenceAssumption ==
  /\ \A d \in Directories : DirectoryOf[d] \in Mixtures
  /\ \A p, q \in {b.pack : b \in Builds} \cup {PackOf[r] : r \in Releases} :
       p.set = q.set => p = q

VARIABLES
  calm,      \* whether the publisher waits for operations to end (fixed)
  turns,     \* whether consumers take turns, one plan or apply at a time (fixed)
  served,    \* archive (or pack tree) the source path holds now
  evidence,  \* what the evidence directory holds now
  target,    \* tree at the target: None, Foreign or a release
  receipt,   \* the receipt file beside it
  pc,        \* consumer -> step it is about to take
  outcome,   \* consumer -> how its apply ended
  plan,      \* consumer -> its OperationPlan
  local,     \* consumer -> what its apply holds meanwhile
  republished, moved   \* counters that bound publisher and user

fixed == <<calm, turns>>
world == <<fixed, served, evidence, target, receipt, republished, moved>>
vars == <<world, pc, outcome, plan, local>>

Changing == {"install", "update"}
ReadOnly == {"verify", "lock", "publish"}
Routes == {"archive", "repository"}

(* evidence.sbom and evidence.provenance of a profile, by digest. *)
RefsOf == [d \in Directories |->
             [sbom |-> Referred(DirectoryOf[d].profile, "sbom"),
              provenance |-> Referred(DirectoryOf[d].profile, "provenance")]]

ReceiptRecord == [subject : Releases, transport : Archives \cup {None},
                  evidence : {RefsOf[d] : d \in Directories}]
ASSUME ReceiptAssumption == \A r \in ReceiptRecord : r \notin {None, Empty, Unreadable}
Receipts == {None, Empty, Unreadable} \cup ReceiptRecord
Plan == [op : Changing \cup ReadOnly, route : Routes, blocked : BOOLEAN,
         accepted : BOOLEAN, prior : Releases \cup {None},
         subject : Releases \cup {None}, transport : Archives \cup {None}]
NoPlan == [op |-> "install", route |-> "repository", blocked |-> TRUE,
           accepted |-> FALSE, prior |-> None, subject |-> None,
           transport |-> None]
(* PromotionPolicy, the scratch directory, the evidence as the receipt reads *)
(* it and the rename that _promote chose.                                    *)
Local == [require : BOOLEAN, staged : Releases \cup {None},
          described : Directories \cup {None}, way : {"none", "noreplace", "exchange"}]
NothingHeld == [require |-> TRUE, staged |-> None, described |-> None, way |-> "none"]

(* The release a route stages from an archive, None for any other tree. *)
ReleaseWith(files) ==
  IF files = Refused THEN Refused
  ELSE IF \E r \in Releases : TreeOf[r] = files
       THEN CHOOSE r \in Releases : TreeOf[r] = files ELSE None
StagedBy ==
  [route \in Routes |-> [a \in Archives |->
     ReleaseWith(IF route = "archive" THEN StagedArchive(Packed[a])
                 ELSE StagedTree(Unpacked[a]))]]

(* _verify_staged *)
Trusts(verifier) == IF verifier THEN Trusted ELSE Missing
Verdicts ==
  [r \in Releases \cup {None} |-> [d \in Directories |-> [verifier \in BOOLEAN |->
     Verification(IF r = None THEN UnknownPack ELSE PackOf[r], DirectoryOf[d],
                  Trusts(verifier))]]]
Verdict(r, verifier) == Verdicts[r][evidence][verifier]

Planning == {"sampling", "resolving"}
Applying == {"staging", "rechecking", "verifying", "promoting", "moving",
             "recording", "writing"}
Busy == Planning \cup Applying
Phases == Busy \cup {"idle", "planned", "done"}

Quiet == \A c \in Consumers : pc[c] \notin Busy
MayStart == turns => Quiet

Init ==
  /\ calm \in BOOLEAN
  /\ turns \in {b \in BOOLEAN : calm => b}
  /\ served \in Archives
  /\ evidence \in Directories
  /\ target = None
  /\ receipt = None
  /\ pc = [c \in Consumers |-> "idle"]
  /\ outcome = [c \in Consumers |-> "none"]
  /\ plan = [c \in Consumers |-> NoPlan]
  /\ local = [c \in Consumers |-> NothingHeld]
  /\ republished = 0
  /\ moved = 0

Goto(c, phase) == pc' = [pc EXCEPT ![c] = phase] /\ UNCHANGED outcome

(* The scratch directory goes with the call, and the plan when it failed. *)
Ended(c, result) ==
  /\ pc' = [pc EXCEPT ![c] = "done"]
  /\ outcome' = [outcome EXCEPT ![c] = result]
  /\ local' = [local EXCEPT ![c] = NothingHeld]
Fail(c, result) == Ended(c, result) /\ plan' = [plan EXCEPT ![c] = NoPlan]

--------------------------------------------------------------------------------
(* plan_install notes whether the target exists and resolves the digest     *)
(* before it stages; plan_update reads the receipt, stages, then resolves.  *)
(* Defect: the receipt as it was read, not the digest of its subject. *)
RawReceipt == receipt

ReceiptSubject == IF receipt \in ReceiptRecord THEN receipt.subject ELSE None

PlanInstall(c, route) ==
  /\ pc[c] = "idle" /\ MayStart
  /\ plan' = [plan EXCEPT ![c] = [NoPlan EXCEPT
                !.route = route, !.blocked = (target # None)]]
  /\ Goto(c, "resolving")
  /\ UNCHANGED <<world, local>>

PlanUpdate(c, route) ==
  /\ pc[c] = "idle" /\ MayStart
  /\ plan' = [plan EXCEPT ![c] = [NoPlan EXCEPT
                !.op = "update", !.route = route, !.blocked = FALSE,
                !.prior = ReceiptSubject]]
  /\ Goto(c, "sampling")
  /\ UNCHANGED <<world, local>>

Resolve(c) ==
  /\ pc[c] = "resolving"
  /\ plan' = [plan EXCEPT ![c].transport =
                IF plan[c].route = "archive" THEN served ELSE None]
  /\ Goto(c, IF plan[c].op = "install" THEN "sampling" ELSE "planned")
  /\ UNCHANGED <<world, local>>

(* _stage_and_verify in a scratch directory that is gone afterwards; what    *)
(* cannot be staged fails the call and leaves no plan.                       *)
Sample(c) ==
  /\ pc[c] = "sampling"
  /\ LET read == StagedBy[plan[c].route][served]
     IN \/ read = Refused /\ Fail(c, "failed")
        \/ /\ read # Refused
           /\ \E verifier \in BOOLEAN :
                plan' = [plan EXCEPT ![c].subject = read,
                                     ![c].accepted = Accepted(Verdict(read, verifier))]
           /\ Goto(c, IF plan[c].op = "install" THEN "planned" ELSE "resolving")
           /\ UNCHANGED local
  /\ UNCHANGED world

(* plan_verify, plan_lock and plan_publish.  A publish plan verifies nothing *)
(* and is applicable when the release directory names its evidence.          *)
PlanReadOnly(c, op) ==
  /\ pc[c] = "idle" /\ MayStart
  /\ LET read == StagedBy["repository"][served]
     IN plan' = [plan EXCEPT ![c] =
          IF op = "publish"
          THEN [NoPlan EXCEPT !.op = op, !.accepted = TRUE,
                              !.blocked = ~Publishable(DirectoryOf[evidence])]
          ELSE [NoPlan EXCEPT !.op = op, !.blocked = FALSE, !.subject = read,
                              !.accepted = Accepted(Verdict(read, FALSE))]]
  /\ Goto(c, "planned")
  /\ UNCHANGED <<world, local>>

Applicable(c) == ~plan[c].blocked /\ plan[c].accepted

--------------------------------------------------------------------------------
(* apply_install *)

(* Defect: only the plan is consulted, not the target as it is now. *)
PlanOnly(c, authorized) == authorized /\ plan[c].op \in Changing /\ Applicable(c)

(* _check_apply_preconditions *)
Precondition(c, authorized) ==
  /\ authorized
  /\ plan[c].op \in Changing
  /\ Applicable(c)
  /\ (plan[c].op = "install") = (target = None)

Apply(c, authorized) ==
  /\ pc[c] = "planned" /\ MayStart
  /\ \/ Precondition(c, authorized) /\ Goto(c, "staging") /\ UNCHANGED <<plan, local>>
     \/ ~Precondition(c, authorized) /\ Fail(c, "failed")
  /\ UNCHANGED world

Stage(c) ==
  /\ pc[c] = "staging"
  /\ LET read == StagedBy[plan[c].route][served]
     IN \/ read = Refused /\ Fail(c, "failed")
        \/ /\ read # Refused
           /\ local' = [local EXCEPT ![c].staged = read]
           /\ Goto(c, "rechecking") /\ UNCHANGED plan
  /\ UNCHANGED world

(* The transport digest is resolved again after the bytes were staged. *)
TransportHolds(c) == plan[c].route = "archive" => served = plan[c].transport

Recheck(c) ==
  /\ pc[c] = "rechecking"
  /\ \/ TransportHolds(c) /\ Goto(c, "verifying") /\ UNCHANGED <<plan, local>>
     \/ ~TransportHolds(c) /\ Fail(c, "failed")
  /\ UNCHANGED world

(* Defect: any accepted release will do, also one that was not planned. *)
AnyAcceptedRelease(c, require, verifier) ==
  LET result == Verdict(local[c].staged, verifier)
  IN Accepted(result) /\ (require => Authenticated(result))

Promotable(c, require, verifier) ==
  LET result == Verdict(local[c].staged, verifier)
  IN /\ Accepted(result)
     /\ local[c].staged = plan[c].subject
     /\ require => Authenticated(result)

(* Defect: the receipt keeps naming what the update replaced. *)
ReceiptOfPrior(c, dir) ==
  [subject |-> IF plan[c].prior = None THEN local[c].staged ELSE plan[c].prior,
   transport |-> plan[c].transport, evidence |-> RefsOf[dir]]

(* build_receipt *)
ReceiptOf(c, dir) ==
  [subject |-> local[c].staged, transport |-> plan[c].transport, evidence |-> RefsOf[dir]]

(* Defect: the receipt is written before the tree is promoted. *)
VerifyAndRecord(c) ==
  /\ pc[c] = "verifying"
  /\ Promotable(c, TRUE, TRUE)
  /\ receipt' = ReceiptOf(c, evidence)
  /\ Goto(c, "promoting")
  /\ UNCHANGED <<fixed, served, evidence, target, plan, local, republished, moved>>

(* The policy of the apply and its verifier are consulted here alone. *)
Verify(c) ==
  /\ pc[c] = "verifying"
  /\ \E require, verifier \in BOOLEAN :
       \/ /\ Promotable(c, require, verifier)
          /\ local' = [local EXCEPT ![c].require = require]
          /\ Goto(c, "promoting") /\ UNCHANGED plan
       \/ ~Promotable(c, require, verifier) /\ Fail(c, "failed")
  /\ UNCHANGED world

(* _promote: the existence test and the rename it selects are two steps. *)
Promote(c) ==
  /\ pc[c] = "promoting"
  /\ local' = [local EXCEPT ![c].way = IF target = None THEN "noreplace" ELSE "exchange"]
  /\ Goto(c, "moving")
  /\ UNCHANGED <<world, plan>>

(* RENAME_NOREPLACE needs an absent target, RENAME_EXCHANGE a present one. *)
RenameWorks(c) == (local[c].way = "noreplace") = (target = None)

Move(c) ==
  /\ pc[c] = "moving"
  /\ \/ /\ RenameWorks(c)
        /\ target' = local[c].staged
        /\ Goto(c, "recording") /\ UNCHANGED <<plan, local>>
     \/ ~RenameWorks(c) /\ Fail(c, "failed") /\ UNCHANGED target
  /\ UNCHANGED <<fixed, served, evidence, receipt, republished, moved>>

(* _receipt_for_apply loads the evidence again; write_receipt truncates the  *)
(* file and then writes it.  The text of another writer that came in between *)
(* is overlaid, and its tail may remain.                                     *)
Record(c) ==
  /\ pc[c] = "recording"
  /\ local' = [local EXCEPT ![c].described = evidence]
  /\ receipt' = Empty
  /\ Goto(c, "writing")
  /\ UNCHANGED <<fixed, served, evidence, target, plan, republished, moved>>

Written(c) == ReceiptOf(c, local[c].described)

WriteReceipt(c) ==
  /\ pc[c] = "writing"
  /\ \/ receipt' = Written(c)
     \/ receipt \notin {Empty, Written(c)} /\ receipt' = Unreadable
  /\ Ended(c, "ok")
  /\ UNCHANGED <<fixed, served, evidence, target, plan, republished, moved>>

(* The process dies, or the receipt cannot be written. *)
Break(c) ==
  /\ Faults
  /\ pc[c] \in Applying
  /\ Fail(c, "broken")
  /\ UNCHANGED world

--------------------------------------------------------------------------------
(* The publisher and the user, who coordinate with nobody. *)
Republish ==
  /\ republished < Republications
  /\ calm => Quiet
  /\ republished' = republished + 1
  /\ \/ served' \in Archives \ {served} /\ UNCHANGED evidence
     \/ evidence' \in Directories \ {evidence} /\ UNCHANGED served
  /\ UNCHANGED <<fixed, target, receipt, pc, outcome, plan, local, moved>>

UserMove ==
  /\ moved < UserMoves
  /\ moved' = moved + 1
  /\ target' = IF target = None THEN Foreign ELSE None
  /\ UNCHANGED <<fixed, served, evidence, receipt, pc, outcome, plan, local, republished>>

ConsumerStep(c) ==
  \/ \E route \in Routes : PlanInstall(c, route) \/ PlanUpdate(c, route)
  \/ \E op \in ReadOnly : PlanReadOnly(c, op)
  \/ Resolve(c) \/ Sample(c)
  \/ \E authorized \in BOOLEAN : Apply(c, authorized)
  \/ Stage(c) \/ Recheck(c) \/ Verify(c) \/ Promote(c) \/ Move(c)
  \/ Record(c) \/ WriteReceipt(c) \/ Break(c)

Next == (\E c \in Consumers : ConsumerStep(c)) \/ Republish \/ UserMove

Spec == Init /\ [][Next]_vars

--------------------------------------------------------------------------------
TypeOK ==
  /\ {calm, turns} \subseteq BOOLEAN
  /\ served \in Archives
  /\ evidence \in Directories
  /\ target \in Releases \cup {None, Foreign}
  /\ receipt \in Receipts
  /\ pc \in [Consumers -> Phases]
  /\ outcome \in [Consumers -> {"none", "ok", "failed", "broken"}]
  /\ plan \in [Consumers -> Plan]
  /\ local \in [Consumers -> Local]
  /\ republished \in 0 .. Republications
  /\ moved \in 0 .. UserMoves

(* Nothing but the publisher came between the steps of a plan or an apply,  *)
(* and every apply ran to its end.                                          *)
Undisturbed ==
  /\ turns
  /\ moved = 0
  /\ \A c \in Consumers : outcome[c] # "broken"

(* c's rename took place in this step. *)
Promotes(c) == pc[c] = "moving" /\ pc'[c] = "recording"

(* Whatever the publisher serves meanwhile, only a tree whose subject the   *)
(* applicable plan resolved, and whose signature verified unless the caller *)
(* opted out, reaches the target (distribution.py 708-758); and with        *)
(* consumers that take turns, over plans of any age, a fresh install        *)
(* replaces nothing.                                                        *)
PromotionIsAuthorized ==
  [][\A c \in Consumers : Promotes(c) =>
       /\ plan[c].op \in Changing /\ Applicable(c)
       /\ target' = plan[c].subject
       /\ local[c].require => PackOf[target'].set \in Trusted
       /\ Undisturbed /\ plan[c].op = "install" => target = None]_vars

(* An apply that was refused left the target alone, and every other one     *)
(* that ended wrote the receipt of the tree it promoted: a readable receipt *)
(* is always that of a successful apply (distribution.py 822-830).          *)
ReceiptTellsAPromotion ==
  receipt \in ReceiptRecord =>
    \E c \in Consumers :
      /\ outcome[c] = "ok"
      /\ receipt.subject = plan[c].subject
      /\ receipt.transport = plan[c].transport

(* When consumers take turns, the receipt beside a promoted tree is readable *)
(* between applies and names its subject, so a later update shows what it    *)
(* changes, whatever the publisher served; and when the publisher waits for  *)
(* operations to end, the evidence it names is that of this release          *)
(* (docs/public/distribution.md 103-105).                                    *)
ReceiptTellsTheTree ==
  Undisturbed /\ Quiet /\ target \in Releases =>
    /\ receipt \in ReceiptRecord /\ receipt.subject = target
    /\ calm => /\ receipt.evidence.sbom = SbomOf(PackOf[target])
               /\ receipt.evidence.provenance.subject = PackOf[target].set

(* apply_install: a fresh install moves without replacing, "an install      *)
(* refuses a target that appeared after planning" (distribution.py 791-792, *)
(* 805-806).                                                                *)
InstallReplacesNothing ==
  [][\A c \in Consumers :
       Promotes(c) /\ plan[c].op = "install" => target = None]_vars

--------------------------------------------------------------------------------
(* Two facts of the constants, stated of the initial states.                *)
(* A release is accepted exactly with the evidence that one of its published *)
(* builds wrote: the chain of digests lets no document be swapped for that   *)
(* of another build, and what is published is never refused                  *)
(* (docs/public/distribution.md 67-70).                                      *)
VerdictIsExact ==
  Init => \A pack \in {b.pack : b \in Builds}, dir \in Mixtures :
            Accepted(Verification(pack, dir, Missing)) <=>
              /\ pack.static /\ pack.bound
              /\ \E b \in Builds :
                   b.pack = pack /\ b.published /\ Loaded(dir) = EvidenceOf(b)

(* "The repository route and the archive route reproduce the same bytes"     *)
(* (distribution.py 238-240), and an archive beyond the limits is refused.   *)
RoutesAgree ==
  Init => \A tree \in Trees :
            StagedArchive(Export(tree)) =
              IF WithinLimits(StagedTree(tree)) THEN StagedTree(tree) ELSE Refused
================================================================================
