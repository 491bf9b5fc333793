---------------------------- MODULE KitCommitProofs ----------------------------
(***************************************************************************)
(* What TLAPS proves of KitCommit for any number of appliers, members and  *)
(* saves, under any interleaving, fault or crash: first whether or not     *)
(* callers serialise their work, then when they do.                        *)
(***************************************************************************)
EXTENDS KitCommit, TLAPS

(* No two names are bound to one tree: exchanges permute the bindings.      *)
NamesApart ==
  /\ \A p \in Appliers : staged[p] # live
  /\ \A p, q \in Appliers : p # q => staged[p] # staged[q]

(* From the check of the staged tree to the last way back, an applier's     *)
(* staging path names a complete tree.                                      *)
Exchangeable == {"rechecking", "exchanging", "verifying", "restoring",
                 "rescuing"}

StagedIsWhole ==
  \A p \in Appliers : pc[p] \in Exchangeable => written[staged[p]] = Members

(* Only an applier's own last step deletes what its staging path names.     *)
StagedIsKept ==
  \A p \in Appliers : pc[p] # "done" => staged[p] \notin removed

WholeInv ==
  /\ TypeOK
  /\ NamesApart
  /\ StagedIsWhole
  /\ StagedIsKept
  /\ LiveTreeIsWhole

(* The bytes of a successor are bytes of the model: base plus the proposal. *)
LEMMA SuccessorType ==
  ASSUME NEW p \in Appliers, base \in [Appliers -> Contents]
  PROVE  Successor(p) \in Contents
  BY DEF Successor, Contents, Changes

(* A save leaves nothing that was not in the member, undone or its own.     *)
LEMMA LeavableBytes ==
  ASSUME NEW e, NEW m, NEW t, NEW bytes \in Leavable(e, m, t)
  PROVE  \A c \in bytes : c \in content[t][m] \/ c \in undone[m] \/ c = e
  <1>0. \/ bytes \in SUBSET (content[t][m] \cup undone[m])
        \/ bytes = content[t][m] \cup {e}
    BY Zenon DEF Leavable
  <1>1. CASE bytes \in SUBSET (content[t][m] \cup undone[m])
    BY <1>1
  <1>2. CASE bytes = content[t][m] \cup {e}
    BY <1>2
  <1> QED BY <1>0, <1>1, <1>2

(* A save keeps every tree's contents within the model's bytes.             *)
LEMMA SaveType ==
  ASSUME TypeOK, NEW e \in Edits, NEW m \in Members, NEW t \in TreeIds,
         Saves(e, m, t)
  PROVE  /\ content' \in [TreeIds -> Contents]
         /\ landed' \in [Members -> SUBSET Edits]
         /\ undone' \in [Members -> SUBSET Changes]
  <1>1. content[t][m] \in SUBSET Changes /\ undone[m] \in SUBSET Changes /\ e \in Changes
    BY DEF TypeOK, Contents, Changes
  <1>2. PICK bytes \in Leavable(e, m, t) : Land(e, m, t, bytes)
    BY DEF Saves
  <1>3. bytes \in SUBSET Changes
    BY <1>1, <1>2, LeavableBytes
  <1>4. content' \in [TreeIds -> Contents]
    BY <1>2, <1>3 DEF Land, TypeOK, Contents
  <1>5. landed' \in [Members -> SUBSET Edits]
    BY <1>2 DEF Land, TypeOK
  <1>6. undone' \in [Members -> SUBSET Changes]
    BY <1>1, <1>2 DEF Land, TypeOK
  <1> QED BY <1>4, <1>5, <1>6

(* The initial state has the original tree live and nothing staged.         *)
LEMMA InitWhole == Init => WholeInv
  BY ConstantsAssumption
     DEF Init, WholeInv, TypeOK, NamesApart, StagedIsWhole, StagedIsKept,
         LiveTreeIsWhole, TreeIds, Contents, Changes, Phases, Active, Capturing,
         Outcomes, Exchangeable, Unread, Unopened

(* Every step keeps every variable within its type.                         *)
LEMMA TypeStep == TypeOK /\ [Next]_vars => TypeOK'
  <1> SUFFICES ASSUME TypeOK, [Next]_vars PROVE TypeOK' OBVIOUS
  <1>0. callers' \in Manners
    BY DEF Next, vars, TypeOK
  <1> USE <1>0 DEF TypeOK, Phases, Active, Capturing, Outcomes
  <1>1. CASE UNCHANGED vars
    BY <1>1 DEF vars
  <1>2. ASSUME NEW p \in Appliers, ApplierStep(p) PROVE TypeOK'
    <2>1. CASE Propose(p)
      BY <2>1 DEF Propose, OpenCapture, Unread
    <2>2. CASE Proposed(p)
      BY <2>2 DEF Proposed
    <2>3. CASE Apply(p)
      BY <2>3 DEF Apply, OpenCapture, Unread
    <2>4. CASE Check(p)
      BY <2>4 DEF Check, FailTo
    <2>5. CASE EarlyCaptureFails(p)
      BY <2>5 DEF EarlyCaptureFails, FailTo
    <2>6. CASE Validate(p)
      BY <2>6 DEF Validate, OpenCapture, Unread
    <2>7. CASE StagingFails(p)
      BY <2>7 DEF StagingFails, FailTo
    <2>8. CASE Recheck(p)
      BY <2>8 DEF Recheck, FailTo
    <2>9. CASE Exchange(p)
      BY <2>9 DEF Exchange, SwapNames, OpenCapture, Unread
    <2>10. CASE Verify(p)
      BY <2>10 DEF Verify
    <2>11. CASE Restore(p)
      BY <2>11 DEF Restore, SwapNames, FailTo
    <2>12. CASE EnterRescue(p)
      BY <2>12 DEF EnterRescue
    <2>13. CASE KeepForRecovery(p)
      BY <2>13 DEF KeepForRecovery
    <2>14. CASE Cleanup(p)
      BY <2>14 DEF Cleanup
    <2>15. CASE Crash(p)
      BY <2>15 DEF Crash
    <2>18. CASE Interrupted(p)
      BY <2>18 DEF Interrupted
    <2>16. ASSUME NEW m \in Members, ReadMember(p, m) PROVE TypeOK'
      <3>1. content[root[p]][m] \in SUBSET Changes
        BY DEF Contents
      <3>2. seen' \in [Appliers -> Contents]
        BY <2>16, <3>1 DEF ReadMember, Contents
      <3> QED BY <2>16, <3>2 DEF ReadMember
    <2>17. ASSUME NEW m \in Members, WriteMember(p, m) PROVE TypeOK'
      <3>1. Successor(p)[m] \in SUBSET Changes
        BY SuccessorType DEF Contents
      <3>2. content' \in [TreeIds -> Contents]
        BY <2>17, <3>1 DEF WriteMember, Contents
      <3> QED BY <2>17, <3>2 DEF WriteMember
    <2> QED BY <1>2, <2>1, <2>2, <2>3, <2>4, <2>5, <2>6, <2>7, <2>8, <2>9, <2>10,
               <2>11, <2>12, <2>13, <2>14, <2>15, <2>16, <2>17, <2>18
         DEF ApplierStep
  <1>3. ASSUME NEW e \in RenameEdits, NEW m \in Members, RenameSave(e, m)
        PROVE  TypeOK'
    <2>1. /\ content' \in [TreeIds -> Contents]
          /\ landed' \in [Members -> SUBSET Edits]
          /\ undone' \in [Members -> SUBSET Changes]
      BY <1>3, SaveType DEF RenameSave, Edits
    <2> QED BY <1>3, <2>1 DEF RenameSave
  <1>4. ASSUME NEW e \in HandleEdits, OpenMember(e) PROVE TypeOK'
    BY <1>4 DEF OpenMember
  <1>5. ASSUME NEW e \in HandleEdits, NEW m \in Members, WriteOpened(e, m)
        PROVE  TypeOK'
    <2>1. PICK t \in opened[e] : Saves(e, m, t)
      BY <1>5 DEF WriteOpened
    <2>2. /\ content' \in [TreeIds -> Contents]
          /\ landed' \in [Members -> SUBSET Edits]
          /\ undone' \in [Members -> SUBSET Changes]
      BY <2>1, SaveType DEF Edits
    <2> QED BY <1>5, <2>2 DEF WriteOpened, Unopened
  <1> QED BY <1>1, <1>2, <1>3, <1>4, <1>5 DEF Next, EditorStep

(* Type correctness of kits.apply_proposal's model, for all constants.      *)
THEOREM TypeCorrect == Spec => []TypeOK
  <1>1. Init => TypeOK
    BY InitWhole DEF WholeInv
  <1> QED BY <1>1, TypeStep, PTL DEF Spec

(* Every step of an applier or of the editor keeps the tree discipline.     *)
LEMMA WholeStep == WholeInv /\ [Next]_vars => WholeInv'
  <1> SUFFICES ASSUME WholeInv, [Next]_vars PROVE WholeInv' OBVIOUS
  <1>t. TypeOK' BY TypeStep DEF WholeInv
  <1> USE DEF WholeInv, NamesApart, StagedIsWhole, StagedIsKept,
              LiveTreeIsWhole, Exchangeable
  <1>1. CASE UNCHANGED vars
    BY <1>1, <1>t DEF vars
  <1>2. ASSUME NEW p \in Appliers, ApplierStep(p) PROVE WholeInv'
    <2> USE <1>t DEF TypeOK
    <2>1. CASE Propose(p)
      BY <2>1 DEF Propose, OpenCapture
    <2>2. CASE Proposed(p)
      BY <2>2 DEF Proposed
    <2>3. CASE Apply(p)
      BY <2>3 DEF Apply, OpenCapture
    <2>4. CASE Check(p)
      BY <2>4 DEF Check, FailTo
    <2>5. CASE EarlyCaptureFails(p)
      BY <2>5 DEF EarlyCaptureFails, FailTo
    <2>6. CASE Validate(p)
      BY <2>6 DEF Validate, OpenCapture
    <2>7. CASE StagingFails(p)
      BY <2>7 DEF StagingFails, FailTo
    <2>8. CASE Recheck(p)
      BY <2>8 DEF Recheck, FailTo
    <2>9. CASE Verify(p)
      BY <2>9 DEF Verify
    <2>10. CASE EnterRescue(p)
      BY <2>10 DEF EnterRescue
    <2>11. CASE KeepForRecovery(p)
      BY <2>11 DEF KeepForRecovery
    <2>12. CASE Cleanup(p)
      BY <2>12 DEF Cleanup
    <2>13. CASE Crash(p)
      BY <2>13 DEF Crash, Active, Capturing
    <2>18. CASE Interrupted(p)
      BY <2>18 DEF Interrupted
    <2>14. CASE Exchange(p)
      BY <2>14 DEF Exchange, SwapNames, OpenCapture
    <2>15. CASE Restore(p)
      BY <2>15 DEF Restore, SwapNames, FailTo
    <2>16. ASSUME NEW m \in Members, ReadMember(p, m) PROVE WholeInv'
      BY <2>16 DEF ReadMember
    <2>17. ASSUME NEW m \in Members, WriteMember(p, m) PROVE WholeInv'
      BY <2>17 DEF WriteMember
    <2> QED BY <1>2, <2>1, <2>2, <2>3, <2>4, <2>5, <2>6, <2>7, <2>8, <2>9, <2>10,
               <2>11, <2>12, <2>13, <2>14, <2>15, <2>16, <2>17, <2>18
         DEF ApplierStep
  <1>3. CASE EditorStep
    BY <1>3, <1>t DEF EditorStep, RenameSave, OpenMember, WriteOpened, Saves, Land
  <1> QED BY <1>1, <1>2, <1>3 DEF Next

(* The pack path always names a complete, undeleted tree, for any number of *)
(* concurrent appliers and saves, with faults and crashes.                  *)
THEOREM LiveTreeAlwaysWhole == Spec => []LiveTreeIsWhole
  <1>1. WholeInv => LiveTreeIsWhole
    BY DEF WholeInv
  <1> QED BY <1>1, InitWhole, WholeStep, PTL DEF Spec

--------------------------------------------------------------------------------
(***************************************************************************)
(* Two proposals built on one pack succeed only where the author put the   *)
(* pack back.  A success keeps the tree it displaced under its own staging *)
(* path, so two successes displaced two trees; and the marks of the        *)
(* proposals in a pack's bytes tell which tree was read, but for those     *)
(* that the author took out.                                               *)
(***************************************************************************)

(* The proposals whose changes the bytes of a tree's member incorporate:    *)
(* those of its base and, in a staged tree, its own.                        *)
Marks(t, m) == IF t = Original THEN {} ELSE base[t][m] \cup {t}
Own(t) == {t} \ {Original}

(* The bytes x come from member m of tree t, with what the author's saves   *)
(* took out of that member or put back into it.                             *)
CameFrom(x, t, m) ==
  /\ x \cap Appliers \subseteq Marks(t, m) \cup undone[m]
  /\ Own(t) \subseteq x \cup undone[m]

BeforeStaging == {"new", "basing", "proposed", "checking"}
BeforeExchange == BeforeStaging \cup {"staging", "rechecking", "exchanging"}

(* The staging path names the proposal's own tree until the exchange, and   *)
(* from the exchange to a success the tree that the exchange displaced.     *)
StagesOwnTree ==
  \A p \in Appliers : outcome[p] = "none" /\ pc[p] \in BeforeExchange => staged[p] = p

KeepsDisplaced ==
  \A p \in Appliers :
    \/ outcome[p] = "ok"
    \/ outcome[p] = "none" /\ pc[p] = "verifying"
    => staged[p] = root[p]

(* An outcome is final, and only a cleanup goes on after it. *)
OutcomeIsLast ==
  \A p \in Appliers : outcome[p] # "none" <=> pc[p] \in {"cleanup", "done"}

(* Nothing carries the mark of a proposal that has no base yet. *)
Unmarked ==
  \A p \in Appliers : pc[p] \in {"new", "basing"} => \A m \in Members :
    /\ p \notin undone[m]
    /\ \A q \in Appliers : p \notin base[q][m] /\ p \notin seen[q][m]

(* No two proposals are each in the base of the other, and none in its own. *)
BasesAreOrdered ==
  \A p, q \in Appliers, m, n \in Members : p \in base[q][m] => q \notin base[p][n]

TreesTellBases ==
  /\ \A t \in TreeIds : \A m \in written[t] : CameFrom(content[t][m], t, m)
  /\ \A t \in TreeIds : \A m \in Members \ written[t] :
       content[t][m] \cap Appliers \subseteq undone[m]
  /\ \A p \in Appliers : pc[p] \in BeforeStaging => written[p] = {}

RootsAreWhole == \A p \in Appliers : written[root[p]] = Members

ReadingsTellTrees ==
  \A p \in Appliers :
    /\ pc[p] \in Capturing => \A m \in got[p] : CameFrom(seen[p][m], root[p], m)
    /\ outcome[p] = "ok" => \A m \in Members : CameFrom(base[p][m], root[p], m)

LineageInv ==
  /\ WholeInv
  /\ OutcomeIsLast /\ StagesOwnTree /\ KeepsDisplaced
  /\ Unmarked /\ BasesAreOrdered
  /\ TreesTellBases /\ RootsAreWhole /\ ReadingsTellTrees

LEMMA InitLineage == Init => LineageInv
  <1> SUFFICES ASSUME Init PROVE LineageInv OBVIOUS
  <1>1. OutcomeIsLast /\ StagesOwnTree /\ KeepsDisplaced
    BY DEF Init, OutcomeIsLast, StagesOwnTree, KeepsDisplaced
  <1>2. Unmarked /\ BasesAreOrdered
    BY DEF Init, Unmarked, BasesAreOrdered
  <1>3. TreesTellBases
    BY ConstantsAssumption
       DEF Init, TreesTellBases, CameFrom, Marks, Own, TreeIds, BeforeStaging
  <1>4. RootsAreWhole /\ ReadingsTellTrees
    BY DEF Init, RootsAreWhole, ReadingsTellTrees, Capturing, TreeIds
  <1> QED BY <1>1, <1>2, <1>3, <1>4, InitWhole DEF LineageInv

(* The steps that read and write no bytes and open no tree: an applier goes *)
(* on, succeeds, gives up, or is done with its cleanup.                     *)
GoesOn(p) ==
  /\ \/ pc[p] = "checking" /\ pc'[p] = "staging"
     \/ pc[p] = "rechecking" /\ pc'[p] = "exchanging"
     \/ pc[p] \in {"verifying", "restoring"} /\ pc'[p] \in {"restoring", "rescuing"}
  /\ outcome'[p] = outcome[p] /\ staged'[p] = staged[p]

Succeeds(p) ==
  /\ pc[p] = "verifying" /\ got[p] = Members /\ seen[p] = base[p]
  /\ pc'[p] = "cleanup" /\ outcome'[p] = "ok" /\ staged'[p] = staged[p]

GivesUp(p) ==
  /\ pc[p] \in Active
  /\ pc'[p] \in {"cleanup", "done"} /\ outcome'[p] \in {"failed", "recovery", "crashed"}

Leaves(p) ==
  /\ pc[p] = "cleanup" /\ pc'[p] = "done"
  /\ outcome'[p] = outcome[p] /\ staged'[p] = staged[p]

PhaseStep(p) ==
  /\ UNCHANGED <<content, written, root, got, seen, base, undone>>
  /\ \A q \in Appliers \ {p} :
       pc'[q] = pc[q] /\ outcome'[q] = outcome[q] /\ staged'[q] = staged[q]
  /\ GoesOn(p) \/ Succeeds(p) \/ GivesUp(p) \/ Leaves(p)

LEMMA PhaseSteps ==
  ASSUME TypeOK, NEW p \in Appliers,
         \/ Check(p) \/ EarlyCaptureFails(p) \/ StagingFails(p) \/ Recheck(p)
         \/ Verify(p) \/ Restore(p) \/ EnterRescue(p) \/ KeepForRecovery(p)
         \/ Interrupted(p) \/ Cleanup(p) \/ Crash(p)
  PROVE  PhaseStep(p)
  <1> USE DEF PhaseStep, GoesOn, Succeeds, GivesUp, Leaves, FailTo, Active, Capturing,
              TypeOK
  <1>1. CASE Check(p)
    BY <1>1 DEF Check
  <1>2. CASE EarlyCaptureFails(p) \/ StagingFails(p)
    BY <1>2 DEF EarlyCaptureFails, StagingFails
  <1>3. CASE Recheck(p)
    BY <1>3 DEF Recheck
  <1>4. CASE Verify(p)
    BY <1>4 DEF Verify, Captured, BaseUnchanged
  <1>5. CASE Restore(p)
    BY <1>5 DEF Restore, SwapNames
  <1>6. CASE EnterRescue(p) \/ KeepForRecovery(p)
    BY <1>6 DEF EnterRescue, KeepForRecovery
  <1>7. CASE Interrupted(p) \/ Crash(p)
    BY <1>7 DEF Interrupted, Crash
  <1>8. CASE Cleanup(p)
    BY <1>8 DEF Cleanup
  <1> QED BY <1>1, <1>2, <1>3, <1>4, <1>5, <1>6, <1>7, <1>8

LEMMA PhaseLineage ==
  ASSUME LineageInv, WholeInv', NEW p \in Appliers, PhaseStep(p)
  PROVE  LineageInv'
  <1> USE DEF LineageInv, PhaseStep, GoesOn, Succeeds, GivesUp, Leaves
  <1>1. OutcomeIsLast'
    BY DEF OutcomeIsLast, Active, Capturing
  <1>2. StagesOwnTree'
    BY DEF StagesOwnTree, BeforeExchange, BeforeStaging
  <1>3. KeepsDisplaced'
    BY DEF KeepsDisplaced, OutcomeIsLast
  <1>4. Unmarked' /\ BasesAreOrdered'
    BY DEF Unmarked, BasesAreOrdered, Active, Capturing
  <1>5. TreesTellBases' /\ RootsAreWhole'
    BY DEF TreesTellBases, CameFrom, Marks, BeforeStaging, RootsAreWhole
  <1>6. ReadingsTellTrees'
    <2> SUFFICES ASSUME NEW q \in Appliers
                 PROVE  /\ pc'[q] \in Capturing => pc[q] \in Capturing
                        /\ outcome'[q] = "ok" =>
                             \/ outcome[q] = "ok"
                             \/ /\ pc[q] \in Capturing
                                /\ got[q] = Members /\ seen[q] = base[q]
      BY DEF ReadingsTellTrees, CameFrom, Marks
    <2>1. CASE q # p
      BY <2>1
    <2>2. CASE q = p
      <3>1. pc'[p] \notin Capturing
        BY DEF Capturing
      <3> QED BY <2>2, <3>1 DEF Capturing
    <2> QED BY <2>1, <2>2
  <1> QED BY <1>1, <1>2, <1>3, <1>4, <1>5, <1>6

(* A capture opens the live tree, or the tree the exchange displaces.       *)
LEMMA OpenLineage ==
  ASSUME LineageInv, WholeInv', NEW p \in Appliers,
         Propose(p) \/ Apply(p) \/ Validate(p) \/ Exchange(p)
  PROVE  LineageInv'
  <1>0. /\ UNCHANGED <<content, written, seen, base, outcome, undone>>
        /\ root' = [root EXCEPT ![p] = live]
        /\ got' = [got EXCEPT ![p] = {}]
        /\ pc' = [pc EXCEPT ![p] = pc'[p]]
        /\ pc'[p] \in Capturing
        /\ \A q \in Appliers \ {p} : staged'[q] = staged[q]
        /\ \/ pc[p] = "new" /\ pc'[p] = "basing" /\ staged'[p] = staged[p]
           \/ pc[p] \in {"proposed", "staging"} /\ pc'[p] \in {"checking", "rechecking"}
              /\ staged'[p] = staged[p]
           \/ pc[p] = "exchanging" /\ pc'[p] = "verifying" /\ staged'[p] = live
        /\ pc'[p] \in BeforeStaging => pc[p] \in BeforeStaging
    BY DEF Propose, Apply, Validate, Exchange, OpenCapture, SwapNames, Unread,
       Capturing,
           LineageInv, WholeInv, TypeOK, BeforeStaging
  <1> USE <1>0 DEF LineageInv, WholeInv, TypeOK
  <1>1. OutcomeIsLast'
    BY DEF OutcomeIsLast, Capturing
  <1>2. StagesOwnTree'
    BY DEF StagesOwnTree, BeforeExchange, BeforeStaging
  <1>3. KeepsDisplaced'
    BY DEF KeepsDisplaced, OutcomeIsLast
  <1>4. Unmarked' /\ BasesAreOrdered'
    BY DEF Unmarked, BasesAreOrdered
  <1>5. TreesTellBases'
    BY DEF TreesTellBases, CameFrom, Marks
  <1>6. RootsAreWhole'
    BY DEF RootsAreWhole, LiveTreeIsWhole
  <1>7. ReadingsTellTrees'
    <2>1. \A x, t, m : CameFrom(x, t, m)' <=> CameFrom(x, t, m)
      BY DEF CameFrom, Marks
    <2>2. \A q \in Appliers : outcome[q] = "ok" => q # p /\ root'[q] = root[q]
      BY DEF OutcomeIsLast
    <2>3. \A q \in Appliers : pc'[q] \in Capturing =>
            \/ got'[q] = {}
            \/ pc[q] \in Capturing /\ got'[q] = got[q] /\ root'[q] = root[q]
      BY DEF Capturing
    <2> HIDE DEF CameFrom
    <2> QED BY <2>1, <2>2, <2>3 DEF ReadingsTellTrees
  <1> QED BY <1>1, <1>2, <1>3, <1>4, <1>5, <1>6, <1>7

LEMMA ReadLineage ==
  ASSUME LineageInv, WholeInv', NEW p \in Appliers, NEW m \in Members, ReadMember(p, m)
  PROVE  LineageInv'
  <1> USE DEF ReadMember, LineageInv, WholeInv, TypeOK
  <1>1. OutcomeIsLast' /\ StagesOwnTree' /\ KeepsDisplaced'
    BY DEF OutcomeIsLast, StagesOwnTree, KeepsDisplaced
  <1>2. CameFrom(content[root[p]][m], root[p], m)
    BY DEF RootsAreWhole, TreesTellBases
  <1>3. seen'[p][m] = content[root[p]][m]
    BY DEF Contents
  <1>4. \A q \in Appliers, n \in Members : q # p \/ n # m => seen'[q][n] = seen[q][n]
    BY DEF Contents
  <1>5. Unmarked'
    <2> SUFFICES ASSUME NEW q \in Appliers, pc[q] \in {"new", "basing"}
                 PROVE  q \notin seen'[p][m]
      BY <1>4 DEF Unmarked
    <2>1. root[p] # q
      BY ConstantsAssumption DEF RootsAreWhole, TreesTellBases, BeforeStaging
    <2>2. q \notin Marks(root[p], m)
      BY <2>1 DEF Marks, Unmarked, TreeIds
    <2>3. q \notin undone[m]
      BY DEF Unmarked
    <2> QED BY <1>2, <1>3, <2>2, <2>3 DEF CameFrom
  <1>6. BasesAreOrdered' /\ TreesTellBases' /\ RootsAreWhole'
    BY DEF BasesAreOrdered, TreesTellBases, CameFrom, Marks, RootsAreWhole
  <1>7. ReadingsTellTrees'
    BY <1>2, <1>3, <1>4 DEF ReadingsTellTrees, CameFrom, Marks
  <1> QED BY <1>1, <1>5, <1>6, <1>7

LEMMA ProposedLineage ==
  ASSUME LineageInv, WholeInv', NEW p \in Appliers, Proposed(p)
  PROVE  LineageInv'
  <1> USE DEF Proposed, LineageInv, WholeInv, TypeOK
  <1>1. OutcomeIsLast' /\ StagesOwnTree' /\ KeepsDisplaced'
    BY DEF OutcomeIsLast, StagesOwnTree, KeepsDisplaced, BeforeExchange, BeforeStaging
  <1>2. Unmarked'
    BY DEF Unmarked
  <1>3. BasesAreOrdered'
    BY DEF BasesAreOrdered, Unmarked
  <1>4. written[p] = {}
    BY DEF TreesTellBases, BeforeStaging
  <1>5. \A t \in TreeIds, m \in Members : t # p => Marks(t, m)' = Marks(t, m)
    BY DEF Marks, TreeIds
  <1>6. TreesTellBases'
    BY <1>4, <1>5 DEF TreesTellBases, CameFrom, BeforeStaging
  <1>7. RootsAreWhole'
    BY DEF RootsAreWhole
  <1>8. \A q \in Appliers : root[q] # p
    BY <1>4, ConstantsAssumption DEF RootsAreWhole
  <1>9. ReadingsTellTrees'
    BY <1>5, <1>8 DEF ReadingsTellTrees, CameFrom, Captured, Capturing, OutcomeIsLast
  <1> QED BY <1>1, <1>2, <1>3, <1>6, <1>7, <1>9

LEMMA WriteLineage ==
  ASSUME LineageInv, WholeInv', NEW p \in Appliers, NEW m \in Members, WriteMember(p, m)
  PROVE  LineageInv'
  <1> USE DEF WriteMember, LineageInv, WholeInv, TypeOK
  <1>1. OutcomeIsLast' /\ StagesOwnTree' /\ KeepsDisplaced'
    BY DEF OutcomeIsLast, StagesOwnTree, KeepsDisplaced
  <1>2. Unmarked' /\ BasesAreOrdered'
    BY DEF Unmarked, BasesAreOrdered
  <1>3. staged[p] = p /\ p # Original
    BY ConstantsAssumption DEF StagesOwnTree, OutcomeIsLast, BeforeExchange
  <1>4. content'[p][m] = base[p][m] \cup {p}
    BY <1>3 DEF Successor, Contents, TreeIds
  <1>5. \A t \in TreeIds, n \in Members : t # p \/ n # m => content'[t][n] = content[t][n]
    BY <1>3 DEF Contents
  <1>6. TreesTellBases'
    BY <1>3, <1>4, <1>5 DEF TreesTellBases, CameFrom, Marks, Own, BeforeStaging
  <1>7. RootsAreWhole' /\ ReadingsTellTrees'
    BY DEF RootsAreWhole, ReadingsTellTrees, CameFrom, Marks
  <1> QED BY <1>1, <1>2, <1>6, <1>7

(* A save takes out what the history then calls undone, and what it puts    *)
(* back was undone before.                                                  *)
LEMMA SaveMarks ==
  ASSUME TypeOK, NEW e \in Edits, NEW m \in Members, NEW tree \in TreeIds,
         Saves(e, m, tree)
  PROVE  \A t \in TreeIds, n \in Members :
           /\ undone[n] \subseteq undone'[n]
           /\ content'[t][n] \cap Appliers \subseteq content[t][n] \cup undone[n]
           /\ content[t][n] \subseteq content'[t][n] \cup undone'[n]
           /\ \A c \in undone'[n] \cap Appliers :
                c \in undone[n] \/ \E x \in TreeIds : c \in content[x][n]
  <1>1. PICK bytes \in Leavable(e, m, tree) : Land(e, m, tree, bytes)
    BY DEF Saves
  <1>2. e \notin Appliers
    BY ConstantsAssumption
  <1>3. bytes \cap Appliers \subseteq content[tree][m] \cup undone[m]
    BY <1>1, <1>2, LeavableBytes
  <1>4. /\ content'[tree][m] = bytes
        /\ undone'[m] = undone[m] \cup ((content[tree][m] \cup {e}) \ bytes)
    BY <1>1 DEF Land, TypeOK, Contents
  <1>5. \A n \in Members \ {m} : undone'[n] = undone[n]
    BY <1>1 DEF Land, TypeOK
  <1>6. \A t \in TreeIds, n \in Members :
          t # tree \/ n # m => content'[t][n] = content[t][n]
    BY <1>1 DEF Land, TypeOK, Contents
  <1> QED BY <1>2, <1>3, <1>4, <1>5, <1>6

LEMMA EditorMarks ==
  ASSUME TypeOK, EditorStep
  PROVE  /\ UNCHANGED <<staged, written, pc, root, got, seen, base, outcome>>
         /\ \/ UNCHANGED <<content, undone>>
            \/ \E e \in Edits, m \in Members, t \in TreeIds : Saves(e, m, t)
  <1>1. CASE \E e \in RenameEdits, m \in Members : RenameSave(e, m)
    BY <1>1 DEF RenameSave, Edits, TypeOK
  <1>2. CASE \E e \in HandleEdits : OpenMember(e)
    BY <1>2 DEF OpenMember
  <1>3. ASSUME NEW e \in HandleEdits, NEW m \in Members, WriteOpened(e, m)
        PROVE  /\ UNCHANGED <<staged, written, pc, root, got, seen, base, outcome>>
               /\ \E t \in TreeIds : Saves(e, m, t)
    BY <1>3 DEF WriteOpened, TypeOK
  <1> QED BY <1>1, <1>2, <1>3 DEF EditorStep, Edits

LEMMA EditorLineage ==
  ASSUME LineageInv, WholeInv', EditorStep
  PROVE  LineageInv'
  <1>0. /\ UNCHANGED <<staged, written, pc, root, got, seen, base, outcome>>
        /\ \A t \in TreeIds, n \in Members :
             /\ undone[n] \subseteq undone'[n]
             /\ content'[t][n] \cap Appliers \subseteq content[t][n] \cup undone[n]
             /\ content[t][n] \subseteq content'[t][n] \cup undone'[n]
             /\ \A c \in undone'[n] \cap Appliers :
                  c \in undone[n] \/ \E x \in TreeIds : c \in content[x][n]
    BY EditorMarks, SaveMarks DEF LineageInv, WholeInv
  <1> USE <1>0 DEF LineageInv
  <1>1. OutcomeIsLast' /\ StagesOwnTree' /\ KeepsDisplaced'
    BY DEF OutcomeIsLast, StagesOwnTree, KeepsDisplaced
  <1>2. Unmarked'
    <2> SUFFICES ASSUME NEW p \in Appliers, pc[p] \in {"new", "basing"}, NEW m \in Members
                 PROVE  p \notin undone'[m]
      BY DEF Unmarked
    <2>1. p \notin undone[m] /\ \A q \in Appliers : p \notin base[q][m]
      BY DEF Unmarked
    <2>2. ASSUME NEW x \in TreeIds, p \in content[x][m] PROVE FALSE
      <3>1. CASE m \in written[x]
        <4>1. x # p
          BY <3>1 DEF TreesTellBases, BeforeStaging
        <4>2. p \in Marks(x, m)
          BY <2>1, <2>2, <3>1 DEF TreesTellBases, CameFrom
        <4> QED BY <2>1, <4>1, <4>2 DEF Marks, TreeIds
      <3>2. CASE m \notin written[x]
        BY <2>1, <2>2, <3>2 DEF TreesTellBases
      <3> QED BY <3>1, <3>2
    <2>3. \A c \in undone'[m] \cap Appliers :
            c \in undone[m] \/ \E x \in TreeIds : c \in content[x][m]
      <3>1. Original \in TreeIds
        BY DEF TreeIds
      <3> QED BY <1>0, <3>1
    <2> QED BY <2>1, <2>2, <2>3
  <1>3. BasesAreOrdered'
    BY DEF BasesAreOrdered
  <1>4. TreesTellBases'
    <2>1. \A t \in TreeIds, m \in Members :
            CameFrom(content[t][m], t, m) => CameFrom(content[t][m], t, m)'
      BY DEF CameFrom, Marks
    <2>2. \A t \in TreeIds, m \in Members :
            content[t][m] \cap Appliers \subseteq undone[m]
              => content'[t][m] \cap Appliers \subseteq undone'[m]
      OBVIOUS
    <2>3. \A t \in TreeIds : written[t] \subseteq Members
      BY DEF WholeInv, TypeOK
    <2> QED BY <2>1, <2>2, <2>3 DEF TreesTellBases
  <1>5. RootsAreWhole'
    BY DEF RootsAreWhole
  <1>6. ReadingsTellTrees'
    <2>1. \A x : \A t \in TreeIds, m \in Members : CameFrom(x, t, m) => CameFrom(x, t, m)'
      BY DEF CameFrom, Marks
    <2> QED BY <2>1 DEF ReadingsTellTrees, LineageInv, WholeInv, TypeOK
  <1> QED BY <1>1, <1>2, <1>3, <1>4, <1>5, <1>6

LEMMA LineageStep == LineageInv /\ [Next]_vars => LineageInv'
  <1> SUFFICES ASSUME LineageInv, [Next]_vars PROVE LineageInv' OBVIOUS
  <1>w. WholeInv' BY WholeStep DEF LineageInv
  <1>1. CASE UNCHANGED vars
    BY <1>1, <1>w
       DEF vars, LineageInv, OutcomeIsLast, StagesOwnTree, KeepsDisplaced, Unmarked,
       BasesAreOrdered, TreesTellBases, CameFrom, Marks, RootsAreWhole, ReadingsTellTrees
  <1>2. ASSUME NEW p \in Appliers, ApplierStep(p) PROVE LineageInv'
    <2>1. PhaseStep(p) => LineageInv'
      BY <1>w, PhaseLineage
    <2>2. Propose(p) \/ Apply(p) \/ Validate(p) \/ Exchange(p) => LineageInv'
      BY <1>w, OpenLineage
    <2>3. (\E m \in Members : ReadMember(p, m) \/ WriteMember(p, m)) => LineageInv'
      BY <1>w, ReadLineage, WriteLineage
    <2>4. Proposed(p) => LineageInv'
      BY <1>w, ProposedLineage
    <2> QED BY <1>2, <2>1, <2>2, <2>3, <2>4, PhaseSteps
               DEF ApplierStep, LineageInv, WholeInv
  <1>3. CASE EditorStep
    BY <1>3, <1>w, EditorLineage
  <1> QED BY <1>1, <1>2, <1>3 DEF Next

(* Two proposals built on the same pack both report success only where the  *)
(* author took some proposal's change out of every member in between,       *)
(* whatever their callers know of each other.                               *)
THEOREM SuccessorsNeedARestoredBase == Spec => []OneSuccessorPerBase
  <1>1. LineageInv => OneSuccessorPerBase
    <2> SUFFICES ASSUME LineageInv, NEW p \in Appliers, NEW q \in Appliers,
                        outcome[p] = "ok", outcome[q] = "ok", base[p] = base[q], p # q,
                        NEW m \in Members
                 PROVE  undone[m] \cap Appliers # {}
      BY DEF OneSuccessorPerBase, Succeeded
    <2> USE DEF LineageInv
    <2>1. root[p] # root[q]
      BY DEF KeepsDisplaced, WholeInv, NamesApart
    <2>2. root[p] \in TreeIds /\ root[q] \in TreeIds
      BY DEF WholeInv, TypeOK
    <2>3. CameFrom(base[p][m], root[p], m) /\ CameFrom(base[p][m], root[q], m)
      BY DEF ReadingsTellTrees
    <2> SUFFICES ASSUME undone[m] \cap Appliers = {} PROVE FALSE
      OBVIOUS
    <2>4. Own(root[p]) \subseteq Marks(root[q], m) /\ Own(root[q]) \subseteq Marks(root[p], m)
      BY <2>2, <2>3 DEF CameFrom, Own, TreeIds
    <2>5. root[p] # Original /\ root[q] # Original
      BY <2>1, <2>2, <2>4 DEF Own, Marks
    <2> QED BY <2>1, <2>2, <2>4, <2>5 DEF Own, Marks, TreeIds, BasesAreOrdered
  <1> QED BY <1>1, InitLineage, LineageStep, PTL DEF Spec

(***************************************************************************)
(* When callers serialise their edits and applies, as ADR 0035 asks of     *)
(* them: no saved work and no commit is lost, a recovery error keeps the   *)
(* original, and apply_proposal implements the register of PackStore,      *)
(* whatever fails, dies or is interrupted.                                 *)
(***************************************************************************)

(* One applier at work, and no editor holds a member open meanwhile; a      *)
(* handle is always one on the live tree.                                   *)
AtWork(p) == pc[p] \in Active

OneAtATime ==
  /\ \A p, q \in Appliers : AtWork(p) /\ AtWork(q) => p = q
  /\ \A p \in Appliers : AtWork(p) => NoHandle
  /\ \A e \in HandleEdits : opened[e] \subseteq {live}

(* What is captured is what the captured tree still holds.                  *)
ReadingsAreCurrent ==
  \A p \in Appliers : pc[p] \in Capturing =>
    /\ root[p] = IF pc[p] = "verifying" THEN staged[p] ELSE live
    /\ \A m \in got[p] : seen[p][m] = content[root[p]][m]

(* The base is the live pack from the check to the exchange, and what the   *)
(* staging path names from the exchange to the last way back.               *)
BaseIsInPlace ==
  \A p \in Appliers :
    /\ pc[p] \in {"staging", "rechecking", "exchanging"} => content[live] = base[p]
    /\ pc[p] \in {"rechecking", "exchanging"} => content[staged[p]] = Successor(p)
    /\ Unverified(p) => content[staged[p]] = base[p] /\ content[live] = Successor(p)

(* What was saved or committed and not undone is in the live pack, and      *)
(* before an exchange is verified also in the pack that may come back.      *)
LiveHoldsTheWork ==
  \A m \in Members : \A c \in (landed[m] \cup Succeeded) \ undone[m] :
    /\ c \in content[live][m]
    /\ \A p \in Appliers : Unverified(p) => c \in base[p][m]

OriginalIsKept ==
  \A p \in Appliers : outcome[p] = "recovery" =>
    pc[p] = "done" /\ staged[p] \notin removed /\ content[staged[p]] = base[p]

Serial ==
  /\ OneAtATime /\ ReadingsAreCurrent /\ BaseIsInPlace
  /\ LiveHoldsTheWork /\ OriginalIsKept

SerialInv == LineageInv /\ (Serialised => Serial)

LEMMA InitSerial == Init => SerialInv
  <1> SUFFICES ASSUME Init PROVE Serial
    BY InitLineage DEF SerialInv
  <1>1. OneAtATime /\ ReadingsAreCurrent /\ BaseIsInPlace
    BY DEF Init, OneAtATime, AtWork, Active, Capturing, Unopened, ReadingsAreCurrent,
           BaseIsInPlace, Unverified
  <1>2. LiveHoldsTheWork /\ OriginalIsKept
    BY DEF Init, LiveHoldsTheWork, Succeeded, OriginalIsKept
  <1> QED BY <1>1, <1>2 DEF Serial

(* A completed capture is the captured tree, which is the base when the     *)
(* exchange has displaced it.                                               *)
LEMMA CaptureIsExact ==
  ASSUME TypeOK, ReadingsAreCurrent, NEW p \in Appliers, pc[p] \in Capturing, Captured(p)
  PROVE  seen[p] = content[root[p]]
  BY DEF ReadingsAreCurrent, Captured, TypeOK, Contents

--------------------------------------------------------------------------------
(* The steps of one applier, each alone at work.                            *)

(* A call that ends without moving a name.                                  *)
Ends(p) ==
  \/ EarlyCaptureFails(p) \/ StagingFails(p) \/ KeepForRecovery(p) \/ Interrupted(p)
  \/ Crash(p)

LEMMA EndsSerial ==
  ASSUME LineageInv, Serial, NEW p \in Appliers, Ends(p)
  PROVE  Serial'
  <1>0. /\ UNCHANGED <<live, staged, content, removed, root, got, seen, base, opened, landed,
                       undone>>
        /\ pc[p] \in Active
        /\ pc'[p] \in {"cleanup", "done"}
        /\ \A q \in Appliers \ {p} : pc'[q] = pc[q] /\ outcome'[q] = outcome[q]
        /\ \/ outcome'[p] \in {"failed", "crashed"}
           \/ outcome'[p] = "recovery" /\ pc[p] = "rescuing" /\ pc'[p] = "done"
    <2> USE DEF FailTo, Active, Capturing, LineageInv, WholeInv, TypeOK
    <2>1. CASE EarlyCaptureFails(p) \/ StagingFails(p)
      BY <2>1 DEF EarlyCaptureFails, StagingFails
    <2>2. CASE KeepForRecovery(p)
      BY <2>2 DEF KeepForRecovery
    <2>3. CASE Interrupted(p) \/ Crash(p)
      BY <2>3 DEF Interrupted, Crash
    <2> QED BY <2>1, <2>2, <2>3 DEF Ends
  <1> USE <1>0 DEF LineageInv, WholeInv, TypeOK, Serial
  <1>1. OneAtATime'
    BY DEF OneAtATime, AtWork, NoHandle
  <1>2. ReadingsAreCurrent'
    BY DEF ReadingsAreCurrent, Capturing
  <1>3. BaseIsInPlace'
    BY DEF BaseIsInPlace, Unverified, Successor
  <1>4. LiveHoldsTheWork'
    BY DEF LiveHoldsTheWork, Unverified, Succeeded
  <1>5. OriginalIsKept'
    BY DEF OriginalIsKept, BaseIsInPlace, Unverified, StagedIsKept, OutcomeIsLast
  <1> QED BY <1>1, <1>2, <1>3, <1>4, <1>5

(* A call starts only when nobody is at work and no member is held open.    *)
LEMMA OpenSerial ==
  ASSUME LineageInv, Serial, NEW p \in Appliers, Propose(p) \/ Apply(p) \/ Validate(p), Serialised
  PROVE  Serial'
  <1> USE DEF Propose, Apply, Validate, OpenCapture, Unread, MayStart, LineageInv,
              WholeInv, TypeOK, Serial
  <1>1. OneAtATime'
    BY DEF OneAtATime, AtWork, NoHandle, Quiet, Active, Capturing
  <1>2. ReadingsAreCurrent'
    BY DEF ReadingsAreCurrent, Capturing, Quiet, Active, OneAtATime, AtWork
  <1>3. BaseIsInPlace'
    <2>1. CASE Validate(p)
      <3>1. content[live] = base[p] /\ content[staged[p]] = Successor(p)
        BY <2>1 DEF BaseIsInPlace
      <3>2. \A q \in Appliers \ {p} : pc'[q] = pc[q] /\ pc[q] \notin Active
        BY <2>1 DEF OneAtATime, AtWork, Active
      <3>3. Successor(p)' = Successor(p)
        BY <2>1 DEF Successor
      <3>4. pc'[p] = "rechecking" /\ content'[live'] = base'[p]
            /\ content'[staged'[p]] = Successor(p)'
        BY <2>1, <3>1, <3>3
      <3> QED BY <3>2, <3>4 DEF BaseIsInPlace, Unverified, Active, Capturing
    <2>2. CASE Propose(p)
      <3>1. \A q \in Appliers : q # p => pc'[q] = pc[q]
        BY <2>2
      <3>2. pc'[p] = "basing" /\ UNCHANGED <<staged, live, content, base, outcome>>
        BY <2>2
      <3> QED BY <2>2, <3>1, <3>2 DEF BaseIsInPlace, Unverified, Successor
    <2>3. CASE Apply(p)
      <3>1. \A q \in Appliers : q # p => pc'[q] = pc[q]
        BY <2>3
      <3>2. pc'[p] = "checking" /\ UNCHANGED <<staged, live, content, base, outcome>>
        BY <2>3
      <3> QED BY <2>3, <3>1, <3>2 DEF BaseIsInPlace, Unverified, Successor
    <2> QED BY <2>1, <2>2, <2>3
  <1>4. LiveHoldsTheWork'
    BY DEF LiveHoldsTheWork, Unverified, Succeeded
  <1>5. OriginalIsKept'
    BY DEF OriginalIsKept, OutcomeIsLast
  <1> QED BY <1>1, <1>2, <1>3, <1>4, <1>5

LEMMA ProposedSerial ==
  ASSUME LineageInv, Serial, NEW p \in Appliers, Proposed(p)
  PROVE  Serial'
  <1> USE DEF Proposed, LineageInv, WholeInv, TypeOK, Serial
  <1>1. OneAtATime'
    BY DEF OneAtATime, AtWork, NoHandle, Active, Capturing
  <1>2. ReadingsAreCurrent'
    BY DEF ReadingsAreCurrent, Capturing
  <1>3. BaseIsInPlace'
    BY DEF BaseIsInPlace, Unverified, Successor, OneAtATime, AtWork, Active, Capturing
  <1>4. LiveHoldsTheWork'
    BY DEF LiveHoldsTheWork, Unverified, Succeeded, OneAtATime, AtWork, Active,
       Capturing
  <1>5. OriginalIsKept'
    BY DEF OriginalIsKept, OutcomeIsLast
  <1> QED BY <1>1, <1>2, <1>3, <1>4, <1>5

LEMMA ReadSerial ==
  ASSUME LineageInv, Serial, NEW p \in Appliers, NEW m \in Members, ReadMember(p, m)
  PROVE  Serial'
  <1> USE DEF ReadMember, LineageInv, WholeInv, TypeOK, Serial
  <1>1. OneAtATime'
    BY DEF OneAtATime, AtWork, NoHandle
  <1>2. ReadingsAreCurrent'
    BY DEF ReadingsAreCurrent, Contents
  <1>3. BaseIsInPlace'
    BY DEF BaseIsInPlace, Unverified, Successor
  <1>4. LiveHoldsTheWork'
    BY DEF LiveHoldsTheWork, Unverified, Succeeded
  <1>5. OriginalIsKept'
    BY DEF OriginalIsKept, OutcomeIsLast
  <1> QED BY <1>1, <1>2, <1>3, <1>4, <1>5

LEMMA WriteSerial ==
  ASSUME LineageInv, Serial, NEW p \in Appliers, NEW m \in Members, WriteMember(p, m)
  PROVE  Serial'
  <1> USE DEF WriteMember, LineageInv, WholeInv, TypeOK, Serial
  <1>a. \A t \in TreeIds \ {staged[p]} : content'[t] = content[t]
    OBVIOUS
  <1>b. staged[p] # live /\ \A q \in Appliers \ {p} : staged[q] # staged[p]
    BY DEF NamesApart
  <1>1. OneAtATime'
    BY DEF OneAtATime, AtWork, NoHandle
  <1>2. ReadingsAreCurrent'
    BY <1>a, <1>b DEF ReadingsAreCurrent, OneAtATime, AtWork, Active, Capturing
  <1>3. BaseIsInPlace'
    BY <1>a, <1>b
       DEF BaseIsInPlace, Unverified, Successor, OneAtATime, AtWork, Active, Capturing
  <1>4. LiveHoldsTheWork'
    BY <1>a, <1>b DEF LiveHoldsTheWork, Unverified, Succeeded
  <1>5. OriginalIsKept'
    BY <1>a, <1>b DEF OriginalIsKept, OutcomeIsLast
  <1> QED BY <1>1, <1>2, <1>3, <1>4, <1>5

LEMMA CheckSerial ==
  ASSUME LineageInv, Serial, NEW p \in Appliers, Check(p)
  PROVE  Serial'
  <1> USE DEF Check, FailTo, BaseUnchanged, LineageInv, WholeInv, TypeOK, Serial
  <1>a. seen[p] = content[live]
    BY CaptureIsExact DEF ReadingsAreCurrent, Capturing
  <1>b. pc'[p] \in {"staging", "done"} /\ \A q \in Appliers \ {p} : pc'[q] = pc[q]
    OBVIOUS
  <1>1. OneAtATime'
    BY <1>b DEF OneAtATime, AtWork, NoHandle, Active, Capturing
  <1>2. ReadingsAreCurrent'
    BY DEF ReadingsAreCurrent, Capturing
  <1>3. BaseIsInPlace'
    BY <1>a DEF BaseIsInPlace, Unverified, Successor
  <1>4. LiveHoldsTheWork'
    BY DEF LiveHoldsTheWork, Unverified, Succeeded
  <1>5. OriginalIsKept'
    BY DEF OriginalIsKept, OutcomeIsLast
  <1> QED BY <1>1, <1>2, <1>3, <1>4, <1>5

LEMMA RecheckSerial ==
  ASSUME LineageInv, Serial, NEW p \in Appliers, Recheck(p)
  PROVE  Serial'
  <1> USE DEF Recheck, FailTo, BaseUnchanged, LineageInv, WholeInv, TypeOK, Serial
  <1>1. OneAtATime'
    BY DEF OneAtATime, AtWork, NoHandle, Active, Capturing
  <1>2. ReadingsAreCurrent'
    BY DEF ReadingsAreCurrent, Capturing
  <1>3. BaseIsInPlace'
    BY DEF BaseIsInPlace, Unverified, Successor
  <1>4. LiveHoldsTheWork'
    BY DEF LiveHoldsTheWork, Unverified, Succeeded
  <1>5. OriginalIsKept'
    BY DEF OriginalIsKept, OutcomeIsLast
  <1> QED BY <1>1, <1>2, <1>3, <1>4, <1>5

LEMMA ExchangeSerial ==
  ASSUME LineageInv, Serial, NEW p \in Appliers, Exchange(p)
  PROVE  Serial'
  <1> USE DEF Exchange, SwapNames, OpenCapture, Unread, LineageInv, WholeInv, TypeOK,
              Serial
  <1>a. NoHandle /\ \A q \in Appliers \ {p} : pc[q] \notin Active
    BY DEF OneAtATime, AtWork, Active
  <1>b. content[live] = base[p] /\ content[staged[p]] = Successor(p)
    BY DEF BaseIsInPlace
  <1>1. OneAtATime'
    BY <1>a DEF OneAtATime, AtWork, NoHandle, Active, Unopened
  <1>2. ReadingsAreCurrent'
    BY <1>a DEF ReadingsAreCurrent, Active, Capturing
  <1>3. BaseIsInPlace'
    BY <1>a, <1>b DEF BaseIsInPlace, Unverified, Successor, Active, Capturing
  <1>4. LiveHoldsTheWork'
    BY <1>a, <1>b
       DEF LiveHoldsTheWork, Unverified, Succeeded, Active, Capturing, Successor
  <1>5. OriginalIsKept'
    BY DEF OriginalIsKept, OutcomeIsLast
  <1> QED BY <1>1, <1>2, <1>3, <1>4, <1>5

(* Nobody changes the pack meanwhile, so what was displaced is the base.     *)
LEMMA VerifySerial ==
  ASSUME LineageInv, Serial, NEW p \in Appliers, Verify(p)
  PROVE  Serial'
  <1> USE DEF Verify, BaseUnchanged, LineageInv, WholeInv, TypeOK, Serial
  <1>a. seen[p] = base[p]
    BY CaptureIsExact DEF ReadingsAreCurrent, BaseIsInPlace, Unverified, Capturing
  <1>b. Succeeded' \subseteq Succeeded \cup {p}
    BY <1>a DEF Succeeded
  <1>c. \A m \in Members : p \in content[live][m]
    <2>1. content[live] = Successor(p)
      BY DEF BaseIsInPlace, Unverified
    <2> QED BY <2>1 DEF Successor
  <1>d. \A q \in Appliers : ~Unverified(q)'
    BY <1>a DEF OneAtATime, AtWork, Active, Capturing, Unverified
  <1>1. OneAtATime'
    BY <1>a DEF OneAtATime, AtWork, NoHandle, Active, Capturing
  <1>2. ReadingsAreCurrent'
    BY <1>a DEF ReadingsAreCurrent, Capturing
  <1>3. BaseIsInPlace'
    BY <1>a DEF BaseIsInPlace, Unverified, Successor
  <1>4. LiveHoldsTheWork'
    BY <1>a, <1>b, <1>d, <1>c DEF LiveHoldsTheWork, Unverified, Succeeded
  <1>5. OriginalIsKept'
    BY <1>a DEF OriginalIsKept, OutcomeIsLast
  <1> QED BY <1>1, <1>2, <1>3, <1>4, <1>5

LEMMA RestoreSerial ==
  ASSUME LineageInv, Serial, NEW p \in Appliers, Restore(p)
  PROVE  Serial'
  <1> USE DEF Restore, SwapNames, FailTo, LineageInv, WholeInv, TypeOK, Serial
  <1>a. NoHandle /\ \A q \in Appliers \ {p} : pc[q] \notin Active
    BY DEF OneAtATime, AtWork, Active
  <1>b. content[staged[p]] = base[p]
    BY DEF BaseIsInPlace, Unverified
  <1>1. OneAtATime'
    BY <1>a DEF OneAtATime, AtWork, NoHandle, Active, Unopened
  <1>2. ReadingsAreCurrent'
    BY <1>a DEF ReadingsAreCurrent, Active, Capturing
  <1>3. BaseIsInPlace'
    BY <1>a DEF BaseIsInPlace, Unverified, Successor, Active, Capturing
  <1>4. LiveHoldsTheWork'
    BY <1>a, <1>b DEF LiveHoldsTheWork, Unverified, Succeeded, Active
  <1>5. OriginalIsKept'
    BY DEF OriginalIsKept, OutcomeIsLast
  <1> QED BY <1>1, <1>2, <1>3, <1>4, <1>5

LEMMA RescueSerial ==
  ASSUME LineageInv, Serial, NEW p \in Appliers, EnterRescue(p)
  PROVE  Serial'
  <1> USE DEF EnterRescue, LineageInv, WholeInv, TypeOK, Serial
  <1>1. OneAtATime'
    BY DEF OneAtATime, AtWork, NoHandle, Active, Capturing
  <1>2. ReadingsAreCurrent'
    BY DEF ReadingsAreCurrent, Capturing
  <1>3. BaseIsInPlace'
    BY DEF BaseIsInPlace, Unverified, Successor
  <1>4. LiveHoldsTheWork'
    BY DEF LiveHoldsTheWork, Unverified, Succeeded
  <1>5. OriginalIsKept'
    BY DEF OriginalIsKept, OutcomeIsLast
  <1> QED BY <1>1, <1>2, <1>3, <1>4, <1>5

LEMMA CleanupSerial ==
  ASSUME LineageInv, Serial, NEW p \in Appliers, Cleanup(p)
  PROVE  Serial'
  <1> USE DEF Cleanup, LineageInv, WholeInv, TypeOK, Serial
  <1>1. OneAtATime'
    BY DEF OneAtATime, AtWork, NoHandle, Active
  <1>2. ReadingsAreCurrent'
    BY DEF ReadingsAreCurrent, Capturing
  <1>3. BaseIsInPlace'
    BY DEF BaseIsInPlace, Unverified, Successor
  <1>4. LiveHoldsTheWork'
    BY DEF LiveHoldsTheWork, Unverified, Succeeded
  <1>5. OriginalIsKept'
    BY DEF OriginalIsKept, OutcomeIsLast, NamesApart
  <1> QED BY <1>1, <1>2, <1>3, <1>4, <1>5

(* The editor changes the live pack, and nobody is at work meanwhile.       *)
SavesLive ==
  /\ UNCHANGED <<live, staged, removed, pc, root, got, seen, base, outcome>>
  /\ \A p \in Appliers : pc[p] \notin Active
  /\ \A e \in HandleEdits : opened'[e] \subseteq {live}
  /\ \/ UNCHANGED <<content, landed, undone>>
     \/ \E e \in Edits, m \in Members : Saves(e, m, live)

LEMMA EditorSavesLive ==
  ASSUME TypeOK, OneAtATime, EditorStep, Serialised
  PROVE  SavesLive
  <1>1. ASSUME NEW e \in RenameEdits, NEW m \in Members, RenameSave(e, m) PROVE SavesLive
    BY <1>1 DEF RenameSave, Quiet, Edits, OneAtATime, SavesLive
  <1>2. ASSUME NEW e \in HandleEdits, OpenMember(e) PROVE SavesLive
    BY <1>2 DEF OpenMember, Quiet, OneAtATime, SavesLive, TypeOK
  <1>3. ASSUME NEW e \in HandleEdits, NEW m \in Members, WriteOpened(e, m) PROVE SavesLive
    <2>1. opened[e] # Unopened /\ Saves(e, m, live)
      BY <1>3 DEF WriteOpened, OneAtATime, Unopened
    <2>2. \A p \in Appliers : pc[p] \notin Active
      BY <2>1 DEF OneAtATime, AtWork, NoHandle
    <2> QED BY <1>3, <2>1, <2>2
               DEF WriteOpened, Edits, OneAtATime, SavesLive, TypeOK, Unopened
  <1> QED BY <1>1, <1>2, <1>3 DEF EditorStep

LEMMA EditorSerial ==
  ASSUME LineageInv, Serial, SavesLive
  PROVE  Serial'
  <1> USE DEF SavesLive, LineageInv, WholeInv, TypeOK, Serial
  <1>1. OneAtATime'
    BY DEF OneAtATime, AtWork
  <1>2. ReadingsAreCurrent' /\ BaseIsInPlace'
    BY DEF ReadingsAreCurrent, BaseIsInPlace, Unverified, Active, Capturing
  <1>3. LiveHoldsTheWork'
    <2>1. \A p \in Appliers : ~Unverified(p)'
      BY DEF Unverified, Active, Capturing
    <2>2. \A m \in Members : \A c \in (landed'[m] \cup Succeeded') \ undone'[m] :
            c \in content'[live][m]
      <3>1. CASE UNCHANGED <<content, landed, undone>>
        BY <3>1 DEF LiveHoldsTheWork, Succeeded
      <3>2. ASSUME NEW e \in Edits, NEW n \in Members, NEW bytes, Land(e, n, live, bytes)
            PROVE  \A m \in Members : \A c \in (landed'[m] \cup Succeeded') \ undone'[m] :
                     c \in content'[live][m]
        <4>1. /\ landed'[n] = landed[n] \cup {e} /\ content'[live][n] = bytes
              /\ undone'[n] = undone[n] \cup ((content[live][n] \cup {e}) \ bytes)
          BY <3>2 DEF Land, Contents
        <4>2. \A m \in Members \ {n} : /\ landed'[m] = landed[m] /\ undone'[m] = undone[m]
                                     /\ content'[live][m] = content[live][m]
          BY <3>2 DEF Land, Contents
        <4> QED BY <4>1, <4>2 DEF LiveHoldsTheWork, Succeeded
      <3> QED BY <3>1, <3>2 DEF Saves
    <2> QED BY <2>1, <2>2 DEF LiveHoldsTheWork
  <1>4. OriginalIsKept'
    <2>1. \A t \in TreeIds \ {live} : content'[t] = content[t]
      BY DEF Saves, Land
    <2>2. \A p \in Appliers : staged[p] # live
      BY DEF NamesApart
    <2> QED BY <2>1, <2>2 DEF OriginalIsKept
  <1> QED BY <1>1, <1>2, <1>3, <1>4

LEMMA SerialStep == SerialInv /\ [Next]_vars => SerialInv'
  <1> SUFFICES ASSUME SerialInv, [Next]_vars, Serialised PROVE Serial'
    BY LineageStep DEF SerialInv, Next, vars, Serialised
  <1> LineageInv /\ Serial BY DEF SerialInv
  <1>1. CASE UNCHANGED vars
    BY <1>1
       DEF vars, Serial, OneAtATime, AtWork, NoHandle, ReadingsAreCurrent,
           BaseIsInPlace,
       Unverified, Successor, LiveHoldsTheWork, Succeeded, OriginalIsKept
  <1>2. ASSUME NEW p \in Appliers, ApplierStep(p) PROVE Serial'
    BY <1>2, EndsSerial, OpenSerial, ProposedSerial, ReadSerial, WriteSerial,
       CheckSerial,
       RecheckSerial, ExchangeSerial, VerifySerial, RestoreSerial, RescueSerial, CleanupSerial
       DEF ApplierStep, Ends
  <1>3. CASE EditorStep
    BY <1>3, EditorSavesLive, EditorSerial DEF LineageInv, WholeInv, Serial
  <1> QED BY <1>1, <1>2, <1>3 DEF Next

--------------------------------------------------------------------------------
(* No save and no commit that was reported is ever deleted with a staging   *)
(* directory: the live tree holds it all.                                   *)
THEOREM SavedWorkAlwaysSurvives == Spec => []SavedWorkSurvives
  <1>1. SerialInv => SavedWorkSurvives
    <2> SUFFICES ASSUME SerialInv, Serialised PROVE live \in TreeIds \ removed /\ LiveHoldsTheWork
      BY DEF SavedWorkSurvives, LiveHoldsTheWork
    <2> QED BY DEF SerialInv, Serial, LineageInv, WholeInv, TypeOK, LiveTreeIsWhole
  <1> QED BY <1>1, InitSerial, SerialStep, PTL DEF Spec

(* After a recovery error the original is where the error says, unchanged.  *)
THEOREM RecoveryAlwaysKeepsOriginal == Spec => []RecoveryKeepsOriginal
  <1>1. SerialInv => RecoveryKeepsOriginal
    BY DEF SerialInv, Serial, OriginalIsKept, RecoveryKeepsOriginal
  <1> QED BY <1>1, InitSerial, SerialStep, PTL DEF Spec

--------------------------------------------------------------------------------
(***************************************************************************)
(* apply_proposal implements the register of PackStore.                    *)
(***************************************************************************)

(* The register is the live pack while nobody verifies an exchange, and     *)
(* otherwise what the exchange displaced.                                   *)
LEMMA RegisterIsLive ==
  ASSUME \A p \in Appliers : ~Unverified(p)
  PROVE  LogicalPack = content[live]
  BY DEF LogicalPack

LEMMA RegisterIsStaged ==
  ASSUME OneAtATime, NEW p \in Appliers, Unverified(p)
  PROVE  LogicalPack = content[staged[p]]
  <1>1. \A q \in Appliers : Unverified(q) => q = p
    BY DEF OneAtATime, AtWork, Active, Capturing, Unverified
  <1>2. (CHOOSE q \in Appliers : Unverified(q)) = p
    BY <1>1
  <1> QED BY <1>2 DEF LogicalPack

(* The same in the next state.                                              *)
LEMMA RegisterIsLiveNext ==
  ASSUME \A p \in Appliers : ~Unverified(p)'
  PROVE  LogicalPack' = content'[live']
  BY DEF LogicalPack

LEMMA RegisterIsStagedNext ==
  ASSUME OneAtATime', NEW p \in Appliers, Unverified(p)'
  PROVE  LogicalPack' = content'[staged'[p]]
  <1>1. \A q \in Appliers : Unverified(q)' => q = p
    BY DEF OneAtATime, AtWork, Active, Capturing, Unverified
  <1>2. (CHOOSE q \in Appliers : Unverified(q)') = p
    BY <1>1
  <1> QED BY <1>2 DEF LogicalPack

(* What a step of KitCommit has to show of the register to be one of it.    *)
OthersKeepStatus(p) == \A q \in Appliers \ {p} : StatusOf(q)' = StatusOf(q)

LEMMA StoreStutters ==
  ASSUME Serialised, Serialised', LogicalPack' = LogicalPack, base' = base,
         \A p \in Appliers : StatusOf(p)' = StatusOf(p)
  PROVE  UNCHANGED Store!storeVars
  BY DEF Store!storeVars

LEMMA StoreSaves ==
  ASSUME Serialised, Serialised', NEW m \in Members, NEW bytes,
         LogicalPack' = [LogicalPack EXCEPT ![m] = bytes], base' = base,
         \A p \in Appliers : StatusOf(p)' = StatusOf(p)
  PROVE  Store!Save(m, bytes)
  BY DEF Store!Save

LEMMA StoreBuilds ==
  ASSUME TypeOK, Serialised, Serialised', NEW p \in Appliers, LogicalPack' = LogicalPack,
         base' = [base EXCEPT ![p] = LogicalPack],
         StatusOf(p) = "unbuilt", StatusOf(p)' = "proposed", OthersKeepStatus(p)
  PROVE  Store!Build(p)
  BY DEF Store!Build, OthersKeepStatus, TypeOK

LEMMA StoreSwaps ==
  ASSUME Serialised, Serialised', NEW p \in Appliers, LogicalPack = base[p],
         LogicalPack' = Successor(p), base' = base,
         StatusOf(p) = "proposed", StatusOf(p)' = "ok", OthersKeepStatus(p)
  PROVE  Store!Swap(p)
  BY DEF Store!Swap, Store!SuccessorOf, Successor, OthersKeepStatus

LEMMA StoreRefuses ==
  ASSUME Serialised, Serialised', NEW p \in Appliers, LogicalPack' = LogicalPack, base' = base,
         StatusOf(p) \in {"unbuilt", "proposed"}, StatusOf(p)' = "failed", OthersKeepStatus(p)
  PROVE  Store!Refuse(p)
  BY DEF Store!Refuse, OthersKeepStatus

LEMMA StoreInterrupts ==
  ASSUME Serialised, Serialised', NEW p \in Appliers, base' = base,
         \/ LogicalPack' = LogicalPack
         \/ /\ StatusOf(p) = "proposed" /\ LogicalPack = base[p]
            /\ LogicalPack' = Successor(p),
         StatusOf(p) \in {"unbuilt", "proposed", "ok", "failed"},
         StatusOf(p)' = "interrupted", OthersKeepStatus(p)
  PROVE  Store!Interrupt(p)
  BY DEF Store!Interrupt, Store!SuccessorOf, Successor, OthersKeepStatus

RegisterStep == Store!StoreNext \/ UNCHANGED Store!storeVars

(* Before the exchange of the one applier at work, and after its return,    *)
(* the register is the live pack.                                           *)
LEMMA EarlySteps ==
  ASSUME TypeOK, OutcomeIsLast, Serial, Serialised, UNCHANGED callers, NEW p \in Appliers,
         \/ Propose(p) \/ Apply(p) \/ Validate(p) \/ Check(p) \/ Recheck(p) \/ Cleanup(p)
         \/ EarlyCaptureFails(p) \/ StagingFails(p)
         \/ \E m \in Members : ReadMember(p, m) /\ ~Unverified(p)
  PROVE  RegisterStep
  <1> DEFINE Reads == \E m \in Members : ReadMember(p, m) /\ ~Unverified(p)
  <1>0. Serialised'
    BY DEF Serialised
  <1>1. /\ UNCHANGED <<live, content, base>>
        /\ ~Unverified(p) /\ ~Unverified(p)'
        /\ \A q \in Appliers \ {p} : pc'[q] = pc[q] /\ outcome'[q] = outcome[q] /\ ~Unverified(q)
    <2> USE DEF TypeOK, Unverified
    <2>1. CASE Propose(p) \/ Apply(p)
      BY <2>1 DEF Propose, Apply, OpenCapture, MayStart, Quiet, Active, Capturing
    <2>2. CASE Validate(p)
      BY <2>2 DEF Validate, OpenCapture, Serial, OneAtATime, AtWork, Active, Capturing
    <2>3. CASE Check(p) \/ Recheck(p)
      BY <2>3 DEF Check, Recheck, FailTo, Serial, OneAtATime, AtWork, Active, Capturing
    <2>4. CASE Cleanup(p)
      BY <2>4 DEF Cleanup, Serial, OneAtATime, AtWork, Active, Capturing
    <2>5. CASE EarlyCaptureFails(p) \/ StagingFails(p)
      BY <2>5
         DEF EarlyCaptureFails, StagingFails, FailTo, Serial, OneAtATime, AtWork,
             Active, Capturing
    <2>6. CASE Reads
      BY <2>6 DEF ReadMember, Serial, OneAtATime, AtWork, Active, Capturing
    <2> QED BY <2>1, <2>2, <2>3, <2>4, <2>5, <2>6
  <1>2. LogicalPack' = LogicalPack
    <2>1. \A q \in Appliers : ~Unverified(q) /\ ~Unverified(q)'
      BY <1>1 DEF Unverified
    <2> QED BY <1>1, <2>1, RegisterIsLive, RegisterIsLiveNext
  <1>3. OthersKeepStatus(p)
    BY <1>1 DEF OthersKeepStatus, StatusOf
  <1>4. \/ StatusOf(p)' = StatusOf(p)
        \/ StatusOf(p) \in {"unbuilt", "proposed"} /\ StatusOf(p)' = "failed"
    <2> USE DEF OutcomeIsLast, StatusOf, TypeOK
    <2>1. CASE Propose(p) \/ Apply(p) \/ Validate(p)
      BY <2>1 DEF Propose, Apply, Validate, OpenCapture
    <2>2. CASE Check(p) \/ Recheck(p)
      BY <2>2 DEF Check, Recheck, FailTo
    <2>3. CASE Cleanup(p)
      BY <2>3 DEF Cleanup
    <2>4. CASE EarlyCaptureFails(p) \/ StagingFails(p)
      BY <2>4 DEF EarlyCaptureFails, StagingFails, FailTo
    <2>5. CASE Reads
      BY <2>5 DEF ReadMember
    <2> QED BY <2>1, <2>2, <2>3, <2>4, <2>5
  <1>5. CASE StatusOf(p)' = StatusOf(p)
    BY <1>0, <1>1, <1>2, <1>3, <1>5, StoreStutters DEF OthersKeepStatus, RegisterStep
  <1>6. CASE StatusOf(p) \in {"unbuilt", "proposed"} /\ StatusOf(p)' = "failed"
    BY <1>0, <1>1, <1>2, <1>3, <1>6, StoreRefuses DEF RegisterStep, Store!StoreNext
  <1> QED BY <1>4, <1>5, <1>6

(* The members of the staged tree are written where nobody looks.           *)
LEMMA WriteStep ==
  ASSUME TypeOK, NamesApart, Serial, Serialised, UNCHANGED callers,
         NEW p \in Appliers, NEW m \in Members, WriteMember(p, m)
  PROVE  RegisterStep
  <1>0. Serialised'
    BY DEF Serialised
  <1>1. \A q \in Appliers : ~Unverified(q) /\ ~Unverified(q)'
    BY DEF WriteMember, Serial, OneAtATime, AtWork, Active, Capturing, Unverified
  <1>2. content'[live'] = content[live]
    BY DEF WriteMember, NamesApart, TypeOK
  <1>3. LogicalPack' = LogicalPack
    BY <1>1, <1>2, RegisterIsLive, RegisterIsLiveNext
  <1>4. base' = base /\ \A q \in Appliers : StatusOf(q)' = StatusOf(q)
    BY DEF WriteMember, StatusOf
  <1> QED BY <1>0, <1>3, <1>4, StoreStutters DEF RegisterStep

(* A proposal is built on the register: its capture is the live pack.       *)
LEMMA ProposedStep ==
  ASSUME TypeOK, OutcomeIsLast, Serial, Serialised, UNCHANGED callers,
         NEW p \in Appliers, Proposed(p)
  PROVE  RegisterStep
  <1>0. Serialised'
    BY DEF Serialised
  <1>1. \A q \in Appliers : ~Unverified(q) /\ ~Unverified(q)'
    BY DEF Proposed, Serial, OneAtATime, AtWork, Active, Capturing, Unverified, TypeOK
  <1>2. LogicalPack' = LogicalPack /\ LogicalPack = content[live]
    BY <1>1, RegisterIsLive, RegisterIsLiveNext DEF Proposed
  <1>3. seen[p] = content[live]
    BY CaptureIsExact DEF Proposed, Serial, ReadingsAreCurrent, Capturing
  <1>4. base' = [base EXCEPT ![p] = LogicalPack]
    BY <1>2, <1>3 DEF Proposed
  <1>5. StatusOf(p) = "unbuilt" /\ StatusOf(p)' = "proposed" /\ OthersKeepStatus(p)
    BY DEF Proposed, StatusOf, OthersKeepStatus, OutcomeIsLast, TypeOK
  <1> QED BY <1>0, <1>2, <1>4, <1>5, StoreBuilds DEF RegisterStep, Store!StoreNext

(* The exchange shows nothing yet: the register is what it displaces.       *)
LEMMA ExchangeStep ==
  ASSUME TypeOK, OutcomeIsLast, Serial, Serial', Serialised, UNCHANGED callers,
         NEW p \in Appliers, Exchange(p)
  PROVE  RegisterStep
  <1>0. Serialised'
    BY DEF Serialised
  <1>1. \A q \in Appliers : ~Unverified(q)
    BY DEF Exchange, Serial, OneAtATime, AtWork, Active, Capturing, Unverified
  <1>2. Unverified(p)' /\ staged'[p] = live /\ UNCHANGED content
    BY DEF Exchange, SwapNames, OpenCapture, Unverified, TypeOK
  <1>3. LogicalPack' = content'[staged'[p]]
    BY <1>2, RegisterIsStagedNext DEF Serial
  <1>4. LogicalPack' = LogicalPack
    BY <1>1, <1>2, <1>3, RegisterIsLive
  <1>5. base' = base /\ \A q \in Appliers : StatusOf(q)' = StatusOf(q)
    BY DEF Exchange, OpenCapture, StatusOf, TypeOK, OutcomeIsLast
  <1> QED BY <1>0, <1>4, <1>5, StoreStutters DEF RegisterStep

(* What an applier between its exchange and its verification knows.         *)
LEMMA BetweenExchangeAndVerdict ==
  ASSUME Serial, NEW p \in Appliers, Unverified(p)
  PROVE  /\ LogicalPack = base[p]
         /\ content[staged[p]] = base[p] /\ content[live] = Successor(p)
         /\ \A q \in Appliers \ {p} : ~Unverified(q)
  <1>1. content[staged[p]] = base[p] /\ content[live] = Successor(p)
    BY DEF Serial, BaseIsInPlace
  <1>2. LogicalPack = base[p]
    BY <1>1, RegisterIsStaged DEF Serial
  <1> QED BY <1>1, <1>2 DEF Serial, OneAtATime, AtWork, Active, Capturing, Unverified

LEMMA UnverifiedReads ==
  ASSUME TypeOK, Serial, Serial', Serialised, UNCHANGED callers, NEW p \in Appliers,
         Unverified(p), EnterRescue(p) \/ \E m \in Members : ReadMember(p, m)
  PROVE  RegisterStep
  <1>0. Serialised'
    BY DEF Serialised
  <1>1. Unverified(p)' /\ UNCHANGED <<staged, content, base, outcome>>
    BY DEF EnterRescue, ReadMember, Unverified, TypeOK
  <1>2. LogicalPack' = LogicalPack
    BY <1>1, RegisterIsStaged, RegisterIsStagedNext DEF Serial
  <1>3. \A q \in Appliers : StatusOf(q)' = StatusOf(q)
    BY DEF EnterRescue, ReadMember, StatusOf, TypeOK, Unverified
  <1> QED BY <1>0, <1>1, <1>2, <1>3, StoreStutters DEF RegisterStep

(* The verification is the swap: what was displaced is the base.            *)
LEMMA VerifyStep ==
  ASSUME TypeOK, OutcomeIsLast, Serial, Serialised, UNCHANGED callers,
         NEW p \in Appliers, Verify(p)
  PROVE  RegisterStep
  <1>0. Serialised' /\ Unverified(p)
    BY DEF Serialised, Verify, Unverified
  <1>1. seen[p] = base[p]
    BY <1>0, CaptureIsExact
       DEF Verify, Serial, ReadingsAreCurrent, BaseIsInPlace, Capturing
  <1>2. /\ pc' = [pc EXCEPT ![p] = "cleanup"] /\ outcome' = [outcome EXCEPT ![p] = "ok"]
        /\ UNCHANGED <<live, content, base>>
    BY <1>1 DEF Verify, BaseUnchanged
  <1>3. LogicalPack' = content[live]
    <2>1. \A q \in Appliers : ~Unverified(q)'
      BY <1>0, <1>2, BetweenExchangeAndVerdict DEF Unverified, TypeOK
    <2> QED BY <1>2, <2>1, RegisterIsLiveNext
  <1>4. LogicalPack = base[p] /\ content[live] = Successor(p)
    BY <1>0, BetweenExchangeAndVerdict
  <1>5. StatusOf(p) = "proposed" /\ StatusOf(p)' = "ok" /\ OthersKeepStatus(p)
    BY <1>2 DEF Verify, StatusOf, OthersKeepStatus, OutcomeIsLast, TypeOK
  <1> QED BY <1>0, <1>2, <1>3, <1>4, <1>5, StoreSwaps DEF RegisterStep, Store!StoreNext

(* The exchange back is a refusal: the register never changed.              *)
LEMMA RestoreStep ==
  ASSUME TypeOK, OutcomeIsLast, Serial, Serialised, UNCHANGED callers,
         NEW p \in Appliers, Restore(p)
  PROVE  RegisterStep
  <1>0. Serialised' /\ Unverified(p)
    BY DEF Serialised, Restore, Unverified
  <1>1. \A q \in Appliers : ~Unverified(q)'
    BY <1>0, BetweenExchangeAndVerdict DEF Restore, FailTo, Unverified, TypeOK
  <1>2. LogicalPack' = content[staged[p]]
    BY <1>1, RegisterIsLiveNext DEF Restore, SwapNames
  <1>3. LogicalPack' = LogicalPack
    BY <1>0, <1>2, BetweenExchangeAndVerdict
  <1>4. StatusOf(p) = "proposed" /\ StatusOf(p)' = "failed" /\ OthersKeepStatus(p)
    BY DEF Restore, FailTo, StatusOf, OthersKeepStatus, OutcomeIsLast, TypeOK
  <1> QED BY <1>0, <1>3, <1>4, StoreRefuses DEF RegisterStep, Store!StoreNext, Restore

(* A call cut short leaves the register, or the whole successor in it.      *)
LEMMA CutShortStep ==
  ASSUME TypeOK, OutcomeIsLast, Serial, Serialised, UNCHANGED callers, NEW p \in Appliers,
         KeepForRecovery(p) \/ Interrupted(p) \/ Crash(p)
  PROVE  RegisterStep
  <1>0. Serialised'
    BY DEF Serialised
  <1>1. /\ UNCHANGED <<live, content, base>>
        /\ AtWork(p) /\ pc'[p] \in {"cleanup", "done"}
        /\ outcome'[p] \in {"recovery", "crashed"}
        /\ \A q \in Appliers \ {p} : pc'[q] = pc[q] /\ outcome'[q] = outcome[q]
    BY DEF KeepForRecovery, Interrupted, Crash, AtWork, Active, Capturing, TypeOK
  <1>2. \A q \in Appliers : ~Unverified(q)'
    BY <1>1 DEF Serial, OneAtATime, AtWork, Active, Capturing, Unverified
  <1>3. LogicalPack' = content[live]
    BY <1>1, <1>2, RegisterIsLiveNext
  <1>4. OthersKeepStatus(p) /\ StatusOf(p)' = "interrupted"
    BY <1>1 DEF OthersKeepStatus, StatusOf
  <1>5. CASE Unverified(p)
    <2>1. StatusOf(p) = "proposed"
      BY <1>5 DEF Unverified, OutcomeIsLast, StatusOf
    <2>2. LogicalPack = base[p] /\ LogicalPack' = Successor(p)
      BY <1>3, <1>5, BetweenExchangeAndVerdict
    <2> QED BY <1>0, <1>1, <1>4, <2>1, <2>2, StoreInterrupts
               DEF RegisterStep, Store!StoreNext
  <1>6. CASE ~Unverified(p)
    <2>1. LogicalPack' = LogicalPack
      <3>1. \A q \in Appliers : ~Unverified(q)
        BY <1>1, <1>2, <1>6 DEF Unverified
      <3> QED BY <1>3, <3>1, RegisterIsLive
    <2>2. StatusOf(p) \in {"unbuilt", "proposed", "ok", "failed", "interrupted"}
      BY DEF StatusOf, TypeOK, Outcomes
    <2>3. CASE StatusOf(p) = "interrupted"
      BY <1>0, <1>1, <1>4, <2>1, <2>3, StoreStutters DEF RegisterStep, OthersKeepStatus
    <2>4. CASE StatusOf(p) # "interrupted"
      BY <1>0, <1>1, <1>4, <2>1, <2>2, <2>4, StoreInterrupts
         DEF RegisterStep, Store!StoreNext
    <2> QED BY <2>3, <2>4
  <1> QED BY <1>5, <1>6

LEMMA SaveStep ==
  ASSUME TypeOK, Serialised, UNCHANGED callers, SavesLive
  PROVE  RegisterStep
  <1>0. Serialised'
    BY DEF Serialised
  <1>1. \A q \in Appliers : ~Unverified(q) /\ ~Unverified(q)'
    BY DEF SavesLive, Unverified, Active, Capturing
  <1>2. LogicalPack = content[live] /\ LogicalPack' = content'[live]
    BY <1>1, RegisterIsLive, RegisterIsLiveNext DEF SavesLive
  <1>3. base' = base /\ \A q \in Appliers : StatusOf(q)' = StatusOf(q)
    BY DEF SavesLive, StatusOf
  <1>4. CASE UNCHANGED <<content, landed, undone>>
    BY <1>0, <1>2, <1>3, <1>4, StoreStutters DEF RegisterStep
  <1>5. ASSUME NEW e \in Edits, NEW m \in Members, Saves(e, m, live) PROVE RegisterStep
    <2>1. PICK bytes \in Leavable(e, m, live) : Land(e, m, live, bytes)
      BY <1>5 DEF Saves
    <2>2. bytes \in SUBSET (Edits \cup Appliers)
      <3>1. content[live][m] \in SUBSET Changes /\ undone[m] \in SUBSET Changes
        BY DEF TypeOK, Contents
      <3> QED BY <2>1, <3>1, LeavableBytes DEF Changes
    <2>3. content'[live] = [content[live] EXCEPT ![m] = bytes]
      BY <2>1 DEF Land, TypeOK
    <2>4. Store!Save(m, bytes)
      BY <1>0, <1>2, <1>3, <2>3, StoreSaves
    <2> QED BY <2>2, <2>4 DEF RegisterStep, Store!StoreNext
  <1> QED BY <1>4, <1>5 DEF SavesLive

LEMMA StoreStep ==
  ASSUME SerialInv, SerialInv', [Next]_vars
  PROVE  RegisterStep
  <1>1. CASE ~Serialised
    BY <1>1 DEF Next, vars, Serialised, RegisterStep, Store!storeVars
  <1>2. CASE Serialised
    <2>1. /\ TypeOK /\ NamesApart /\ OutcomeIsLast /\ Serial
      BY <1>2 DEF SerialInv, LineageInv, WholeInv
    <2>2. UNCHANGED callers /\ Serial'
      BY <1>2 DEF SerialInv, Next, vars, Serialised
    <2>3. CASE UNCHANGED vars
      BY <1>2, <2>3
         DEF vars, RegisterStep, Store!storeVars, Serialised, LogicalPack, Unverified,
                  StatusOf
    <2>4. ASSUME NEW p \in Appliers, ApplierStep(p) PROVE RegisterStep
      <3>1. (\E m \in Members : ReadMember(p, m)) => RegisterStep
        BY <1>2, <2>1, <2>2, EarlySteps, UnverifiedReads
      <3>2. (\E m \in Members : WriteMember(p, m)) => RegisterStep
        BY <1>2, <2>1, <2>2, WriteStep
      <3>3. EnterRescue(p) => RegisterStep
        BY <1>2, <2>1, <2>2, UnverifiedReads DEF EnterRescue, Unverified
      <3> QED BY <1>2, <2>1, <2>2, <2>4, <3>1, <3>2, <3>3, EarlySteps, ProposedStep,
                 ExchangeStep,
                 VerifyStep, RestoreStep, CutShortStep DEF ApplierStep
    <2>5. CASE EditorStep
      BY <1>2, <2>1, <2>2, <2>5, EditorSavesLive, SaveStep DEF Serial
    <2> QED BY <2>3, <2>4, <2>5 DEF Next
  <1> QED BY <1>1, <1>2

LEMMA StoreInitially == Init => Store!StoreInit
  <1> SUFFICES ASSUME Init PROVE Store!StoreInit OBVIOUS
  <1>1. LogicalPack = [m \in Members |-> {}]
    BY DEF Init, LogicalPack, Unverified, TreeIds
  <1>2. \A p \in Appliers : StatusOf(p) = "unbuilt"
    BY DEF Init, StatusOf
  <1> QED BY <1>1, <1>2 DEF Init, Store!StoreInit, EmptyPack

(* When callers serialise, apply_proposal is one compare-and-swap on the    *)
(* pack, whatever fails, dies or is interrupted, for any packs and callers. *)
THEOREM CommitImplementsStore == Spec => CommitIsCompareAndSwap
  <1>1. SerialInv /\ SerialInv' /\ [Next]_vars => [Store!StoreNext]_(Store!storeVars)
    BY StoreStep DEF RegisterStep
  <1> QED BY <1>1, InitSerial, SerialStep, StoreInitially, PTL
          DEF Spec, CommitIsCompareAndSwap, Store!StoreSpec
================================================================================
