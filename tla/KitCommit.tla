------------------------------- MODULE KitCommit -------------------------------
(***************************************************************************)
(* kits.apply_proposal: a reviewed kit proposal becomes the live pack.     *)
(*                                                                         *)
(* Several applier processes and the author's editor work on one pack      *)
(* directory.  An applier captures the pack member by member through one   *)
(* opened root descriptor, writes its successor into a private directory   *)
(* beside the pack, validates it, captures the pack again, exchanges the   *)
(* two directories atomically (renameat2 EXCHANGE), captures the tree the  *)
(* exchange displaced, and exchanges back when that is not its base.       *)
(*                                                                         *)
(* Directories are identities: a name (the live path, an applier's staging *)
(* path) is bound to a tree, an exchange swaps two bindings, and whoever   *)
(* opened a tree keeps reading or writing that tree.  The bytes of a       *)
(* member are the set of changes they incorporate, so two trees have equal *)
(* digests exactly when every member incorporates the same changes.  A     *)
(* save of the author's may add a change and may take earlier ones out (an *)
(* undo, a git checkout), so bytes that were replaced can come back.       *)
(***************************************************************************)
EXTENDS FiniteSets

CONSTANTS Appliers,      \* proposals, each with the process that applies it
          Members,       \* member paths of the pack
          RenameEdits,   \* saves of an editor that renames a new file into place
          HandleEdits,   \* saves of an editor that opens the member, then writes
          Original,      \* identity of the tree that is live at the start
          Faults,        \* TRUE: system calls and validation may fail
          Crashes        \* TRUE: an applier may die between any two steps

Edits == RenameEdits \cup HandleEdits
Changes == Appliers \cup Edits
TreeIds == Appliers \cup {Original}
Contents == [Members -> SUBSET Changes]

ASSUME ConstantsAssumption ==
  /\ Members # {}      \* a pack has its manifest
  /\ Original \notin Appliers
  /\ Appliers \cap Edits = {}
  /\ Faults \in BOOLEAN
  /\ Crashes \in BOOLEAN

VARIABLES
  callers,   \* whether they serialise edits and applies, as ADR 0035 asks
  live,      \* tree the pack path names
  staged,    \* applier -> tree its staging path names
  content,   \* tree -> the bytes of its members
  written,   \* tree -> members that exist in it
  removed,   \* trees that were deleted with their staging directory
  pc,        \* applier -> step of propose_* / apply_proposal it is about to take
  root,      \* applier -> tree its open root descriptor refers to
  got,       \* applier -> members read so far by the current capture
  seen,      \* applier -> bytes read so far by the current capture
  base,      \* applier -> _base_files of its proposal
  outcome,   \* applier -> what apply_proposal returned or raised
  opened,    \* editor save -> the tree whose member it holds open, if any
  landed,    \* member -> saves the author made to it
  undone     \* member -> changes a save of the author took out again

vars == <<callers, live, staged, content, written, removed, pc, root, got, seen, base,
          outcome, opened, landed, undone>>

Capturing == {"basing", "checking", "rechecking", "verifying"}
Active == Capturing \cup {"staging", "exchanging", "restoring", "rescuing",
                          "cleanup"}
Phases == Active \cup {"new", "proposed", "done"}
Outcomes == {"none", "ok", "failed", "recovery", "crashed"}

Manners == {"serialised", "free"}
Serialised == callers = "serialised"

Quiet == \A p \in Appliers : pc[p] \notin Active
Unopened == {}
NoHandle == \A e \in HandleEdits : opened[e] = Unopened

(* The documented duty of callers: nobody starts while another is at work. *)
MayStart == Serialised => Quiet /\ NoHandle

Init ==
  /\ callers \in Manners
  /\ live = Original
  /\ staged = [p \in Appliers |-> p]
  /\ content = [t \in TreeIds |-> [m \in Members |-> {}]]
  /\ written = [t \in TreeIds |-> IF t = Original THEN Members ELSE {}]
  /\ removed = {}
  /\ pc = [p \in Appliers |-> "new"]
  /\ root = [p \in Appliers |-> Original]
  /\ got = [p \in Appliers |-> {}]
  /\ seen = [p \in Appliers |-> [m \in Members |-> {}]]
  /\ base = [p \in Appliers |-> [m \in Members |-> {}]]
  /\ outcome = [p \in Appliers |-> "none"]
  /\ opened = [e \in HandleEdits |-> Unopened]
  /\ landed = [m \in Members |-> {}]
  /\ undone = [m \in Members |-> {}]

--------------------------------------------------------------------------------
(* _capture_pack: one member at a time, below one root descriptor. *)

Unread == {}

OpenCapture(p, phase, tree) ==
  /\ pc' = [pc EXCEPT ![p] = phase]
  /\ root' = [root EXCEPT ![p] = tree]
  /\ got' = [got EXCEPT ![p] = Unread]

ReadMember(p, m) ==
  /\ pc[p] \in Capturing
  /\ m \notin got[p]
  /\ root[p] \notin removed
  /\ seen' = [seen EXCEPT ![p][m] = content[root[p]][m]]
  /\ got' = [got EXCEPT ![p] = @ \cup {m}]
  /\ UNCHANGED <<live, staged, content, written, removed, pc, root, base,
                 outcome, opened, landed, undone>>

Captured(p) == got[p] = Members
CaptureCanFail(p) == Faults \/ root[p] \in removed

(* Defect: the phase is reported where the result belongs. *)
FailWithPhase(p, phase) ==
  /\ pc' = [pc EXCEPT ![p] = phase]
  /\ outcome' = [outcome EXCEPT ![p] = phase]

(* An error ends the call: before mkdtemp at once, later through cleanup. *)
FailTo(p, phase) ==
  /\ pc' = [pc EXCEPT ![p] = phase]
  /\ outcome' = [outcome EXCEPT ![p] = "failed"]

--------------------------------------------------------------------------------
(* propose_*: the proposal keeps the captured pack as its base. *)

Propose(p) ==
  /\ pc[p] = "new"
  /\ MayStart
  /\ OpenCapture(p, "basing", live)
  /\ UNCHANGED <<live, staged, content, written, removed, seen, base, outcome,
                 opened, landed, undone>>

Proposed(p) ==
  /\ pc[p] = "basing"
  /\ Captured(p)
  /\ base' = [base EXCEPT ![p] = seen[p]]
  /\ pc' = [pc EXCEPT ![p] = "proposed"]
  /\ UNCHANGED <<live, staged, content, written, removed, root, got, seen,
                 outcome, opened, landed, undone>>

Successor(p) == [m \in Members |-> base[p][m] \cup {p}]

(* Defect: a capture is never compared with the base. *)
BaseIgnored(p) == TRUE

(* The digest of the completed capture is that of the base. *)
BaseUnchanged(p) == seen[p] = base[p]

(* apply_proposal, first capture: refuse a pack that is not the base. *)
Apply(p) ==
  /\ pc[p] = "proposed"
  /\ MayStart
  /\ OpenCapture(p, "checking", live)
  /\ UNCHANGED <<live, staged, content, written, removed, seen, base, outcome,
                 opened, landed, undone>>

Check(p) ==
  /\ pc[p] = "checking"
  /\ Captured(p)
  /\ IF BaseUnchanged(p)
     THEN pc' = [pc EXCEPT ![p] = "staging"] /\ UNCHANGED outcome
     ELSE FailTo(p, "done")
  /\ UNCHANGED <<live, staged, content, written, removed, root, got, seen,
                 base, opened, landed, undone>>

EarlyCaptureFails(p) ==
  /\ pc[p] \in {"basing", "checking"}
  /\ CaptureCanFail(p)
  /\ FailTo(p, "done")
  /\ UNCHANGED <<live, staged, content, written, removed, root, got, seen,
                 base, opened, landed, undone>>

(* _write_snapshot: the successor's members, one file at a time. *)
WriteMember(p, m) ==
  /\ pc[p] = "staging"
  /\ m \notin written[staged[p]]
  /\ written' = [written EXCEPT ![staged[p]] = @ \cup {m}]
  /\ content' = [content EXCEPT ![staged[p]][m] = Successor(p)[m]]
  /\ UNCHANGED <<live, staged, removed, pc, root, got, seen, base, outcome,
                 opened, landed, undone>>

(* The staged tree is captured and validated; nobody else can reach it. *)
Validate(p) ==
  /\ pc[p] = "staging"
  /\ written[staged[p]] = Members
  /\ content[staged[p]] = Successor(p)
  /\ OpenCapture(p, "rechecking", live)
  /\ UNCHANGED <<live, staged, content, written, removed, seen, base, outcome,
                 opened, landed, undone>>

StagingFails(p) ==
  /\ Faults
  /\ pc[p] \in {"staging", "rechecking", "exchanging"}
  /\ FailTo(p, "cleanup")
  /\ UNCHANGED <<live, staged, content, written, removed, root, got, seen,
                 base, opened, landed, undone>>

(* The last capture before the exchange, which also meets a deleted tree. *)
Recheck(p) ==
  /\ pc[p] = "rechecking"
  /\ \/ /\ Captured(p)
        /\ IF BaseUnchanged(p)
           THEN pc' = [pc EXCEPT ![p] = "exchanging"] /\ UNCHANGED outcome
           ELSE FailTo(p, "cleanup")
     \/ /\ root[p] \in removed
        /\ FailTo(p, "cleanup")
  /\ UNCHANGED <<live, staged, content, written, removed, root, got, seen,
                 base, opened, landed, undone>>

--------------------------------------------------------------------------------
(* The exchange, its verification and the two ways back. *)

(* Defect: a plain rename, which leaves the staging path bound as it was. *)
RenameOver(p) == live' = staged[p] /\ UNCHANGED staged

SwapNames(p) ==
  /\ live' = staged[p]
  /\ staged' = [staged EXCEPT ![p] = live]

Exchange(p) ==
  /\ pc[p] = "exchanging"
  /\ SwapNames(p)
  /\ OpenCapture(p, "verifying", live)
  /\ UNCHANGED <<content, written, removed, seen, base, outcome, opened, landed, undone>>

Verify(p) ==
  /\ pc[p] = "verifying"
  /\ Captured(p)
  /\ IF BaseUnchanged(p)
     THEN /\ pc' = [pc EXCEPT ![p] = "cleanup"]
          /\ outcome' = [outcome EXCEPT ![p] = "ok"]
     ELSE /\ pc' = [pc EXCEPT ![p] = "restoring"]
          /\ UNCHANGED outcome
  /\ UNCHANGED <<live, staged, content, written, removed, root, got, seen,
                 base, opened, landed, undone>>

(* Defect: the failure is reported without the exchange back. *)
ReportOnly(p) ==
  /\ pc[p] \in {"restoring", "rescuing"}
  /\ FailTo(p, "cleanup")
  /\ UNCHANGED <<live, staged, content, written, removed, root, got, seen,
                 base, opened, landed, undone>>

(* The exchange back, after a mismatch or from the except clause. *)
Restore(p) ==
  /\ pc[p] \in {"restoring", "rescuing"}
  /\ SwapNames(p)
  /\ FailTo(p, "cleanup")
  /\ UNCHANGED <<content, written, removed, root, got, seen, base, opened,
                 landed, undone>>

(* A failed verification or a failed exchange back: the except clause. *)
EnterRescue(p) ==
  /\ Faults
  /\ pc[p] \in {"verifying", "restoring"}
  /\ pc' = [pc EXCEPT ![p] = "rescuing"]
  /\ UNCHANGED <<live, staged, content, written, removed, root, got, seen,
                 base, outcome, opened, landed, undone>>

(* Defect: cleanup_staging is left TRUE, so the original is deleted. *)
DropOriginal(p) ==
  /\ Faults
  /\ pc[p] = "rescuing"
  /\ pc' = [pc EXCEPT ![p] = "done"]
  /\ outcome' = [outcome EXCEPT ![p] = "recovery"]
  /\ removed' = removed \cup {staged[p]}
  /\ UNCHANGED <<live, staged, content, written, root, got, seen, base, opened,
                 landed, undone>>

(* The rollback itself fails: KitRecoveryError, and the staging tree stays. *)
KeepForRecovery(p) ==
  /\ Faults
  /\ pc[p] = "rescuing"
  /\ pc' = [pc EXCEPT ![p] = "done"]
  /\ outcome' = [outcome EXCEPT ![p] = "recovery"]
  /\ UNCHANGED <<live, staged, content, written, removed, root, got, seen,
                 base, opened, landed, undone>>

(* finally: the staging directory is deleted with whatever it holds now. *)
Cleanup(p) ==
  /\ pc[p] = "cleanup"
  /\ removed' = removed \cup {staged[p]}
  /\ pc' = [pc EXCEPT ![p] = "done"]
  /\ UNCHANGED <<live, staged, content, written, root, got, seen, base,
                 outcome, opened, landed, undone>>

(* An exception the except clause does not name (KeyboardInterrupt): the    *)
(* finally clause still deletes whatever the staging path names.            *)
Interrupted(p) ==
  /\ Faults
  /\ pc[p] \in {"staging", "rechecking", "exchanging", "verifying",
                "restoring", "rescuing"}
  /\ pc' = [pc EXCEPT ![p] = "cleanup"]
  /\ outcome' = [outcome EXCEPT ![p] = "crashed"]
  /\ UNCHANGED <<live, staged, content, written, removed, root, got, seen,
                 base, opened, landed, undone>>

(* The process dies: no handler runs and the staging directory stays. *)
Crash(p) ==
  /\ Crashes
  /\ pc[p] \in Active
  /\ pc' = [pc EXCEPT ![p] = "done"]
  /\ outcome' = [outcome EXCEPT ![p] = "crashed"]
  /\ UNCHANGED <<live, staged, content, written, removed, root, got, seen,
                 base, opened, landed, undone>>

--------------------------------------------------------------------------------
(* The author's editor, which knows nothing of appliers. *)

(* A save adds its change to the member's bytes, or puts earlier bytes      *)
(* back: any part of what the member holds and of what the author took out  *)
(* of it before.                                                            *)
Leavable(e, m, tree) ==
  (SUBSET (content[tree][m] \cup undone[m])) \cup {content[tree][m] \cup {e}}

Land(e, m, tree, bytes) ==
  /\ content' = [content EXCEPT ![tree][m] = bytes]
  /\ landed' = [landed EXCEPT ![m] = @ \cup {e}]
  /\ undone' = [undone EXCEPT ![m] = @ \cup ((content[tree][m] \cup {e}) \ bytes)]

Saves(e, m, tree) == \E bytes \in Leavable(e, m, tree) : Land(e, m, tree, bytes)

HasLanded(e) == \E m \in Members : e \in landed[m]

RenameSave(e, m) ==
  /\ ~HasLanded(e)
  /\ Serialised => Quiet
  /\ Saves(e, m, live)
  /\ UNCHANGED <<live, staged, written, removed, pc, root, got, seen, base,
                 outcome, opened>>

OpenMember(e) ==
  /\ ~HasLanded(e)
  /\ opened[e] = Unopened
  /\ Serialised => Quiet
  /\ opened' = [opened EXCEPT ![e] = {live}]
  /\ UNCHANGED <<live, staged, content, written, removed, pc, root, got, seen,
                 base, outcome, landed, undone>>

WriteOpened(e, m) ==
  /\ \E tree \in opened[e] : Saves(e, m, tree)
  /\ opened' = [opened EXCEPT ![e] = Unopened]
  /\ UNCHANGED <<live, staged, written, removed, pc, root, got, seen, base,
                 outcome>>

--------------------------------------------------------------------------------
ApplierStep(p) ==
  \/ Propose(p) \/ Proposed(p) \/ Apply(p) \/ Check(p) \/ EarlyCaptureFails(p)
  \/ \E m \in Members : ReadMember(p, m) \/ WriteMember(p, m)
  \/ Validate(p) \/ StagingFails(p) \/ Recheck(p)
  \/ Exchange(p) \/ Verify(p) \/ Restore(p) \/ EnterRescue(p)
  \/ KeepForRecovery(p) \/ Interrupted(p) \/ Cleanup(p) \/ Crash(p)

EditorStep ==
  \/ \E e \in RenameEdits, m \in Members : RenameSave(e, m)
  \/ \E e \in HandleEdits : OpenMember(e)
  \/ \E e \in HandleEdits, m \in Members : WriteOpened(e, m)

Next ==
  /\ (\E p \in Appliers : ApplierStep(p)) \/ EditorStep
  /\ UNCHANGED callers

Spec == Init /\ [][Next]_vars

--------------------------------------------------------------------------------
TypeOK ==
  /\ callers \in Manners
  /\ live \in TreeIds
  /\ staged \in [Appliers -> TreeIds]
  /\ content \in [TreeIds -> Contents]
  /\ written \in [TreeIds -> SUBSET Members]
  /\ removed \in SUBSET TreeIds
  /\ pc \in [Appliers -> Phases]
  /\ root \in [Appliers -> TreeIds]
  /\ got \in [Appliers -> SUBSET Members]
  /\ seen \in [Appliers -> Contents]
  /\ base \in [Appliers -> Contents]
  /\ outcome \in [Appliers -> Outcomes]
  /\ opened \in [HandleEdits -> SUBSET TreeIds]
  /\ landed \in [Members -> SUBSET Edits]
  /\ undone \in [Members -> SUBSET Changes]

(* Whatever interleaving, fault or crash: the pack path never names a tree  *)
(* that is half written or already deleted (kits.py 2684-2733; ADR 0035:    *)
(* "it does not overlay the live tree file by file").                       *)
LiveTreeIsWhole ==
  /\ written[live] = Members
  /\ live \notin removed

Succeeded == {p \in Appliers : outcome[p] = "ok"}

(* With serialised callers no save and no successful commit is ever deleted *)
(* with a staging directory, whatever fails or interrupts the apply: what   *)
(* the author did not take out again survives in some tree that still       *)
(* exists (kits.py 2718-2732).                                              *)
SavedWorkSurvives ==
  Serialised => \A m \in Members : \A c \in (landed[m] \cup Succeeded) \ undone[m] :
    \E t \in TreeIds \ removed : c \in content[t][m]

(* A recovery error leaves the exchanged-out original, byte for byte, in    *)
(* the staging directory it names (kits.py 2721-2724; ADR 0035 180-183).    *)
RecoveryKeepsOriginal ==
  Serialised => \A p \in Appliers : outcome[p] = "recovery" =>
    /\ staged[p] \notin removed
    /\ content[staged[p]] = base[p]

(* Appliers that know nothing of each other: two proposals built on the    *)
(* same pack report success only where the author put the pack back between *)
(* them, taking some proposal's change out of every single member; without  *)
(* that, at most one does.  The checks compare bytes (kits.py 2691-2692,    *)
(* 2708-2717), so a pack the author restored is again the base.             *)
OneSuccessorPerBase ==
  \A p, q \in Succeeded : base[p] = base[q] =>
    p = q \/ \A m \in Members : undone[m] \cap Appliers # {}

--------------------------------------------------------------------------------
(* Until an exchange is verified the register still holds what it displaced. *)
Unverified(p) == pc[p] \in {"verifying", "restoring", "rescuing"}

LogicalPack ==
  IF \E p \in Appliers : Unverified(p)
  THEN content[staged[CHOOSE p \in Appliers : Unverified(p)]]
  ELSE content[live]

StatusOf(p) ==
  CASE outcome[p] = "none" /\ pc[p] \in {"new", "basing"} -> "unbuilt"
    [] outcome[p] = "none" /\ pc[p] \notin {"new", "basing"} -> "proposed"
    [] outcome[p] \in {"ok", "failed"} -> outcome[p]
    [] OTHER -> "interrupted"

(* Callers that do not serialise are outside the promise: their register   *)
(* is never used.                                                           *)
EmptyPack == [m \in Members |-> {}]

Store == INSTANCE PackStore
           WITH pack <- IF Serialised THEN LogicalPack ELSE EmptyPack,
                base <- IF Serialised THEN base ELSE [p \in Appliers |-> EmptyPack],
                status <- [p \in Appliers |->
                             IF Serialised THEN StatusOf(p) ELSE "unbuilt"]

(* With serialised callers apply_proposal is one atomic compare-and-swap on *)
(* the pack, and only a cut-short apply may stop on either side of it.      *)
CommitIsCompareAndSwap == Store!StoreSpec
================================================================================
