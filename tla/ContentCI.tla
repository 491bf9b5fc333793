------------------------------- MODULE ContentCI -------------------------------
(***************************************************************************)
(* content_ci.main: the author CI of a catalog.  Every pack is validated   *)
(* statically; those that pass are bound to a snapshot of the identities   *)
(* of their members; their validators, then their test suites, run one at  *)
(* a time, each between two comparisons with that snapshot.                *)
(*                                                                         *)
(* The identities compared are those of the leaf members and of the pack's *)
(* root directory, change times included.  So a change of a leaf, or of    *)
(* the root directory, is seen whenever it is looked for, and a pack is    *)
(* the number of such changes.  A directory below the root is compared by  *)
(* the members it shows only: what is added there and removed again, or    *)
(* swapped and swapped back, leaves no trace.                              *)
(*                                                                         *)
(* Anyone may change a pack at any time: the author, the pack's own        *)
(* processes, those of other packs, and helpers that outlive their run.    *)
(***************************************************************************)
EXTENDS PackProcess, PackCatalog

CONSTANTS Packs,
          Jobs,         \* <<pack, ...>>: all validators, then all test suites
          MaxChanges,   \* bound on the changes of one pack
  Submitted,    \* packs, their documents in any state, for the facts of the gates
  Listings      \* lists of catalog sources

ASSUME CIAssumption ==
  /\ Jobs \in Seq(Packs)
  /\ MaxChanges \in Nat

ASSUME DocumentsAssumption ==
  /\ \A sources \in Listings : IsList(sources)
  /\ \A pack \in Submitted :
       /\ IsList(pack.ledger.artifacts)
       /\ \A row \in ToSet(pack.ledger.artifacts) \cup ToSet(pack.assets) : IsList(row.path)
       /\ \A overlay \in ToSet(pack.ledger.overlays) : IsList(overlay.root)

VARIABLES
  gate,       \* stage of main
  bytes,      \* pack -> changes made to its leaves and its root so far
  nested,     \* pack -> what a directory below its root shows
  fit,        \* packs whose static view is ok
  viewed,     \* packs that were validated statically
  snapshot,   \* eligible pack -> the identities discovery captured
  blocked,    \* eligible packs that were found changed
  job,        \* the job at hand
  failures,   \* whether the verdict has anything to list
  over,       \* pack -> identities a process of it ran over (history)
  passed      \* how many processes ended well (history)

ciVars == <<gate, bytes, nested, fit, viewed, snapshot, blocked, job, failures, over,
            passed>>
vars == <<ciVars, procVars>>

Identities == 0 .. MaxChanges
Gates == {"static", "discovery", "before", "launch", "run", "after", "wedged", "done"}

(* The members discovery captured, others, or with them a FIFO at a path a   *)
(* participant document has.                                                 *)
Shown == {"captured", "other", "fifo"}
Eligible == DOMAIN snapshot
Current == Jobs[job]

Init ==
  /\ ProcInit
  /\ gate = "static"
  /\ bytes = [p \in Packs |-> 0]
  /\ nested = [p \in Packs |-> "captured"]
  /\ fit = {}
  /\ viewed = {}
  /\ snapshot = <<>>
  /\ blocked = {}
  /\ job = 1
  /\ failures = FALSE
  /\ over = [p \in Packs |-> {}]
  /\ passed = 0

--------------------------------------------------------------------------------
(* check_static_contract: a pack is read and judged on its own; a special   *)
(* file is refused.                                                         *)
ValidateStatic(p) ==
  /\ gate = "static"
  /\ p \notin viewed
  /\ viewed' = viewed \cup {p}
  /\ \/ nested[p] # "fifo" /\ fit' = fit \cup {p} /\ UNCHANGED failures
     \/ failures' = TRUE /\ UNCHANGED fit
  /\ UNCHANGED <<gate, bytes, nested, snapshot, blocked, job, over, passed, procVars>>

EndStatic ==
  /\ gate = "static" /\ viewed = Packs
  /\ gate' = "discovery"
  /\ viewed' = {}
  /\ UNCHANGED <<bytes, nested, fit, snapshot, blocked, job, failures, over, passed, procVars>>

(* discover_executables: an open root descriptor and the member identities. *)
Snapshot(p) ==
  /\ gate = "discovery"
  /\ p \in fit \ viewed
  /\ viewed' = viewed \cup {p}
  /\ \/ /\ nested[p] # "fifo"
        /\ snapshot' = [q \in Eligible \cup {p} |->
                          IF q = p THEN bytes[p] ELSE snapshot[q]]
        /\ nested' = [nested EXCEPT ![p] = "captured"]
        /\ UNCHANGED failures
     \/ failures' = TRUE /\ UNCHANGED <<snapshot, nested>>
  /\ UNCHANGED <<gate, bytes, fit, blocked, job, over, passed, procVars>>

EndDiscovery ==
  /\ gate = "discovery" /\ viewed = fit
  /\ gate' = "before"
  /\ UNCHANGED <<bytes, nested, fit, viewed, snapshot, blocked, job, failures, over, passed,
                 procVars>>

--------------------------------------------------------------------------------
(* check_validators and check_tests. *)

(* Defect: the members are compared by name only. *)
SameInventory(p) == nested[p] = "captured"

SameIdentities(p) == bytes[p] = snapshot[p] /\ nested[p] = "captured"

(* _execution_snapshot_unchanged; a pack that cannot be read has changed. *)
CheckSnapshot(p, intact) ==
  \/ /\ SameIdentities(p)
     /\ intact
     /\ UNCHANGED <<blocked, failures>>
  \/ /\ ~intact
     /\ blocked' = blocked \cup {p}
     /\ failures' = TRUE

Runnable == Current \in Eligible \ blocked

(* The loop passes over packs that are not eligible or were blocked. *)
Skip ==
  /\ gate = "before"
  /\ job <= Len(Jobs)
  /\ ~Runnable
  /\ job' = job + 1
  /\ UNCHANGED <<gate, bytes, nested, fit, viewed, snapshot, blocked, failures, over, passed,
                 procVars>>

CheckBefore ==
  /\ gate = "before"
  /\ job <= Len(Jobs)
  /\ Runnable
  /\ \E intact \in BOOLEAN :
       /\ CheckSnapshot(Current, intact)
       /\ gate' = IF intact THEN "launch" ELSE "before"
       /\ job' = IF intact THEN job ELSE job + 1
  /\ UNCHANGED <<bytes, nested, fit, viewed, snapshot, over, passed, procVars>>

Start ==
  /\ gate = "launch"
  /\ Launch
  /\ gate' = "run"
  /\ over' = [over EXCEPT ![Current] = @ \cup {bytes[Current]}]
  /\ UNCHANGED <<bytes, nested, fit, viewed, snapshot, blocked, job, failures, passed>>

StartFails ==
  /\ gate = "launch"
  /\ LaunchFails
  /\ gate' = "after"
  /\ failures' = TRUE
  /\ UNCHANGED <<bytes, nested, fit, viewed, snapshot, blocked, job, over, passed>>

(* _record_outcome *)
Record ==
  /\ gate = "run"
  /\ Finish
  /\ gate' = "after"
  /\ failures' = (failures \/ status' # "ok")
  /\ passed' = IF status' = "ok" THEN passed + 1 ELSE passed
  /\ UNCHANGED <<bytes, nested, fit, viewed, snapshot, blocked, job, over>>

(* Defect: the comparison after a process is left out. *)
NoCheckAfter ==
  /\ gate = "after"
  /\ gate' = "before"
  /\ job' = job + 1
  /\ Return
  /\ UNCHANGED <<bytes, nested, fit, viewed, snapshot, blocked, failures, over, passed>>

CheckAfter ==
  /\ gate = "after"
  /\ \E intact \in BOOLEAN : CheckSnapshot(Current, intact)
  /\ gate' = "before"
  /\ job' = job + 1
  /\ Return
  /\ UNCHANGED <<bytes, nested, fit, viewed, snapshot, over, passed>>

(* The gates that read no process: SDL, visibility, manifests, ledgers.  The *)
(* scan of the participant documents opens them by name, whatever they are. *)
OtherGates ==
  /\ gate = "before" /\ job > Len(Jobs)
  /\ gate' = IF \E p \in Packs : nested[p] = "fifo" THEN "wedged" ELSE "done"
  /\ \/ UNCHANGED failures
     \/ failures' = TRUE
  /\ UNCHANGED <<bytes, nested, fit, viewed, snapshot, blocked, job, over, passed, procVars>>

(* Somebody opens the FIFO for writing, which nobody is obliged to.         *)
Unwedge ==
  /\ gate = "wedged"
  /\ gate' = "done"
  /\ UNCHANGED <<bytes, nested, fit, viewed, snapshot, blocked, job, failures, over, passed,
                 procVars>>

--------------------------------------------------------------------------------
Change(p) ==
  /\ gate \notin {"wedged", "done"}
  /\ bytes[p] < MaxChanges
  /\ bytes' = [bytes EXCEPT ![p] = @ + 1]
  /\ over' = IF gate = "run" /\ p = Current
             THEN [over EXCEPT ![p] = @ \cup {bytes[p] + 1}] ELSE over
  /\ UNCHANGED <<gate, nested, fit, viewed, snapshot, blocked, job, failures, passed,
                 procVars>>

(* A directory below the root is filled, emptied, swapped, or swapped back. *)
ChangeNested(p) ==
  /\ gate \notin {"wedged", "done"}
  /\ \E shown \in Shown \ {nested[p]} : nested' = [nested EXCEPT ![p] = shown]
  /\ UNCHANGED <<gate, bytes, fit, viewed, snapshot, blocked, job, failures, over, passed,
                 procVars>>

CIStep ==
  \/ \E p \in Packs : ValidateStatic(p) \/ Snapshot(p)
  \/ EndStatic \/ EndDiscovery
  \/ Skip \/ CheckBefore \/ Start \/ StartFails \/ Record \/ CheckAfter \/ OtherGates

ProcessStep == gate = "run" /\ RunnerStep /\ UNCHANGED ciVars
Drain(s) == gate = "run" /\ DrainerStep(s) /\ UNCHANGED ciVars
PackStep == gate = "run" /\ PackCodeStep /\ UNCHANGED ciVars

Next ==
  \/ CIStep \/ ProcessStep \/ PackStep
  \/ \E s \in Pipes : Drain(s)
  \/ \E p \in Packs : Change(p) \/ ChangeNested(p)
  \/ Unwedge

(* The gate's main thread with its timeouts, and each of its drainers, go   *)
(* on; nothing is assumed of the packs' processes.                          *)
Fairness ==
  /\ WF_vars(CIStep) /\ WF_vars(ProcessStep)
  /\ \A s \in Pipes : WF_vars(Drain(s))

Spec == Init /\ [][Next]_vars /\ Fairness

--------------------------------------------------------------------------------
TypeOK ==
  /\ gate \in Gates /\ step \in Steps
  /\ bytes \in [Packs -> Identities] /\ nested \in [Packs -> Shown]
  /\ fit \subseteq Packs /\ viewed \subseteq Packs
  /\ Eligible \subseteq fit
  /\ blocked \subseteq Eligible
  /\ job \in 1 .. Len(Jobs) + 1
  /\ failures \in BOOLEAN
  /\ over \in [Packs -> SUBSET Identities]
  /\ passed \in 0 .. Len(Jobs)
  /\ child \in {"none", "running", "ok", "failed", "signal"}
  /\ helper \in {"none", "grouped", "escaped"}
  /\ \A s \in Pipes :
       InPipe(s) \in 0 .. PipeSize /\ Pending(s) \in 0 .. ReadSize /\ Len(kept[s]) <= Cap
  /\ status \in {"none", "launch-failed", "timeout", "ok", "failed", "signal"}

(* A run without failures is earned: every pack passed static validation,   *)
(* every job ran and passed, and each process began and ended over the      *)
(* leaves and the root directory discovery had captured, whoever changed    *)
(* packs meanwhile (content_ci.py 507-533, 563-606).  What a directory      *)
(* below the root showed for a moment is not part of it, though ADR 0013    *)
(* 64-66 says that any addition or replacement blocks.                      *)
PassIsEarned ==
  gate = "done" /\ ~failures =>
    /\ fit = Packs
    /\ passed = Len(Jobs)
    /\ \A p \in Packs : over[p] \subseteq {snapshot[p]}

(* A process that changed a leaf or the root directory of its pack, or saw  *)
(* one changed, is the last process of that pack, in this phase and the     *)
(* next, even if the bytes were put back (content_ci.py 405-415, 507-533).  *)
ChangeBlocksThePack ==
  [][gate = "launch" /\ gate' = "run" => over[Current] \subseteq {snapshot[Current]}]_vars

(* No process of the command's group outlives its run, so none is at work   *)
(* while the snapshot is compared (content_ci.py 323-327, 354-356).         *)
GroupEndsWithItsRun == gate # "run" => child # "running" /\ ~InGroup

(* However the command ended and whatever helpers hold on to its pipes, a   *)
(* tail is a gapless piece of the output, as long as the budget allows, and *)
(* misses less than one read of what the command wrote: nothing at all when *)
(* the pipe met its end (content_ci.py 280-291, 342-362).  When a helper of *)
(* another session holds the pipe, that read may be all there was: of the   *)
(* "actionable error" (270-271) nothing is sure.  Only of a run that failed *)
(* is the tail reported at all (399-401).                                   *)
TailMissesLessThanARead ==
  gate = "after" /\ status # "launch-failed" =>
    \A s \in Pipes :
      /\ kept[s] = [n \in 1 .. Len(kept[s]) |-> handed[s] - Len(kept[s]) + n]
      /\ Len(kept[s]) \in {Cap, handed[s]}
      /\ said[s] < handed[s] + ReadSize
      /\ s \in ended => said[s] <= handed[s]

(* "A wedged descendant can never hang the gate" (content_ci.py 323-328):   *)
(* whatever the processes of the packs do or leave undone, every validator  *)
(* and suite ends, and so does the CI, unless one of them left a FIFO where *)
(* the later gates open a participant document (content_ci.py 836-863).     *)
CIEnds == <>(gate \in {"wedged", "done"})

--------------------------------------------------------------------------------
(* Facts of the constants, so every behaviour has them from its first state. *)

(* catalog.py 405-434 and 562-602: the public catalog shows what the gates   *)
(* cleared and nothing of a customer's overlay, notes what it leaves out,    *)
(* and fails closed whatever the order of its sources.                       *)
CatalogIsSound ==
  Init => /\ \A pack \in Submitted : ShowsWhatIsCleared(pack)
          /\ \A sources \in Listings : OrderDecidesNothing(sources)
================================================================================
