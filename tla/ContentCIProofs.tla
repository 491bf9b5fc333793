---------------------------- MODULE ContentCIProofs ----------------------------
(***************************************************************************)
(* What TLAPS proves of ContentCI for any packs, jobs, pipes and budgets,  *)
(* whoever changes packs and whatever their processes do.                  *)
(***************************************************************************)
EXTENDS ContentCI, NaturalsInduction, SequenceTheorems, WellFoundedInduction, TLAPS

(***************************************************************************)
(* No process of the group outlives its run.                               *)
(***************************************************************************)

(* The command is alive only while it is waited for, and of its group only  *)
(* somebody it may still start, or that was not swept yet.                  *)
GroupInv ==
  /\ gate = "run" <=> Running
  /\ step # "waiting" => child # "running"
  /\ step \notin {"waiting", "reaping", "sweeping"} => ~InGroup

LEMMA InitGroup == Init => GroupInv
  BY DEF Init, ProcInit, GroupInv, Running, InGroup

(* Steps of the gate that read no process leave the process alone.          *)
LEMMA QuietGroup ==
  ASSUME GroupInv, UNCHANGED procVars, gate # "run", gate' # "run"
  PROVE  GroupInv'
  BY DEF GroupInv, Running, InGroup, procVars

LEMMA RunnerGroup ==
  ASSUME GroupInv, ProcessStep
  PROVE  GroupInv'
  <1>1. gate' = gate /\ gate = "run"
    BY DEF ProcessStep, ciVars
  <1>2. CASE DeadlinePasses
    BY <1>1, <1>2 DEF GroupInv, DeadlinePasses, KillGroup, Running, InGroup
  <1>3. CASE Reap
    BY <1>1, <1>3 DEF GroupInv, Reap, Running, InGroup
  <1>4. CASE Sweep
    BY <1>1, <1>4 DEF GroupInv, Sweep, KillGroup, Running, InGroup
  <1>5. CASE Join
    BY <1>1, <1>5 DEF GroupInv, Join, Running, InGroup
  <1>6. CASE SweepAgain
    BY <1>1, <1>6 DEF GroupInv, SweepAgain, Running, InGroup
  <1> QED BY <1>2, <1>3, <1>4, <1>5, <1>6 DEF ProcessStep, RunnerStep

LEMMA DrainGroup ==
  ASSUME GroupInv, NEW s \in Pipes, Drain(s)
  PROVE  GroupInv'
  BY DEF Drain, DrainerStep, ciVars, GroupInv, Read, HandOver, MeetEnd, Running, InGroup

LEMMA PackGroup ==
  ASSUME GroupInv, PackStep
  PROVE  GroupInv'
  <1>1. gate' = gate /\ gate = "run"
    BY DEF PackStep, ciVars
  <1>2. ASSUME NEW s \in Pipes, Write(s) PROVE GroupInv'
    BY <1>1, <1>2 DEF GroupInv, Write, Running, InGroup
  <1>3. CASE StartHelper
    BY <1>1, <1>3 DEF GroupInv, StartHelper, Running, InGroup
  <1>4. CASE HelperMoves
    BY <1>1, <1>4 DEF GroupInv, HelperMoves, Running, InGroup
  <1>5. CASE ChildEnds
    BY <1>1, <1>5 DEF GroupInv, ChildEnds, Running, InGroup
  <1> QED BY <1>2, <1>3, <1>4, <1>5 DEF PackStep, PackCodeStep

LEMMA GroupStep == GroupInv /\ [Next]_vars => GroupInv'
  <1> SUFFICES ASSUME GroupInv, [Next]_vars PROVE GroupInv' OBVIOUS
  <1>1. CASE UNCHANGED vars
    BY <1>1 DEF vars, ciVars, procVars, GroupInv, Running, InGroup
  <1>2. ASSUME NEW p \in Packs, ValidateStatic(p) \/ Snapshot(p) PROVE GroupInv'
    BY <1>2, QuietGroup DEF ValidateStatic, Snapshot
  <1>3. CASE EndStatic \/ EndDiscovery \/ Skip \/ OtherGates \/ Unwedge
    BY <1>3, QuietGroup DEF EndStatic, EndDiscovery, Skip, OtherGates, Unwedge
  <1>4. CASE CheckBefore
    BY <1>4, QuietGroup DEF CheckBefore
  <1>5. CASE Start
    BY <1>5 DEF Start, Launch, GroupInv, Running, InGroup
  <1>6. CASE StartFails
    BY <1>6 DEF StartFails, LaunchFails, GroupInv, Running, InGroup
  <1>7. CASE Record
    BY <1>7 DEF Record, Finish, GroupInv, Running, InGroup
  <1>8. CASE CheckAfter
    BY <1>8 DEF CheckAfter, Return, GroupInv, Running, InGroup
  <1>9. ASSUME NEW p \in Packs, Change(p) \/ ChangeNested(p) PROVE GroupInv'
    BY <1>9 DEF Change, ChangeNested, procVars, GroupInv, Running, InGroup
  <1> QED BY <1>1, <1>2, <1>3, <1>4, <1>5, <1>6, <1>7, <1>8, <1>9,
             RunnerGroup, DrainGroup, PackGroup DEF Next, CIStep

(* Whenever no run is on, neither the command nor a process of its group is *)
(* alive, so snapshots are compared while none of them works.               *)
THEOREM GroupNeverOutlivesItsRun == Spec => []GroupEndsWithItsRun
  <1>1. GroupInv => GroupEndsWithItsRun
    BY DEF GroupInv, GroupEndsWithItsRun, Running, InGroup
  <1> QED BY InitGroup, GroupStep, <1>1, PTL DEF Spec

(***************************************************************************)
(* A pass is earned, and a change blocks the pack.                         *)
(***************************************************************************)

Places ==
  /\ gate \in Gates
  /\ job \in 1 .. Len(Jobs) + 1
  /\ gate \in {"static", "discovery"} => job = 1
  /\ gate \in {"launch", "run", "after"} => job \in 1 .. Len(Jobs)
  /\ gate \in {"wedged", "done"} => job = Len(Jobs) + 1

Shapes ==
  /\ bytes \in [Packs -> Nat]
  /\ over \in [Packs -> SUBSET Nat]
  /\ fit \subseteq Packs /\ Eligible \subseteq fit /\ blocked \subseteq Eligible
  /\ \A p \in Eligible : snapshot[p] \in Nat /\ snapshot[p] <= bytes[p]
  /\ failures \in BOOLEAN
  /\ passed \in Nat

(* A phase without failures has every pack in the next one. *)
NobodyIsLost ==
  ~failures =>
    /\ blocked = {}
    /\ IF gate = "static" THEN viewed \subseteq fit ELSE fit = Packs
    /\ gate = "discovery" => viewed \subseteq Eligible
    /\ gate \notin {"static", "discovery"} => Eligible = Packs

(* A job is behind the loop only if its process ended well. *)
EveryJobPassed == ~failures => passed = IF gate = "after" THEN job ELSE job - 1

(* A process runs over what its pack is at some time after discovery. *)
OverIsLater ==
  /\ gate \in {"static", "discovery"} => \A p \in Packs : over[p] = {}
  /\ \A p \in Eligible : \A b \in over[p] : snapshot[p] <= b /\ b <= bytes[p]

(* Between two comparisons only the pack at hand may have been run over     *)
(* anything but its snapshot.                                               *)
OverIsTheSnapshot ==
  \A p \in Eligible \ blocked :
    gate \notin {"run", "after"} \/ p # Current => over[p] \subseteq {snapshot[p]}

(* A pack with a process is eligible and was found unchanged so far. *)
AtHand == gate \in {"launch", "run", "after"} => Runnable

EarnedInv ==
  /\ Places /\ Shapes /\ NobodyIsLost /\ EveryJobPassed /\ OverIsLater
  /\ OverIsTheSnapshot /\ AtHand

LEMMA JobsArePacks == \A n \in 1 .. Len(Jobs) : Jobs[n] \in Packs
  BY CIAssumption
LEMMA JobsAreFinite == Len(Jobs) \in Nat
  BY CIAssumption

LEMMA InitEarned == Init => EarnedInv
  <1> SUFFICES ASSUME Init PROVE EarnedInv OBVIOUS
  <1>1. Eligible = {}
    BY DEF Init, Eligible
  <1>2. Places
    BY DEF Init, Places, Gates
  <1>3. Shapes
    BY <1>1 DEF Init, Shapes
  <1>4. NobodyIsLost /\ EveryJobPassed
    BY DEF Init, NobodyIsLost, EveryJobPassed
  <1>5. OverIsLater /\ OverIsTheSnapshot
    BY <1>1 DEF Init, OverIsLater, OverIsTheSnapshot
  <1> QED BY <1>2, <1>3, <1>4, <1>5 DEF Init, EarnedInv, AtHand

(* Only the gate and the packs' changes move what the invariant reads. *)
LEMMA QuietEarned == ASSUME EarnedInv, UNCHANGED ciVars PROVE EarnedInv'
  BY DEF ciVars, EarnedInv, Places, Gates, Shapes, Eligible, NobodyIsLost,
     EveryJobPassed, OverIsLater, OverIsTheSnapshot, AtHand, Runnable, Current

LEMMA StaticEarned ==
  ASSUME EarnedInv, NEW p \in Packs, ValidateStatic(p)
  PROVE  EarnedInv'
  <1>1. Places'
    BY DEF ValidateStatic, EarnedInv, Places
  <1>2. Shapes'
    BY DEF ValidateStatic, EarnedInv, Shapes, Eligible
  <1>3. NobodyIsLost'
    BY DEF ValidateStatic, EarnedInv, NobodyIsLost
  <1>4. EveryJobPassed'
    BY DEF ValidateStatic, EarnedInv, EveryJobPassed
  <1>5. OverIsLater'
    BY DEF ValidateStatic, EarnedInv, Eligible, OverIsLater
  <1>6. OverIsTheSnapshot'
    BY DEF ValidateStatic, EarnedInv, Eligible, OverIsTheSnapshot
  <1>7. AtHand'
    BY DEF ValidateStatic, EarnedInv, AtHand
  <1> QED BY <1>1, <1>2, <1>3, <1>4, <1>5, <1>6, <1>7 DEF EarnedInv

LEMMA SnapshotEarned ==
  ASSUME EarnedInv, NEW p \in Packs, Snapshot(p)
  PROVE  EarnedInv'
  <1>1. Places'
    BY DEF Snapshot, EarnedInv, Places
  <1>2. Shapes'
    <2>0. failures' \in BOOLEAN
      BY DEF Snapshot, EarnedInv, Shapes
    <2>1. CASE UNCHANGED snapshot
      BY <2>0, <2>1 DEF Snapshot, EarnedInv, Shapes, Eligible
    <2>2. CASE snapshot' = [q \in Eligible \cup {p} |->
                              IF q = p THEN bytes[p] ELSE snapshot[q]]
      <3>1. Eligible' = Eligible \cup {p}
        BY <2>2 DEF Eligible
      <3>2. bytes[p] \in Nat /\ p \in fit
        BY DEF Snapshot, EarnedInv, Shapes
      <3>3. \A q \in Eligible' : snapshot'[q] \in Nat /\ snapshot'[q] <= bytes'[q]
        BY <2>2, <3>1, <3>2 DEF Snapshot, EarnedInv, Shapes
      <3> QED BY <2>0, <3>1, <3>2, <3>3 DEF Snapshot, EarnedInv, Shapes
    <2> QED BY <2>1, <2>2 DEF Snapshot
  <1>3. NobodyIsLost'
    BY DEF Snapshot, EarnedInv, Eligible, NobodyIsLost
  <1>4. EveryJobPassed'
    BY DEF Snapshot, EarnedInv, EveryJobPassed
  <1>5. OverIsLater'
    BY DEF Snapshot, EarnedInv, Eligible, OverIsLater
  <1>6. OverIsTheSnapshot'
    BY DEF Snapshot, EarnedInv, Eligible, OverIsLater, OverIsTheSnapshot
  <1>7. AtHand'
    BY DEF Snapshot, EarnedInv, AtHand
  <1> QED BY <1>1, <1>2, <1>3, <1>4, <1>5, <1>6, <1>7 DEF EarnedInv

LEMMA EndsEarned ==
  ASSUME EarnedInv, EndStatic \/ EndDiscovery \/ OtherGates \/ Unwedge
  PROVE  EarnedInv'
  <1>1. Places'
    BY DEF EndStatic, EndDiscovery, OtherGates, Unwedge, EarnedInv, Places, Gates
  <1>2. Shapes'
    BY DEF EndStatic, EndDiscovery, OtherGates, Unwedge, EarnedInv, Shapes, Eligible
  <1>3. NobodyIsLost'
    BY DEF EndStatic, EndDiscovery, OtherGates, Unwedge, EarnedInv, Shapes, Eligible,
       NobodyIsLost
  <1>4. EveryJobPassed'
    BY DEF EndStatic, EndDiscovery, OtherGates, Unwedge, EarnedInv, EveryJobPassed
  <1>5. OverIsLater'
    BY DEF EndStatic, EndDiscovery, OtherGates, Unwedge, EarnedInv, Eligible, OverIsLater
  <1>6. OverIsTheSnapshot'
    BY DEF EndStatic, EndDiscovery, OtherGates, Unwedge, EarnedInv, Eligible,
       OverIsTheSnapshot
  <1>7. AtHand'
    BY DEF EndStatic, EndDiscovery, OtherGates, Unwedge, EarnedInv, AtHand
  <1> QED BY <1>1, <1>2, <1>3, <1>4, <1>5, <1>6, <1>7 DEF EarnedInv

LEMMA SkipEarned ==
  ASSUME EarnedInv, Skip
  PROVE  EarnedInv'
  <1>1. Places'
    BY DEF Skip, EarnedInv, Places
  <1>2. Shapes'
    BY DEF Skip, EarnedInv, Shapes, Eligible
  <1>3. NobodyIsLost'
    BY DEF Skip, EarnedInv, Eligible, NobodyIsLost
  <1>4. EveryJobPassed'
    BY JobsArePacks DEF Skip, EarnedInv, Places, NobodyIsLost, EveryJobPassed,
       Runnable, Current
  <1>5. OverIsLater'
    BY DEF Skip, EarnedInv, Eligible, OverIsLater
  <1>6. OverIsTheSnapshot'
    BY DEF Skip, EarnedInv, Eligible, OverIsTheSnapshot
  <1>7. AtHand'
    BY DEF Skip, EarnedInv, AtHand
  <1> QED BY <1>1, <1>2, <1>3, <1>4, <1>5, <1>6, <1>7 DEF EarnedInv

LEMMA BeforeEarned ==
  ASSUME EarnedInv, CheckBefore
  PROVE  EarnedInv'
  <1>1. Places'
    BY DEF CheckBefore, EarnedInv, Places, Gates
  <1>2. Shapes'
    BY DEF CheckBefore, CheckSnapshot, EarnedInv, Shapes, Eligible, Runnable
  <1>3. NobodyIsLost'
    BY DEF CheckBefore, CheckSnapshot, EarnedInv, Eligible, NobodyIsLost
  <1>4. EveryJobPassed'
    BY DEF CheckBefore, CheckSnapshot, EarnedInv, EveryJobPassed
  <1>5. OverIsLater'
    BY DEF CheckBefore, EarnedInv, Eligible, OverIsLater
  <1>6. OverIsTheSnapshot'
    BY DEF CheckBefore, CheckSnapshot, EarnedInv, Eligible, OverIsTheSnapshot
  <1>7. AtHand'
    BY DEF CheckBefore, CheckSnapshot, EarnedInv, AtHand, Runnable, Current,
       Eligible
  <1> QED BY <1>1, <1>2, <1>3, <1>4, <1>5, <1>6, <1>7 DEF EarnedInv

LEMMA StartEarned ==
  ASSUME EarnedInv, Start \/ StartFails
  PROVE  EarnedInv'
  <1>1. Places'
    BY DEF Start, StartFails, EarnedInv, Places, Gates
  <1>2. Shapes'
    <2>1. failures' \in BOOLEAN
      BY DEF Start, StartFails, EarnedInv, Shapes
    <2>2. over' \in [Packs -> SUBSET Nat]
      <3>1. Current \in Packs /\ bytes[Current] \in Nat /\ over[Current] \subseteq Nat
        BY JobsArePacks DEF Start, StartFails, EarnedInv, Places, Shapes, Current
      <3> QED BY <3>1 DEF Start, StartFails, EarnedInv, Shapes
    <2> QED BY <2>1, <2>2 DEF Start, StartFails, EarnedInv, Shapes, Eligible
  <1>3. NobodyIsLost'
    BY DEF Start, StartFails, EarnedInv, Eligible, NobodyIsLost
  <1>4. EveryJobPassed'
    BY DEF Start, StartFails, EarnedInv, EveryJobPassed
  <1>5. OverIsLater'
    BY JobsAreFinite DEF Start, StartFails, EarnedInv, Shapes, Eligible, OverIsLater
  <1>6. OverIsTheSnapshot'
    BY DEF Start, StartFails, EarnedInv, Shapes, Eligible, OverIsTheSnapshot,
       Current
  <1>7. AtHand'
    BY DEF Start, StartFails, EarnedInv, AtHand, Runnable, Current, Eligible
  <1> QED BY <1>1, <1>2, <1>3, <1>4, <1>5, <1>6, <1>7 DEF EarnedInv

LEMMA RecordEarned ==
  ASSUME EarnedInv, Record
  PROVE  EarnedInv'
  <1>1. Places'
    BY DEF Record, EarnedInv, Places, Gates
  <1>2. Shapes'
    BY DEF Record, EarnedInv, Shapes, Eligible
  <1>3. NobodyIsLost'
    BY DEF Record, EarnedInv, Eligible, NobodyIsLost
  <1>4. EveryJobPassed'
    <2>1. ~failures' => ~failures /\ status' = "ok"
      BY DEF Record
    <2>2. status' = "ok" => passed' = passed + 1
      BY DEF Record
    <2> QED BY <2>1, <2>2, JobsAreFinite
            DEF Record, EarnedInv, Places, Shapes, EveryJobPassed
  <1>5. OverIsLater'
    BY DEF Record, EarnedInv, Eligible, OverIsLater
  <1>6. OverIsTheSnapshot'
    BY DEF Record, EarnedInv, Eligible, OverIsTheSnapshot, Current
  <1>7. AtHand'
    BY DEF Record, EarnedInv, AtHand, Runnable, Current, Eligible
  <1> QED BY <1>1, <1>2, <1>3, <1>4, <1>5, <1>6, <1>7 DEF EarnedInv

LEMMA AfterEarned ==
  ASSUME EarnedInv, CheckAfter
  PROVE  EarnedInv'
  <1>1. Places'
    BY DEF CheckAfter, EarnedInv, Places, Gates
  <1>2. Shapes'
    <2>1. failures' \in BOOLEAN
      BY DEF CheckAfter, CheckSnapshot, EarnedInv, Shapes
    <2>2. blocked' \subseteq Eligible
      <3>1. CASE UNCHANGED blocked
        BY <3>1 DEF EarnedInv, Shapes
      <3>2. CASE blocked' = blocked \cup {Current}
        BY <3>2 DEF CheckAfter, EarnedInv, Shapes, AtHand, Runnable
      <3> QED BY <3>1, <3>2 DEF CheckAfter, CheckSnapshot
    <2> QED BY <2>1, <2>2 DEF CheckAfter, EarnedInv, Shapes, Eligible
  <1>3. NobodyIsLost'
    BY DEF CheckAfter, CheckSnapshot, EarnedInv, Eligible, NobodyIsLost
  <1>4. EveryJobPassed'
    BY DEF CheckAfter, CheckSnapshot, EarnedInv, Places, EveryJobPassed
  <1>5. OverIsLater'
    BY DEF CheckAfter, EarnedInv, Eligible, OverIsLater
  <1>6. OverIsTheSnapshot'
    BY DEF CheckAfter, CheckSnapshot, SameIdentities, EarnedInv, Shapes, Eligible,
       OverIsLater, OverIsTheSnapshot
  <1>7. AtHand'
    BY DEF CheckAfter, EarnedInv, AtHand
  <1> QED BY <1>1, <1>2, <1>3, <1>4, <1>5, <1>6, <1>7 DEF EarnedInv

LEMMA ChangeEarned ==
  ASSUME EarnedInv, NEW p \in Packs, Change(p)
  PROVE  EarnedInv'
  <1>1. Places'
    BY DEF Change, EarnedInv, Places
  <1>2. Shapes'
    <2>1. over' \in [Packs -> SUBSET Nat]
      BY DEF Change, EarnedInv, Shapes
    <2>2. bytes' \in [Packs -> Nat]
      BY DEF Change, EarnedInv, Shapes
    <2>3. \A q \in Eligible : snapshot[q] <= bytes'[q]
      BY DEF Change, EarnedInv, Shapes
    <2> QED BY <2>1, <2>2, <2>3 DEF Change, EarnedInv, Shapes, Eligible
  <1>3. NobodyIsLost'
    BY DEF Change, EarnedInv, Eligible, NobodyIsLost
  <1>4. EveryJobPassed'
    BY DEF Change, EarnedInv, EveryJobPassed
  <1>5. OverIsLater'
    BY DEF Change, EarnedInv, Shapes, Eligible, OverIsLater
  <1>6. OverIsTheSnapshot'
    BY DEF Change, EarnedInv, Eligible, OverIsTheSnapshot, Current
  <1>7. AtHand'
    BY DEF Change, EarnedInv, AtHand, Runnable, Current, Eligible
  <1> QED BY <1>1, <1>2, <1>3, <1>4, <1>5, <1>6, <1>7 DEF EarnedInv

LEMMA NestedEarned ==
  ASSUME EarnedInv, NEW p \in Packs, ChangeNested(p)
  PROVE  EarnedInv'
  BY DEF ChangeNested, EarnedInv, Places, Shapes, Eligible, NobodyIsLost, EveryJobPassed,
     OverIsLater, OverIsTheSnapshot, AtHand, Runnable, Current

LEMMA EarnedStep == EarnedInv /\ [Next]_vars => EarnedInv'
  <1> SUFFICES ASSUME EarnedInv, [Next]_vars PROVE EarnedInv' OBVIOUS
  <1>1. CASE UNCHANGED ciVars
    BY <1>1, QuietEarned
  <1>2. CASE CIStep
    BY <1>2, StaticEarned, SnapshotEarned, EndsEarned, SkipEarned, BeforeEarned,
       StartEarned, RecordEarned, AfterEarned DEF CIStep
  <1>3. CASE \E p \in Packs : Change(p) \/ ChangeNested(p)
    BY <1>3, ChangeEarned, NestedEarned
  <1>4. CASE Unwedge
    BY <1>4, EndsEarned
  <1> QED BY <1>1, <1>2, <1>3, <1>4 DEF Next, ProcessStep, Drain, PackStep, vars

(* A verdict without failures: every pack passed static validation, every   *)
(* job passed, and every process began and ended over the leaves and the    *)
(* root directory discovery saw; what directories below the root showed     *)
(* meanwhile is not part of it (content_ci.py 418-431).                     *)
THEOREM EveryPassIsEarned == Spec => []PassIsEarned
  <1>1. EarnedInv => PassIsEarned
    BY JobsAreFinite DEF EarnedInv, Places, Shapes, NobodyIsLost, EveryJobPassed,
       OverIsTheSnapshot, PassIsEarned
  <1> QED BY InitEarned, EarnedStep, <1>1, PTL DEF Spec

(* A process starts in a pack only if none before it saw a leaf or the root *)
(* directory of the pack changed, also when the bytes were put back.        *)
THEOREM ChangeAlwaysBlocks == Spec => ChangeBlocksThePack
  <1>1. EarnedInv /\ [Next]_vars =>
          [gate = "launch" /\ gate' = "run" => over[Current] \subseteq {snapshot[Current]}]_vars
    BY DEF EarnedInv, OverIsTheSnapshot, AtHand, Runnable
  <1> QED BY InitEarned, EarnedStep, <1>1, PTL DEF Spec, ChangeBlocksThePack

(***************************************************************************)
(* What the report misses.                                                 *)
(***************************************************************************)

Counts ==
  /\ written \in [Pipes -> Nat] /\ taken \in [Pipes -> Nat] /\ handed \in [Pipes -> Nat]
  /\ said \in [Pipes -> Nat]
  /\ \A s \in Pipes :
       /\ handed[s] <= taken[s] /\ Pending(s) <= ReadSize
       /\ taken[s] <= written[s] /\ InPipe(s) <= PipeSize
       /\ said[s] <= written[s]
  /\ ended \subseteq Pipes /\ joined \in 0 .. Len(Joins)

(* What is kept are the last chunks that reads returned, as many as fit.    *)
Fits(n) == IF n < Cap THEN n ELSE Cap
Ending(n, l) == [i \in 1 .. l |-> n - l + i]
KeepsTheTail(s) == kept[s] = Ending(handed[s], Fits(handed[s]))

(* Who met the end of a pipe returned all that will ever be in it.          *)
EndIsFinal == \A s \in ended : handed[s] = taken[s] /\ taken[s] = written[s] /\ ~Held

(* A join is done when its drainer ended, or caught up with a command that  *)
(* has written its last.                                                    *)
JoinedHasAll ==
  step \in {"joining", "joiningAgain"} => \A j \in 1 .. joined : CaughtUp(Joins[j])

Reported == gate = "after" /\ status # "launch-failed" => \A s \in Pipes : CaughtUp(s)

Fresh ==
  gate \notin {"run", "after"} =>
    /\ written = Nothing /\ taken = Nothing /\ said = Nothing /\ handed = Nothing
    /\ kept = [s \in Pipes |-> <<>>] /\ ended = {} /\ joined = 0

OutputInv ==
  /\ GroupInv /\ Counts
  /\ kept \in [Pipes -> Seq(Nat)] /\ \A s \in Pipes : KeepsTheTail(s)
  /\ EndIsFinal /\ JoinedHasAll /\ Reported /\ Fresh

LEMMA Sizes == PipeSize \in Nat \ {0} /\ ReadSize \in Nat \ {0} /\ Cap \in Nat \ {0}
  BY ProcessAssumption

LEMMA LastIsASequence ==
  ASSUME NEW n \in Nat, NEW l \in Nat, l <= n
  PROVE  Ending(n, l) \in Seq(Nat) /\ Len(Ending(n, l)) = l
  <1>1. \A i \in 1 .. l : n - l + i \in Nat
    OBVIOUS
  <1> QED BY <1>1 DEF Ending

LEMMA NothingIsKept == Ending(0, Fits(0)) = <<>>
  BY Sizes DEF Ending, Fits

(* TailOf drops the oldest chunks, and only when the tail is full.          *)
LEMMA TailOfKeeps ==
  ASSUME NEW n \in Nat, NEW k \in Nat \ {0}
  PROVE  TailOf(Ending(n, Fits(n)), [i \in 1 .. k |-> n + i]) = Ending(n + k, Fits(n + k))
  <1> DEFINE l == Fits(n)
             tail == Ending(n, l)
             chunks == [i \in 1 .. k |-> n + i]
             longer == tail \o chunks
  <1>1. l \in Nat /\ l <= n /\ Cap \in Nat \ {0} /\ l <= Cap
        /\ (l = n \/ (l = Cap /\ Cap <= n))
    BY Sizes DEF Fits
  <1>2. tail \in Seq(Nat) /\ Len(tail) = l /\ \A i \in 1 .. l : tail[i] = n - l + i
    <2>1. \A i \in 1 .. l : tail[i] = n - l + i
      BY DEF Ending
    <2> HIDE DEF l
    <2> QED BY <1>1, <2>1, LastIsASequence
  <1>3. chunks \in Seq(Nat) /\ Len(chunks) = k /\ \A i \in 1 .. k : chunks[i] = n + i
    OBVIOUS
  <1> HIDE DEF l, tail, chunks
  <1>4. longer \in Seq(Nat) /\ Len(longer) = l + k
    BY <1>1, <1>2, <1>3, ConcatProperties
  <1>5. \A i \in 1 .. l + k : longer[i] = n - l + i
    <2> SUFFICES ASSUME NEW i \in 1 .. l + k PROVE longer[i] = n - l + i
      OBVIOUS
    <2>0. longer[i] = IF i <= l THEN tail[i] ELSE chunks[i - l]
      BY <1>1, <1>2, <1>3, ConcatProperties
    <2> HIDE DEF longer
    <2>1. CASE i <= l
      BY <1>1, <1>2, <2>0, <2>1
    <2>2. CASE i > l
      <3>1. longer[i] = chunks[i - l] /\ i - l \in 1 .. k
        BY <1>1, <2>0, <2>2
      <3> QED BY <1>1, <1>3, <3>1
    <2> QED BY <1>1, <2>1, <2>2
  <1> HIDE DEF longer
  <1>6. TailOf(tail, chunks) = Ending(n + k, Fits(n + k))
    <2> DEFINE m == Len(longer)
               cut == SubSeq(longer, m - Cap + 1, m)
    <2>0. TailOf(tail, chunks) = IF m > Cap THEN cut ELSE longer
      BY DEF TailOf, LastOf, longer
    <2>3. m = l + k
      BY <1>4
    <2> HIDE DEF m
    <2>1. CASE l + k > Cap
      <3>1. Fits(n + k) = Cap
        BY <1>1, <2>1 DEF Fits
      <3>2. cut = [i \in 1 .. Cap |-> longer[l + k - Cap + i]]
        <4>1. m - Cap + 1 \in 1 .. m + 1 /\ m \in Nat
          BY <1>1, <2>1, <2>3
        <4>2. m - (m - Cap + 1) + 1 = Cap
          BY <1>1, <4>1
        <4>3. Len(cut) = Cap /\ cut \in Seq(Nat)
              /\ \A i \in 1 .. Cap : cut[i] = longer[(m - Cap + 1) + i - 1]
          <5>1. \A i \in m - Cap + 1 .. m : longer[i] \in Nat
            BY <1>1, <1>4, <4>1, <2>3
          <5> QED BY <1>1, <4>1, <4>2, <5>1, SubSeqProperties
        <4>4. \A i \in 1 .. Cap : (m - Cap + 1) + i - 1 = l + k - Cap + i
          BY <1>1, <2>3
        <4>5. cut = [i \in 1 .. Cap |-> cut[i]]
          BY <4>3
        <4> HIDE DEF cut
        <4> QED BY <4>3, <4>4, <4>5
      <3>3. \A i \in 1 .. Cap : longer[l + k - Cap + i] = (n + k) - Cap + i
        BY <1>1, <1>5, <2>1
      <3> QED BY <2>0, <2>1, <2>3, <3>1, <3>2, <3>3 DEF Ending
    <2>2. CASE ~(l + k > Cap)
      <3>1. l = n /\ Fits(n + k) = n + k
        BY <1>1, <2>2 DEF Fits
      <3>2. longer = [i \in 1 .. n + k |-> longer[i]]
        BY <1>4, <3>1
      <3>3. \A i \in 1 .. n + k : longer[i] = (n + k) - (n + k) + i
        BY <1>5, <3>1
      <3> QED BY <2>0, <2>2, <2>3, <3>1, <3>2, <3>3 DEF Ending
    <2> QED BY <2>1, <2>2
  <1> QED BY <1>6 DEF l, tail, chunks

LEMMA InitOutput == Init => OutputInv
  <1> SUFFICES ASSUME Init PROVE OutputInv OBVIOUS
  <1>1. Counts
    BY Sizes DEF Init, ProcInit, Counts, Nothing, InPipe, Pending, Joins
  <1>2. kept \in [Pipes -> Seq(Nat)] /\ \A s \in Pipes : KeepsTheTail(s)
    BY NothingIsKept DEF Init, ProcInit, Nothing, KeepsTheTail
  <1> QED BY <1>1, <1>2, InitGroup
          DEF Init, ProcInit, OutputInv, EndIsFinal, JoinedHasAll, Reported, Fresh

(* What the gate does between runs leaves the output alone.                 *)
LEMMA QuietOutput ==
  ASSUME OutputInv, GroupInv', UNCHANGED procVars,
         gate' = gate \/ (gate # "run" /\ gate' \notin {"run", "after"}),
         gate = "after" => gate' = "after"
  PROVE  OutputInv'
  BY DEF OutputInv, procVars, Counts, InPipe, Pending, KeepsTheTail, EndIsFinal, Held,
         JoinedHasAll, CaughtUp, Reported, Fresh

(* More that was taken or returned never makes a drainer fall behind.       *)
LEMMA CaughtUpStays ==
  ASSUME Counts, Counts', UNCHANGED said, NEW r \in Pipes, CaughtUp(r),
         taken[r] <= taken'[r], handed[r] <= handed'[r]
  PROVE  CaughtUp(r)'
  BY Sizes DEF Counts, CaughtUp

LEMMA EndedIsCaughtUp ==
  ASSUME Counts, EndIsFinal, NEW r \in ended
  PROVE  CaughtUp(r)
  BY Sizes DEF Counts, EndIsFinal, CaughtUp

LEMMA JoinsArePipes == \A j \in 1 .. 2 : Joins[j] \in Pipes
  BY DEF Joins, Pipes

LEMMA JoinedStays ==
  ASSUME Counts, Counts', UNCHANGED <<said, step, joined>>, JoinedHasAll,
         \A r \in Pipes : taken[r] <= taken'[r] /\ handed[r] <= handed'[r]
  PROVE  JoinedHasAll'
  <1>1. \A r \in Pipes : CaughtUp(r) => CaughtUp(r)'
    BY CaughtUpStays
  <1>2. joined \in 0 .. 2
    BY DEF Counts, Joins
  <1>3. \A j \in 1 .. joined : Joins[j] \in Pipes
    BY <1>2, JoinsArePipes
  <1> QED BY <1>1, <1>3 DEF JoinedHasAll, Joins

LEMMA ReadOutput ==
  ASSUME OutputInv, GroupInv', gate = "run", UNCHANGED gate, NEW s \in Pipes, Read(s)
  PROVE  OutputInv'
  <1> USE DEF OutputInv, Read
  <1>1. Counts'
    <2>1. /\ written[s] \in Nat /\ taken[s] \in Nat /\ taken[s] < written[s]
          /\ handed[s] \in Nat /\ taken[s] - handed[s] < ReadSize /\ handed[s] <= taken[s]
      BY DEF Counts, InPipe, Pending
    <2>2. taken' \in [Pipes -> Nat] /\ taken'[s] = taken[s] + 1
          /\ \A r \in Pipes \ {s} : taken'[r] = taken[r]
      BY <2>1 DEF Counts
    <2>3. \A r \in Pipes :
            /\ handed[r] <= taken'[r] /\ taken'[r] - handed[r] <= ReadSize
            /\ taken'[r] <= written[r] /\ written[r] - taken'[r] <= PipeSize
      BY <2>1, <2>2, Sizes DEF Counts, InPipe, Pending
    <2> QED BY <2>2, <2>3 DEF Counts, InPipe, Pending
  <1>2. \A r \in Pipes : taken[r] <= taken'[r] /\ handed[r] <= handed'[r]
    BY DEF Counts
  <1>3. JoinedHasAll'
    BY <1>1, <1>2, JoinedStays
  <1>4. EndIsFinal'
    BY DEF EndIsFinal, Held, Counts
  <1>5. \A r \in Pipes : KeepsTheTail(r)'
    BY DEF KeepsTheTail
  <1> QED BY <1>1, <1>3, <1>4, <1>5 DEF Reported, Fresh

LEMMA HandOverOutput ==
  ASSUME OutputInv, GroupInv', gate = "run", UNCHANGED gate, NEW s \in Pipes, HandOver(s)
  PROVE  OutputInv'
  <1> USE DEF OutputInv, HandOver
  <1>1. /\ taken[s] \in Nat /\ handed[s] \in Nat /\ Pending(s) \in Nat \ {0}
        /\ taken[s] = handed[s] + Pending(s)
    <2>1. taken[s] \in Nat /\ handed[s] \in Nat
      BY DEF Counts
    <2>2. Pending(s) = ReadSize \/ Pending(s) > 0
      OBVIOUS
    <2> HIDE DEF OutputInv, HandOver
    <2> QED BY <2>1, <2>2, Sizes DEF Pending
  <1>2. /\ handed' \in [Pipes -> Nat] /\ handed'[s] = taken[s]
        /\ \A r \in Pipes \ {s} : handed'[r] = handed[r]
    BY <1>1 DEF Counts
  <1>3. Counts'
    <2>1. \A r \in Pipes : handed'[r] <= taken[r] /\ taken[r] - handed'[r] <= ReadSize
      BY <1>1, <1>2, Sizes DEF Counts, Pending
    <2> QED BY <1>2, <2>1 DEF Counts, InPipe, Pending
  <1>4. \A r \in Pipes : taken[r] <= taken'[r] /\ handed[r] <= handed'[r]
    BY <1>1, <1>2 DEF Counts
  <1>5. JoinedHasAll'
    BY <1>3, <1>4, JoinedStays
  <1>6. EndIsFinal'
    BY <1>2 DEF EndIsFinal, Held, Counts
  <1>7. /\ kept'[s] = Ending(taken[s], Fits(taken[s]))
        /\ \A r \in Pipes \ {s} : kept'[r] = kept[r]
    <2> DEFINE n == handed[s]
               k == Pending(s)
    <2>1. kept'[s] = TailOf(Ending(n, Fits(n)), [i \in 1 .. k |-> n + i])
          /\ \A r \in Pipes \ {s} : kept'[r] = kept[r]
      BY DEF KeepsTheTail
    <2>2. n \in Nat /\ k \in Nat \ {0} /\ taken[s] = n + k
      BY <1>1
    <2> HIDE DEF n, k
    <2> QED BY <2>1, <2>2, TailOfKeeps
  <1>8. \A r \in Pipes : KeepsTheTail(r)'
    BY <1>2, <1>7 DEF KeepsTheTail
  <1>9. kept' \in [Pipes -> Seq(Nat)]
    <2>1. Fits(taken[s]) \in Nat /\ Fits(taken[s]) <= taken[s]
      BY <1>1, Sizes DEF Fits
    <2>2. kept'[s] \in Seq(Nat)
      BY <1>1, <1>7, <2>1, LastIsASequence
    <2> HIDE DEF OutputInv
    <2> QED BY <1>7, <2>2 DEF OutputInv
  <1> QED BY <1>3, <1>5, <1>6, <1>8, <1>9 DEF Reported, Fresh

LEMMA DrainOutput ==
  ASSUME OutputInv, GroupInv', NEW s \in Pipes, Drain(s)
  PROVE  OutputInv'
  <1>0. UNCHANGED gate /\ gate = "run"
    BY DEF Drain, ciVars
  <1>1. CASE MeetEnd(s)
    BY <1>0, <1>1 DEF MeetEnd, Output, OutputInv, Counts, InPipe, Pending, KeepsTheTail,
         EndIsFinal, Held, JoinedHasAll, CaughtUp, Reported, Fresh
  <1> QED BY <1>0, <1>1, ReadOutput, HandOverOutput DEF Drain, DrainerStep

LEMMA RunnerOutput ==
  ASSUME OutputInv, GroupInv', ProcessStep
  PROVE  OutputInv'
  <1>0. UNCHANGED gate /\ gate = "run"
    BY DEF ProcessStep, ciVars
  <1>1. CASE DeadlinePasses
    BY <1>0, <1>1 DEF DeadlinePasses, KillGroup, Output, OutputInv, Counts, InPipe,
         Pending, KeepsTheTail,
         EndIsFinal, Held, InGroup, JoinedHasAll, Reported, Fresh
  <1>2. CASE Reap
    BY <1>0, <1>2 DEF Reap, Output, OutputInv, Counts, InPipe, Pending, KeepsTheTail,
         EndIsFinal, Held,
         JoinedHasAll, Reported, Fresh
  <1>3. CASE Sweep
    BY <1>0, <1>3 DEF Sweep, KillGroup, Output, OutputInv, Counts, InPipe, Pending,
         KeepsTheTail,
         EndIsFinal, Held, InGroup, JoinedHasAll, Reported, Fresh, Joins
  <1>4. CASE Join
    <2>1. Counts'
      BY <1>0, <1>4 DEF Join, Output, OutputInv, Counts, InPipe, Pending, Joins
    <2>2. JoinedHasAll'
      <3>1. joined \in 0 .. 1 /\ Joins[joined + 1] \in Pipes /\ joined' = joined + 1
        BY <1>4, JoinsArePipes DEF Join, OutputInv, Counts, Joins
      <3>2. CaughtUp(Joins[joined + 1])
        BY <1>4, <3>1, EndedIsCaughtUp DEF Join, GivesUp, OutputInv
      <3>3. \A j \in 1 .. joined : CaughtUp(Joins[j])
        BY <1>4 DEF Join, OutputInv, JoinedHasAll
      <3>4. \A j \in 1 .. joined + 1 : CaughtUp(Joins[j])
        BY <3>1, <3>2, <3>3
      <3>5. \A j \in 1 .. joined' : CaughtUp(Joins[j])'
        BY <1>4, <3>1, <3>4 DEF Join, Output, CaughtUp
      <3> QED BY <3>5 DEF JoinedHasAll
    <2> QED BY <1>0, <1>4, <2>1, <2>2
            DEF Join, Output, OutputInv, KeepsTheTail, EndIsFinal, Held, Reported, Fresh
  <1>5. CASE SweepAgain
    BY <1>0, <1>5 DEF SweepAgain, Output, OutputInv, Counts, InPipe, Pending,
         KeepsTheTail, EndIsFinal, Held,
         JoinedHasAll, Reported, Fresh
  <1> QED BY <1>1, <1>2, <1>3, <1>4, <1>5 DEF ProcessStep, RunnerStep

LEMMA PackOutput ==
  ASSUME OutputInv, GroupInv', PackStep
  PROVE  OutputInv'
  <1>0. UNCHANGED gate /\ gate = "run"
    BY DEF PackStep, ciVars
  <1>1. ASSUME NEW s \in Pipes, Write(s) PROVE OutputInv'
    <2> USE <1>0, <1>1 DEF Write, OutputInv
    <2>1. Counts'
      <3>1. /\ written[s] \in Nat /\ taken[s] \in Nat /\ written[s] - taken[s] < PipeSize
            /\ taken[s] <= written[s]
        BY DEF Counts, InPipe, Pending
      <3>2. /\ written' \in [Pipes -> Nat] /\ written'[s] = written[s] + 1
            /\ \A r \in Pipes \ {s} : written'[r] = written[r]
        <4>1. written' = [written EXCEPT ![s] = @ + 1] /\ written \in [Pipes -> Nat]
          BY DEF Counts
        <4> HIDE <1>0, <1>1
        <4> HIDE DEF Write, OutputInv
        <4> QED BY <3>1, <4>1
      <3>3. /\ said' \in [Pipes -> Nat]
            /\ \A r \in Pipes : said'[r] <= written'[r]
        <4>1. /\ said \in [Pipes -> Nat] /\ \A r \in Pipes : said[r] <= written[r]
              /\ written \in [Pipes -> Nat]
          BY DEF Counts
        <4>2. said' = [said EXCEPT ![s] = written[s] + 1] \/ said' = said
          OBVIOUS
        <4> HIDE <1>0, <1>1
        <4> HIDE DEF Write, OutputInv
        <4>3. written[s] <= written'[s] /\ written'[s] = written[s] + 1
          BY <3>1, <3>2
        <4>4. CASE said' = said
          BY <3>1, <3>2, <4>1, <4>3, <4>4
        <4>5. CASE said' = [said EXCEPT ![s] = written[s] + 1]
          BY <3>1, <3>2, <4>1, <4>3, <4>5
        <4> QED BY <4>2, <4>4, <4>5
      <3>4. \A r \in Pipes : taken[r] <= written'[r] /\ written'[r] - taken[r] <= PipeSize
        <4>1. \A r \in Pipes \ {s} : taken[r] <= written[r] /\ written[r] - taken[r] <= PipeSize
          BY DEF Counts, InPipe, Pending
        <4>2. taken[s] <= written'[s] /\ written'[s] - taken[s] <= PipeSize
          <5> DEFINE w == written'[s]
          <5>1. w = written[s] + 1
            BY <3>2
          <5> HIDE DEF w
          <5>2. taken[s] <= w /\ w - taken[s] <= PipeSize
            BY <3>1, <5>1, Sizes
          <5> QED BY <5>2 DEF w
        <4>3. \A r \in Pipes \ {s} :
                taken[r] <= written'[r] /\ written'[r] - taken[r] <= PipeSize
          BY <3>2, <4>1
        <4> QED BY <4>2, <4>3
      <3> QED BY <3>2, <3>3, <3>4 DEF Counts, InPipe, Pending
    <2>2. EndIsFinal'
      BY DEF EndIsFinal
    <2>3. JoinedHasAll'
      BY DEF JoinedHasAll, CaughtUp, GroupInv
    <2> QED BY <2>1, <2>2, <2>3 DEF KeepsTheTail, Reported, Fresh
  <1>2. CASE StartHelper \/ HelperMoves \/ ChildEnds
    BY <1>0, <1>2 DEF StartHelper, HelperMoves, ChildEnds, Output, OutputInv, Counts, InPipe,
         Pending, KeepsTheTail, EndIsFinal, Held, JoinedHasAll, CaughtUp, Reported, Fresh
  <1> QED BY <1>1, <1>2 DEF PackStep, PackCodeStep

(* The start of a run, its end, and the return from it.                     *)
LEMMA RunOutput ==
  ASSUME OutputInv, GroupInv', Start \/ StartFails \/ Record \/ CheckAfter
  PROVE  OutputInv'
  <1>1. CASE Start \/ StartFails
    BY <1>1 DEF Start, StartFails, Launch, LaunchFails, Output, OutputInv, Counts, InPipe,
         Pending, KeepsTheTail, EndIsFinal, JoinedHasAll, Reported, Fresh, GroupInv, Running
  <1>2. CASE Record
    <2>1. \A s \in Pipes : CaughtUp(s)
      BY <1>2 DEF Record, Finish, OutputInv, JoinedHasAll, Joins, Pipes
    <2> QED BY <1>2, <2>1 DEF Record, Finish, Output, OutputInv, Counts, InPipe,
         Pending, KeepsTheTail, EndIsFinal, Held, JoinedHasAll, CaughtUp, Reported, Fresh
  <1>3. CASE CheckAfter
    <2>1. Counts'
      BY <1>3, Sizes DEF CheckAfter, Return, Counts, Nothing, InPipe, Pending, Joins
    <2>2. kept' \in [Pipes -> Seq(Nat)] /\ \A s \in Pipes : KeepsTheTail(s)'
      BY <1>3, NothingIsKept DEF CheckAfter, Return, Nothing, KeepsTheTail
    <2> QED BY <1>3, <2>1, <2>2
            DEF CheckAfter, Return, OutputInv, EndIsFinal, JoinedHasAll, Reported, Fresh
  <1> QED BY <1>1, <1>2, <1>3

LEMMA OutputStep == OutputInv /\ [Next]_vars => OutputInv'
  <1> SUFFICES ASSUME OutputInv, [Next]_vars PROVE OutputInv' OBVIOUS
  <1>0. GroupInv'
    BY GroupStep DEF OutputInv
  <1>1. CASE UNCHANGED vars
    BY <1>0, <1>1, QuietOutput DEF vars, ciVars
  <1>2. ASSUME NEW p \in Packs, ValidateStatic(p) \/ Snapshot(p) \/ Change(p) \/ ChangeNested(p)
        PROVE  OutputInv'
    BY <1>0, <1>2, QuietOutput DEF ValidateStatic, Snapshot, Change, ChangeNested
  <1>3. CASE EndStatic \/ EndDiscovery \/ Skip \/ CheckBefore \/ OtherGates \/ Unwedge
    BY <1>0, <1>3, QuietOutput
       DEF EndStatic, EndDiscovery, Skip, CheckBefore, OtherGates, Unwedge
  <1> QED BY <1>0, <1>1, <1>2, <1>3, RunnerOutput, DrainOutput, PackOutput, RunOutput
         DEF Next, CIStep

(* However much is written and however long helpers hold the pipes, a tail  *)
(* is gapless, as long as the budget allows, and lacks less than one read   *)
(* of what the command wrote.                                               *)
THEOREM TailsMissLessThanARead == Spec => []TailMissesLessThanARead
  <1>1. OutputInv => TailMissesLessThanARead
    <2> SUFFICES ASSUME OutputInv, gate = "after", status # "launch-failed", NEW s \in Pipes
                 PROVE  /\ kept[s] = [n \in 1 .. Len(kept[s]) |-> handed[s] - Len(kept[s]) + n]
                        /\ Len(kept[s]) \in {Cap, handed[s]}
                        /\ said[s] < handed[s] + ReadSize
                        /\ s \in ended => said[s] <= handed[s]
      BY DEF TailMissesLessThanARead
    <2> DEFINE l == Fits(handed[s])
    <2>1. handed[s] \in Nat /\ l \in Nat /\ l <= handed[s] /\ l \in {Cap, handed[s]}
      BY Sizes DEF OutputInv, Counts, Fits
    <2>2. kept[s] = [n \in 1 .. l |-> handed[s] - l + n]
      BY DEF OutputInv, KeepsTheTail, Ending
    <2>3. Len(kept[s]) = l
      <3> HIDE DEF l
      <3> QED BY <2>1, <2>2, LastIsASequence DEF Ending
    <2>4. said[s] < handed[s] + ReadSize
      BY DEF OutputInv, Reported, CaughtUp
    <2>5. s \in ended => said[s] <= handed[s]
      BY DEF OutputInv, EndIsFinal, Counts
    <2> QED BY <2>1, <2>2, <2>3, <2>4, <2>5
  <1> QED BY InitOutput, OutputStep, <1>1, PTL DEF Spec

(***************************************************************************)
(* Every variable has its type.                                            *)
(***************************************************************************)

Bounded ==
  /\ step \in Steps
  /\ child \in {"none", "running", "ok", "failed", "signal"}
  /\ helper \in {"none", "grouped", "escaped"}
  /\ status \in {"none", "launch-failed", "timeout", "ok", "failed", "signal"}
  /\ viewed \subseteq Packs
  /\ bytes \in [Packs -> Identities] /\ over \in [Packs -> SUBSET Identities]
  /\ nested \in [Packs -> Shown]
  /\ passed <= IF gate = "after" THEN job ELSE job - 1

LEMMA CIStepBounded ==
  ASSUME EarnedInv, OutputInv, Bounded, CIStep
  PROVE  Bounded'
  <1> USE DEF Bounded, Steps
  <1>0. /\ passed \in Nat /\ job \in Nat
        /\ gate \in {"launch", "run", "after"} => Current \in Packs
    BY JobsArePacks, JobsAreFinite DEF EarnedInv, Places, Shapes, Current
  <1>1. CASE \E p \in Packs : ValidateStatic(p) \/ Snapshot(p)
    BY <1>1 DEF ValidateStatic, Snapshot, procVars, Shown
  <1>2. CASE EndStatic \/ EndDiscovery \/ OtherGates
    BY <1>2 DEF EndStatic, EndDiscovery, OtherGates, procVars
  <1>3. CASE Skip \/ CheckBefore
    BY <1>0, <1>3 DEF Skip, CheckBefore, procVars
  <1>4. CASE Start \/ StartFails
    BY <1>0, <1>4 DEF Start, StartFails, Launch, LaunchFails
  <1>5. CASE Record
    BY <1>0, <1>5 DEF Record, Finish, OutputInv, GroupInv
  <1>6. CASE CheckAfter
    BY <1>0, <1>6 DEF CheckAfter, Return
  <1> QED BY <1>1, <1>2, <1>3, <1>4, <1>5, <1>6 DEF CIStep

LEMMA BoundedStep == EarnedInv /\ OutputInv /\ Bounded /\ [Next]_vars => Bounded'
  <1> SUFFICES ASSUME EarnedInv, OutputInv, Bounded, [Next]_vars PROVE Bounded' OBVIOUS
  <1> USE DEF Bounded, Steps
  <1>1. CASE UNCHANGED vars
    BY <1>1 DEF vars, ciVars, procVars
  <1>2. CASE ProcessStep
    BY <1>2 DEF ProcessStep, RunnerStep, ciVars, DeadlinePasses, KillGroup, Reap, Sweep, Join,
         SweepAgain
  <1>5. ASSUME NEW s \in Pipes, Drain(s) PROVE Bounded'
    BY <1>5 DEF Drain, DrainerStep, ciVars, Read, HandOver, MeetEnd
  <1>6. CASE (\E p \in Packs : ChangeNested(p)) \/ Unwedge
    BY <1>6 DEF ChangeNested, Unwedge, procVars
  <1>3. CASE PackStep
    BY <1>3 DEF PackStep, PackCodeStep, ciVars, Write, StartHelper, HelperMoves, ChildEnds
  <1>4. ASSUME NEW p \in Packs, Change(p) PROVE Bounded'
    <2>1. bytes[p] + 1 \in Identities
      BY <1>4, CIAssumption DEF Change, Identities
    <2> QED BY <1>4, <2>1 DEF Change, procVars
  <1> QED BY <1>1, <1>2, <1>3, <1>4, <1>5, <1>6, CIStepBounded DEF Next

(* Every variable keeps its type, and the pipes and tails their sizes.      *)
THEOREM TypeCorrect == Spec => []TypeOK
  <1>1. Init => Bounded
    BY CIAssumption DEF Init, ProcInit, Bounded, Steps, Identities, Shown
  <1>2. EarnedInv /\ OutputInv /\ Bounded => TypeOK
    <2> SUFFICES ASSUME EarnedInv, OutputInv, Bounded PROVE TypeOK OBVIOUS
    <2>1. \A s \in Pipes :
            InPipe(s) \in 0 .. PipeSize /\ Pending(s) \in 0 .. ReadSize /\ Len(kept[s]) <= Cap
      <3> SUFFICES ASSUME NEW s \in Pipes
                   PROVE  InPipe(s) \in 0 .. PipeSize /\ Pending(s) \in 0 .. ReadSize
                          /\ Len(kept[s]) <= Cap
        OBVIOUS
      <3>1. Fits(handed[s]) \in Nat /\ Fits(handed[s]) <= handed[s] /\ Fits(handed[s]) <= Cap
            /\ handed[s] \in Nat
        BY Sizes DEF OutputInv, Counts, Fits
      <3>2. Len(kept[s]) <= Cap
        BY <3>1, LastIsASequence DEF OutputInv, KeepsTheTail
      <3> QED BY <3>2, Sizes DEF OutputInv, Counts, InPipe, Pending
    <2>2. passed \in 0 .. Len(Jobs)
      BY JobsAreFinite DEF EarnedInv, Places, Shapes, Bounded
    <2>3. /\ gate \in Gates /\ job \in 1 .. Len(Jobs) + 1 /\ failures \in BOOLEAN
          /\ fit \subseteq Packs /\ Eligible \subseteq fit /\ blocked \subseteq Eligible
      BY DEF EarnedInv, Places, Shapes
    <2> QED BY <2>1, <2>2, <2>3, Zenon DEF Bounded, TypeOK
  <1> QED BY <1>1, <1>2, InitEarned, EarnedStep, InitOutput, OutputStep, BoundedStep, PTL DEF Spec
--------------------------------------------------------------------------------
(***************************************************************************)
(* Induction along a sequence, and what a function defined by recursion    *)
(* along one computes.                                                     *)
(***************************************************************************)

(* A set of numbers has a least one.                                        *)
LEMMA Least ==
  ASSUME NEW S \in SUBSET Nat, S # {}
  PROVE  \E n \in S : \A m \in S : n <= m
  <1>1. IsWellFoundedOn(OpToRel(<, Nat), Nat)
    BY NatLessThanWellFounded
  <1>2. PICK n \in S : \A m \in S : <<m, n>> \notin OpToRel(<, Nat)
    BY <1>1, WFMin
  <1>3. \A m \in S : ~(m < n)
    BY <1>2 DEF OpToRel
  <1> QED BY <1>3

(* What holds of no element yet, and of one more with each step, holds of all. *)
LEMMA Induction ==
  ASSUME NEW N \in Nat, NEW S, 0 \in S, \A n \in 1 .. N : n - 1 \in S => n \in S
  PROVE  0 .. N \subseteq S
  <1> SUFFICES ASSUME (0 .. N) \ S # {} PROVE FALSE
    OBVIOUS
  <1>1. (0 .. N) \ S \in SUBSET Nat
    OBVIOUS
  <1>2. PICK k \in (0 .. N) \ S : \A m \in (0 .. N) \ S : k <= m
    BY <1>1, Least
  <1>3. k # 0 /\ k \in 1 .. N /\ k - 1 \in 0 .. N /\ ~(k <= k - 1)
    BY <1>2
  <1> QED BY <1>2, <1>3

(* The first k values of the recursion that starts with base and takes step. *)
Follows(f, B, base, grow, k) ==
  /\ f \in [0 .. k -> B] /\ f[0] = base
  /\ \A n \in 1 .. k : f[n] = grow[<<f[n - 1], n>>]

LEMMA Recursion ==
  ASSUME NEW B, NEW base \in B, NEW N \in Nat, NEW grow \in [B \X (1 .. N) -> B]
  PROVE  \E f : Follows(f, B, base, grow, N)
  <1> DEFINE S == {k \in 0 .. N : \E f : Follows(f, B, base, grow, k)}
  <1>1. 0 \in S
    <2>1. Follows([n \in 0 .. 0 |-> base], B, base, grow, 0)
      BY DEF Follows
    <2> QED BY <2>1
  <1>2. ASSUME NEW k \in 1 .. N, k - 1 \in S PROVE k \in S
    <2>1. PICK f : Follows(f, B, base, grow, k - 1)
      BY <1>2
    <2> DEFINE g == [n \in 0 .. k |-> IF n = k THEN grow[<<f[k - 1], k>>] ELSE f[n]]
    <2>2. grow[<<f[k - 1], k>>] \in B
      BY <2>1 DEF Follows
    <2>3. g \in [0 .. k -> B] /\ g[0] = base
      BY <2>1, <2>2 DEF Follows
    <2>4. ASSUME NEW n \in 1 .. k PROVE g[n] = grow[<<g[n - 1], n>>]
      <3>1. n - 1 \in 0 .. k - 1 /\ n - 1 # k /\ n \in 0 .. k
        OBVIOUS
      <3>2. g[n - 1] = f[n - 1]
        BY <3>1
      <3>3. CASE n = k
        <4>1. g[n] = grow[<<f[k - 1], k>>]
          BY <3>1, <3>3
        <4> QED BY <3>2, <3>3, <4>1
      <3>4. CASE n # k
        <4>1. n \in 1 .. k - 1
          BY <3>4
        <4>2. g[n] = f[n]
          BY <3>1, <3>4
        <4>3. f[n] = grow[<<f[n - 1], n>>]
          BY <2>1, <4>1 DEF Follows
        <4> QED BY <3>2, <4>2, <4>3
      <3> QED BY <3>3, <3>4
    <2> HIDE DEF g
    <2>5. Follows(g, B, base, grow, k)
      BY <2>3, <2>4 DEF Follows
    <2> QED BY <2>5
  <1> HIDE DEF S
  <1>3. N \in S
    BY <1>1, <1>2, Induction
  <1> QED BY <1>3 DEF S

(* The lists a flattened list grows through, one for each list in it.       *)
LEMMA FlattenSteps ==
  ASSUME NEW C, NEW ss \in Seq(Seq(C))
  PROVE  \E f : /\ f \in [0 .. Len(ss) -> Seq(C)] /\ f[0] = <<>>
                /\ \A n \in 1 .. Len(ss) : f[n] = f[n - 1] \o ss[n]
                /\ FlattenSeq(ss) = f[Len(ss)]
  <1> DEFINE N == Len(ss)
             grow == [z \in Seq(C) \X (1 .. N) |-> z[1] \o ss[z[2]]]
  <1>1. N \in Nat /\ grow \in [Seq(C) \X (1 .. N) -> Seq(C)]
    OBVIOUS
  <1>2. ASSUME NEW x \in Seq(C), NEW n \in 1 .. N PROVE grow[<<x, n>>] = x \o ss[n]
    OBVIOUS
  <1>3. <<>> \in Seq(C) /\ \A n \in 1 .. N : ss[n] \in Seq(C)
    OBVIOUS
  <1> HIDE DEF grow
  <1>4. PICK f : Follows(f, Seq(C), <<>>, grow, N)
    <2> HIDE DEF N
    <2> QED BY <1>1, <1>3, Recursion
  <1>5. ASSUME NEW n \in 1 .. N
        PROVE  n - 1 \in 0 .. N /\ f[n - 1] \in Seq(C) /\ f[n] = f[n - 1] \o ss[n]
    <2> HIDE DEF N
    <2>1. n - 1 \in 0 .. N
      BY <1>1
    <2>2. f[n - 1] \in Seq(C) /\ f[n] = grow[<<f[n - 1], n>>]
      BY <1>4, <2>1 DEF Follows
    <2> QED BY <1>2, <2>1, <2>2
  <1>6. CASE N = 0
    <2>1. ss = <<>>
      BY <1>6
    <2> QED BY <1>4, <1>6, <2>1 DEF Follows, FlattenSeq
  <1>7. CASE N # 0
    <2> DEFINE body(h) == [i \in 1 .. N |-> IF i = 1 THEN ss[i] ELSE h[i - 1] \o ss[i]]
               g == [i \in 1 .. N |-> f[i]]
               h == CHOOSE h : h = body(h)
    <2>1. f[1] = ss[1]
      <3>1. 1 \in 1 .. N /\ f[0] = <<>>
        BY <1>1, <1>4, <1>7 DEF Follows
      <3>2. ss[1] \in Seq(C) /\ 1 - 1 = 0
        BY <1>3, <3>1
      <3>3. f[1] = f[1 - 1] \o ss[1]
        BY <1>5, <3>1
      <3>4. ASSUME NEW x \in Seq(C) PROVE <<>> \o x = x
        OBVIOUS
      <3>5. f[1] = <<>> \o ss[1]
        BY <3>1, <3>2, <3>3
      <3> QED BY <3>2, <3>4, <3>5
    <2>2. ASSUME NEW i \in 1 .. N, i # 1 PROVE g[i] = g[i - 1] \o ss[i]
      <3>1. i - 1 \in 1 .. N
        BY <1>1, <2>2
      <3> QED BY <1>5, <3>1
    <2>3. g = body(g)
      BY <2>1, <2>2
    <2>4. h = body(h)
      <3> HIDE DEF g
      <3> QED BY <2>3
    <2>5. FlattenSeq(ss) = h[N]
      BY <1>7, Zenon DEF FlattenSeq
    <2> HIDE DEF h, g
    <2>6. ASSUME NEW i \in 1 .. N PROVE h[i] = IF i = 1 THEN ss[i] ELSE h[i - 1] \o ss[i]
      BY <2>4
    <2> DEFINE S == {n \in Nat : n # 0 => h[n] = f[n]}
    <2>7. ASSUME NEW n \in 1 .. N, n - 1 \in S PROVE n \in S
      <3>1. CASE n = 1
        BY <2>1, <2>6, <3>1
      <3>2. CASE n # 1
        <4>1. n - 1 \in 1 .. N /\ n \in Nat
          BY <1>1, <3>2
        <4>2. h[n - 1] = f[n - 1]
          BY <2>7, <4>1
        <4>3. h[n] = f[n]
          BY <1>5, <2>6, <3>2, <4>2
        <4> QED BY <4>1, <4>3
      <3> QED BY <3>1, <3>2
    <2>8. 0 \in S
      OBVIOUS
    <2>9. N \in S
      <3> HIDE DEF S, N
      <3>1. N \in 0 .. N
        BY <1>1
      <3> QED BY <1>1, <2>7, <2>8, <3>1, Induction
    <2>10. FlattenSeq(ss) = f[N]
      BY <1>7, <2>5, <2>9
    <2> QED BY <1>4, <1>5, <2>10 DEF Follows
  <1> QED BY <1>6, <1>7

--------------------------------------------------------------------------------
(***************************************************************************)
(* The catalog.                                                            *)
(***************************************************************************)

(* What a path is to the gates and to the catalog, when it has no "..".     *)
LEMMA PartsAreNorm ==
  ASSUME NEW path, IsList(path), ".." \notin ToSet(path)
  PROVE  /\ Parts(path) = Norm(path) /\ IsList(path)
         /\ Norm(path) \in Seq(ToSet(path))
         /\ "." \notin ToSet(path) => Norm(path) = path
  <1> DEFINE C == ToSet(path)
             N == Len(path)
             ss == [i \in DOMAIN path |-> IF path[i] = "." THEN <<>> ELSE <<path[i]>>]
  <1>1. path \in Seq(C) /\ N \in Nat /\ DOMAIN path = 1 .. N
    <2>1. path \in Seq(C)
      BY DEF IsList
    <2> HIDE DEF C
    <2> QED BY <2>1
  <1>2. \A i \in 1 .. N : path[i] \in C /\ path[i] # ".."
    BY <1>1 DEF ToSet
  <1>3. \A i \in 1 .. N : ss[i] = IF path[i] = "." THEN <<>> ELSE <<path[i]>>
    BY <1>1
  <1>4. DOMAIN ss = 1 .. N /\ ss = [i \in 1 .. N |-> ss[i]]
    BY <1>1
  <1> HIDE DEF ss, N, C
  <1>5. ss \in Seq(Seq(C)) /\ Len(ss) = N
    <2>1. ASSUME NEW i \in 1 .. N PROVE ss[i] \in Seq(C)
      <3>1. <<path[i]>> \in Seq(C) /\ <<>> \in Seq(C)
        BY <1>2
      <3> QED BY <1>3, <3>1
    <2> QED BY <1>1, <1>4, <2>1
  <1>6. PICK f : /\ f \in [0 .. N -> Seq(C)] /\ f[0] = <<>>
                 /\ \A n \in 1 .. N : f[n] = f[n - 1] \o ss[n]
                 /\ FlattenSeq(ss) = f[N]
    BY <1>5, FlattenSteps
  <1> DEFINE Next1(done, c) == IF c = "." THEN done
                 ELSE IF c = ".." /\ done # <<>> /\ Last(done) # ".." THEN Front(done)
                 ELSE Append(done, c)
  <1>7. ASSUME NEW n \in 1 .. N
        PROVE  n - 1 \in 0 .. N /\ f[n - 1] \in Seq(C) /\ f[n] = Next1(f[n - 1], path[n])
    <2>1. n - 1 \in 0 .. N /\ f[n - 1] \in Seq(C) /\ path[n] \in C /\ path[n] # ".."
      BY <1>1, <1>2, <1>6
    <2>2. f[n] = f[n - 1] \o ss[n] /\ ss[n] = IF path[n] = "." THEN <<>> ELSE <<path[n]>>
      BY <1>3, <1>6
    <2>3. CASE path[n] = "."
      BY <2>1, <2>2, <2>3
    <2>4. CASE path[n] # "."
      BY <2>1, <2>2, <2>4
    <2> QED BY <2>1, <2>3, <2>4
  <1> DEFINE body(g) == [n \in 0 .. N |-> IF n = 0 THEN <<>> ELSE Next1(g[n - 1], path[n])]
             h == CHOOSE g : g = body(g)
  <1>8. f = body(f)
    <2> HIDE DEF Next1
    <2>1. \A n \in 0 .. N : f[n] = IF n = 0 THEN <<>> ELSE Next1(f[n - 1], path[n])
      BY <1>1, <1>6, <1>7
    <2> QED BY <1>6, <2>1
  <1>9. h = body(h)
    <2> HIDE DEF body
    <2> QED BY <1>8
  <1>10. Norm(path) = h[N]
    BY Zenon DEF Norm, N
  <1> HIDE DEF h
  <1>11. h[0] = <<>> /\ \A n \in 1 .. N : h[n] = Next1(h[n - 1], path[n])
    <2> HIDE DEF Next1
    <2> QED BY <1>1, <1>9
  <1> HIDE DEF Next1
  <1> DEFINE S == {n \in Nat : h[n] = f[n]}
  <1>12. N \in S
    <2>1. 0 \in S
      BY <1>6, <1>11
    <2>2. ASSUME NEW n \in 1 .. N, n - 1 \in S PROVE n \in S
      BY <1>1, <1>7, <1>11, <2>2
    <2> HIDE DEF S
    <2>3. N \in 0 .. N
      BY <1>1
    <2> QED BY <1>1, <2>1, <2>2, <2>3, Induction
  <1>13. Norm(path) = f[N] /\ Parts(path) = f[N] /\ f[N] \in Seq(C)
    BY <1>1, <1>6, <1>10, <1>12 DEF Parts, ss
  <1>14. ASSUME "." \notin C PROVE f[N] = path
    <2> DEFINE T == {n \in Nat : f[n] = [i \in 1 .. n |-> path[i]]}
    <2>1. 0 \in T
      BY <1>6
    <2>2. ASSUME NEW n \in 1 .. N, n - 1 \in T PROVE n \in T
      <3> DEFINE p == [i \in 1 .. n - 1 |-> path[i]]
      <3>1. path[n] \in C /\ path[n] # "." /\ n \in Nat /\ n - 1 \in Nat
        BY <1>1, <1>2, <1>14
      <3>2. ss[n] = <<path[n]>>
        BY <1>3, <3>1
      <3>3. \A i \in 1 .. n - 1 : path[i] \in C
        BY <1>1, <1>2
      <3>4. p \in Seq(C) /\ Len(p) = n - 1
        BY <3>1, <3>3
      <3>5. f[n] = p \o <<path[n]>>
        BY <1>6, <2>2, <3>2
      <3>6. p \o <<path[n]>> = [i \in 1 .. n |-> path[i]]
        <4>1. p \o <<path[n]>> = [i \in 1 .. n |-> (p \o <<path[n]>>)[i]]
          <5> HIDE DEF p
          <5> QED BY <3>1, <3>4
        <4>2. ASSUME NEW i \in 1 .. n PROVE (p \o <<path[n]>>)[i] = path[i]
          <5>1. CASE i = n
            <6> HIDE DEF p
            <6> QED BY <3>1, <3>4, <5>1
          <5>2. CASE i # n
            <6>1. i \in 1 .. n - 1 /\ p[i] = path[i]
              BY <3>1, <5>2
            <6> HIDE DEF p
            <6> QED BY <3>1, <3>4, <6>1
          <5> QED BY <5>1, <5>2
        <4> HIDE DEF p
        <4> QED BY <4>1, <4>2
      <3> QED BY <3>1, <3>5, <3>6
    <2> HIDE DEF T
    <2>3. N \in T
      <3>1. N \in 0 .. N
        BY <1>1
      <3> QED BY <1>1, <2>1, <2>2, <3>1, Induction
    <2> QED BY <1>1, <2>3 DEF T
  <1> QED BY <1>13, <1>14 DEF C

--------------------------------------------------------------------------------
(* What _distribution_class finds: of the roots that govern the member one   *)
(* of the most specific.                                                     *)
LEMMA ClassOfAMostSpecificRoot ==
  ASSUME NEW ledger, NEW path, IsList(ledger.artifacts),
         \A row \in ToSet(ledger.artifacts) : Parts(row.path) \in Seq(ToSet(row.path)),
         Parts(path) \in Seq(ToSet(path)), DistributionClass(ledger, path) \in Publishable
  PROVE  \E row \in ToSet(ledger.artifacts) :
           /\ Governs(row, path) /\ row.class \in Publishable
           /\ \A other \in ToSet(ledger.artifacts) :
                Governs(other, path) => Len(Parts(other.path)) <= Len(Parts(row.path))
  <1> DEFINE rows == ledger.artifacts
             roots == {i \in DOMAIN rows : Governs(rows[i], path)}
             Length(i) == Len(Parts(rows[i].path))
             M == Len(Parts(path))
  <1>1. rows \in Seq(ToSet(rows))
    BY DEF IsList
  <1>2. DOMAIN rows \subseteq Nat /\ \A i \in DOMAIN rows : rows[i] \in ToSet(rows)
    <2> HIDE DEF rows
    <2> QED BY <1>1 DEF ToSet
  <1>3. M \in Nat
    OBVIOUS
  <1>4. ASSUME NEW i \in roots PROVE Length(i) \in 0 .. M
    <2>1. rows[i] \in ToSet(rows) /\ IsPrefix(Parts(rows[i].path), Parts(path))
      BY <1>2 DEF Governs
    <2> QED BY <2>1 DEF IsPrefix
  <1>5. roots # {}
    BY DEF DistributionClass, Publishable, Absent
  <1>6. roots \subseteq Nat
    BY <1>2
  <1> DEFINE Best(i) == \A j \in roots : \/ Length(j) < Length(i)
                                         \/ Length(j) = Length(i) /\ i <= j
             best == CHOOSE i \in roots : Best(i)
  <1>7. DistributionClass(ledger, path) = rows[best].class
    BY <1>5 DEF DistributionClass
  <1> HIDE DEF rows, roots, Length, M
  <1>8. \E i \in roots : Best(i)
    <2> DEFINE short == {M - Length(i) : i \in roots}
    <2>1. short \in SUBSET Nat /\ short # {}
      BY <1>3, <1>4, <1>5
    <2>2. PICK m \in short : \A k \in short : m <= k
      <3> HIDE DEF short
      <3> QED BY <2>1, Least
    <2>3. \A j \in roots : M - Length(j) \in short
      OBVIOUS
    <2> DEFINE long == {i \in roots : M - Length(i) = m}
    <2>4. long \in SUBSET Nat /\ long # {}
      BY <1>6, <2>2
    <2>5. PICK i \in long : \A k \in long : i <= k
      <3> HIDE DEF long
      <3> QED BY <2>4, Least
    <2>6. i \in roots /\ M - Length(i) = m
      BY <2>5
    <2>7. ASSUME NEW j \in roots PROVE Length(j) < Length(i) \/ (Length(j) = Length(i) /\ i <= j)
      <3>1. m <= M - Length(j)
        BY <2>2, <2>3
      <3>2. M - Length(j) = m => i <= j
        BY <2>5
      <3>3. Length(i) \in 0 .. M /\ Length(j) \in 0 .. M /\ M \in Nat
        BY <1>3, <1>4, <2>6
      <3>4. M - Length(i) <= M - Length(j)
        BY <2>6, <3>1
      <3>5. Length(j) <= Length(i)
        BY <3>3, <3>4
      <3>6. Length(j) = Length(i) => i <= j
        BY <2>6, <3>2
      <3> QED BY <3>3, <3>5, <3>6
    <2> QED BY <2>6, <2>7
  <1>9. best \in roots /\ Best(best)
    <2> HIDE DEF Best
    <2> QED BY <1>8
  <1> HIDE DEF best
  <1>10. rows[best] \in ToSet(rows) /\ Governs(rows[best], path)
    BY <1>2, <1>9 DEF roots
  <1>11. ASSUME NEW other \in ToSet(rows), Governs(other, path)
         PROVE  Len(Parts(other.path)) <= Len(Parts(rows[best].path))
    <2>1. PICK j \in DOMAIN rows : other = rows[j]
      BY DEF ToSet
    <2>2. j \in roots
      BY <1>11, <2>1 DEF roots
    <2>3. Length(j) < Length(best) \/ Length(j) = Length(best)
      BY <1>9, <2>2
    <2>4. Length(j) \in Nat /\ Length(best) \in Nat
      BY <1>3, <1>4, <1>9, <2>2
    <2> QED BY <2>1, <2>3, <2>4 DEF Length
  <1> QED BY <1>7, <1>10, <1>11 DEF rows

(* Of two roots above a member one is above the other.                       *)
LEMMA PrefixesCompare ==
  ASSUME NEW C, NEW p \in Seq(C), NEW D, NEW r \in Seq(D), NEW E, NEW leaf \in Seq(E),
         IsPrefix(p, leaf), IsPrefix(r, leaf)
  PROVE  IsPrefix(p, r) \/ IsPrefix(r, p)
  <1> DEFINE S == C \cup D \cup E
  <1>1. p \in Seq(S) /\ r \in Seq(S) /\ leaf \in Seq(S)
    OBVIOUS
  <1> HIDE DEF S
  <1>2. \A s, t \in Seq(S) : IsPrefix(s, t) <=>
          Len(s) <= Len(t) /\ \A i \in 1 .. Len(s) : s[i] = t[i]
    BY DEF IsPrefix
  <1> QED BY <1>1, <1>2

LEMMA ShownIsCleared ==
  ASSUME NEW pack \in Submitted, PassesCI(pack), PlainRoots(pack.ledger),
         NEW path \in Media(pack)
  PROVE  path \in pack.tree /\ Cleared(pack.ledger, path) /\ ~OfCustomer(pack.ledger, path)
  <1> DEFINE ledger == pack.ledger
  <1>1. PICK asset \in ToSet(pack.assets) :
          asset.path = path /\ asset.status = "shipped" /\ path \in pack.tree
    BY DEF Media, Candidates
  <1>2. Canonical(path) /\ IsList(path)
    BY <1>1, DocumentsAssumption DEF PassesCI, StaticFails, CompatibilityFails, ShippedExists
  <1>3. Parts(path) = path /\ path \in Seq(ToSet(path))
    <2>1. "." \notin ToSet(path) /\ ".." \notin ToSet(path)
      BY <1>2 DEF Canonical
    <2> QED BY <1>2, <2>1, PartsAreNorm
  <1>4. ASSUME NEW root, PlainRoot(root), IsList(root)
        PROVE  Parts(root) = Norm(root) /\ Norm(root) \in Seq(ToSet(root)) /\ Norm(root) # <<>>
    BY <1>4, PartsAreNorm DEF PlainRoot
  <1>5. ASSUME NEW row \in ToSet(ledger.artifacts)
        PROVE  /\ Parts(row.path) = Norm(row.path) /\ Norm(row.path) \in Seq(ToSet(row.path))
               /\ Norm(row.path) # <<>>
               /\ Governs(row, path) <=> IsPrefix(Norm(row.path), path)
    <2>1. PlainRoot(row.path) /\ IsList(row.path)
      BY DocumentsAssumption DEF PlainRoots
    <2>2. Parts(row.path) = Norm(row.path) /\ Norm(row.path) \in Seq(ToSet(row.path))
          /\ Norm(row.path) # <<>>
      BY <1>4, <2>1
    <2> QED BY <1>3, <2>2 DEF Governs
  <1>6. PICK row \in ToSet(ledger.artifacts) :
          /\ Governs(row, path) /\ row.class \in Publishable
          /\ \A other \in ToSet(ledger.artifacts) :
               Governs(other, path) => Len(Parts(other.path)) <= Len(Parts(row.path))
    <2>1. DistributionClass(ledger, path) \in Publishable
      BY DEF Media
    <2>2. IsList(ledger.artifacts)
      BY DocumentsAssumption
    <2>3. \A other \in ToSet(ledger.artifacts) : Parts(other.path) \in Seq(ToSet(other.path))
      BY <1>5
    <2>4. Parts(path) \in Seq(ToSet(path))
      BY <1>3
    <2> HIDE DEF ledger
    <2> QED BY <2>1, <2>2, <2>3, <2>4, ClassOfAMostSpecificRoot
  <1>7. Cleared(ledger, path)
    <2>1. ASSUME NEW other \in ToSet(ledger.artifacts), IsPrefix(Norm(other.path), path),
                 Len(Norm(other.path)) > Len(Norm(row.path))
          PROVE  FALSE
      <3>1. Len(Norm(other.path)) <= Len(Norm(row.path))
        BY <1>5, <1>6, <2>1
      <3>2. Len(Norm(other.path)) \in Nat /\ Len(Norm(row.path)) \in Nat
        BY <1>5
      <3> QED BY <2>1, <3>1, <3>2
    <2>2. IsPrefix(Norm(row.path), path)
      BY <1>5, <1>6
    <2> QED BY <1>6, <2>1, <2>2 DEF Cleared
  <1>8. ASSUME NEW overlay \in ToSet(ledger.overlays), IsPrefix(Norm(overlay.root), path)
        PROVE  FALSE
    <2> DEFINE root == overlay.root
    <2>1. ~LedgerFails(pack)
      BY DEF PassesCI
    <2>2. root \in OverlayRoots(ledger)
      BY <2>1 DEF LedgerFails, OverlayRoots
    <2>3. row \in BaseRows(ledger)
      BY <1>6 DEF BaseRows, Publishable
    <2>4. ~UnderRoot(root, row.path) /\ ~UnderRoot(row.path, root)
      BY <2>1, <2>2, <2>3 DEF LedgerFails, OverlayMeetsBase
    <2>5. Norm(root) # <<>> /\ Norm(root) \in Seq(ToSet(root))
      BY <1>4, DocumentsAssumption DEF PlainRoots
    <2>6. Norm(row.path) # <<>> /\ Norm(row.path) \in Seq(ToSet(row.path))
          /\ IsPrefix(Norm(row.path), path)
      BY <1>5, <1>6
    <2>7. IsPrefix(Norm(root), Norm(row.path)) \/ IsPrefix(Norm(row.path), Norm(root))
      BY <1>3, <1>8, <2>5, <2>6, PrefixesCompare
    <2> QED BY <2>4, <2>5, <2>6, <2>7 DEF UnderRoot
  <1> QED BY <1>1, <1>7, <1>8 DEF OfCustomer

LEMMA ValidIsTold ==
  ASSUME NEW pack, ~StaticFails(pack)
  PROVE  /\ \A asset \in ToSet(pack.assets) :
              asset.visibility \in {"participant", "public"} /\ asset.status = "shipped" =>
                asset.path \in Media(pack) \/ "media" \in Completeness(pack)
         /\ Release(pack).state = "known" =>
              {Release(pack).name, Release(pack).version}
                \subseteq {Absent, pack.name, pack.version}
  <1>1. ASSUME NEW asset \in ToSet(pack.assets), asset.status = "shipped",
               asset.visibility \in {"participant", "public"}
        PROVE  asset.path \in Media(pack) \/ "media" \in Completeness(pack)
    <2>1. asset.path \in pack.tree
      BY <1>1 DEF StaticFails, CompatibilityFails, ShippedExists
    <2>2. asset.path \in Candidates(pack)
      BY <1>1, <2>1 DEF Candidates
    <2> QED BY <2>2 DEF Completeness
  <1>2. ASSUME Release(pack).state = "known"
        PROVE  {Release(pack).name, Release(pack).version}
                 \subseteq {Absent, pack.name, pack.version}
    <2>1. /\ pack.publication.declared /\ pack.publication.loaded /\ pack.publication.clean
          /\ Release(pack).name = pack.publication.name
          /\ Release(pack).version = pack.publication.version
      BY <1>2 DEF Release
    <2>2. /\ pack.publication.name \in {Absent, pack.name}
          /\ pack.publication.version \in {Absent, pack.version}
      BY <2>1 DEF StaticFails, PublicationFails
    <2> QED BY <2>1, <2>2
  <1> QED BY <1>1, <1>2

--------------------------------------------------------------------------------
(* The catalog of the first n sources.                                       *)
Refused(source) == ~source.safe \/ StaticFails(source.pack)
Apart(sources, n) ==
  /\ \A i \in 1 .. n : ~Refused(sources[i])
  /\ \A i, j \in 1 .. n : Key(Entry(sources[i])) = Key(Entry(sources[j])) => i = j
EntriesTo(sources, n) == {Entry(sources[i]) : i \in 1 .. n}
Catalogs(sources) ==
  [entries : SUBSET {Entry(s) : s \in ToSet(sources)}, blocking : BOOLEAN]

LEMMA BuiltSteps ==
  ASSUME NEW sources, IsList(sources)
  PROVE  /\ Built(sources)[0] = [entries |-> {}, blocking |-> FALSE]
         /\ \A n \in 1 .. Len(sources) :
              /\ Built(sources)[n - 1] \in Catalogs(sources)
              /\ Built(sources)[n] = AddSource(Built(sources)[n - 1], sources[n])
  <1> DEFINE N == Len(sources)
             B == Catalogs(sources)
             none == [entries |-> {}, blocking |-> FALSE]
             grow == [z \in B \X (1 .. N) |-> AddSource(z[1], sources[z[2]])]
  <1>1. N \in Nat /\ \A n \in 1 .. N : sources[n] \in ToSet(sources)
    BY DEF IsList, ToSet
  <1>2. none \in B
    BY DEF Catalogs
  <1>3. ASSUME NEW built \in B, NEW n \in 1 .. N
        PROVE  AddSource(built, sources[n]) \in B
    <2>1. Entry(sources[n]) \in {Entry(s) : s \in ToSet(sources)}
      BY <1>1
    <2> QED BY <2>1 DEF AddSource, Catalogs
  <1> HIDE DEF N, B, none
  <1>4. ASSUME NEW built \in B, NEW n \in 1 .. N
        PROVE  grow[<<built, n>>] = AddSource(built, sources[n])
    OBVIOUS
  <1>5. grow \in [B \X (1 .. N) -> B]
    BY <1>3
  <1> HIDE DEF grow
  <1>6. PICK f : Follows(f, B, none, grow, N)
    BY <1>1, <1>2, <1>5, Recursion
  <1>7. f = [n \in 0 .. N |-> IF n = 0 THEN none ELSE AddSource(f[n - 1], sources[n])]
    <2>1. ASSUME NEW n \in 1 .. N PROVE f[n] = AddSource(f[n - 1], sources[n])
      <3>1. n - 1 \in 0 .. N /\ f[n - 1] \in B
        BY <1>1, <1>6 DEF Follows
      <3> QED BY <1>4, <1>6, <3>1 DEF Follows
    <2> QED BY <1>6, <2>1 DEF Follows
  <1> DEFINE b == Built(sources)
  <1>8. b = [n \in 0 .. N |-> IF n = 0 THEN none ELSE AddSource(b[n - 1], sources[n])]
    BY <1>7 DEF Built, N, none
  <1> HIDE DEF b
  <1>9. b[0] = none /\ \A n \in 1 .. N : b[n] = AddSource(b[n - 1], sources[n])
    BY <1>1, <1>8
  <1> DEFINE S == {n \in Nat : b[n] \in B}
  <1>10. 0 .. N \subseteq S
    <2>1. 0 \in S
      BY <1>2, <1>9
    <2>2. ASSUME NEW n \in 1 .. N, n - 1 \in S PROVE n \in S
      <3>1. n \in Nat /\ b[n - 1] \in B /\ b[n] = AddSource(b[n - 1], sources[n])
        BY <1>1, <1>9, <2>2
      <3>2. AddSource(b[n - 1], sources[n]) \in B
        BY <1>3, <3>1
      <3> QED BY <3>1, <3>2
    <2> HIDE DEF S
    <2> QED BY <1>1, <2>1, <2>2, Induction
  <1>11. \A n \in 1 .. N : n - 1 \in 0 .. N
    BY <1>1
  <1> QED BY <1>9, <1>10, <1>11 DEF b, B, N, none

(* It is blocked if and only if a source was refused or came twice.          *)
LEMMA BuiltIsThere ==
  ASSUME NEW sources, IsList(sources)
  PROVE  /\ BuildCatalog(sources).blocking <=> ~Apart(sources, Len(sources))
         /\ ~BuildCatalog(sources).blocking =>
              BuildCatalog(sources).entries = EntriesTo(sources, Len(sources))
  <1> DEFINE N == Len(sources)
             b == Built(sources)
             Right(n) == /\ b[n].blocking <=> ~Apart(sources, n)
                         /\ ~b[n].blocking => b[n].entries = EntriesTo(sources, n)
             S == {n \in Nat : Right(n)}
  <1>1. N \in Nat
    BY DEF IsList
  <1>2. /\ b[0] = [entries |-> {}, blocking |-> FALSE]
        /\ \A n \in 1 .. N : /\ b[n - 1] \in Catalogs(sources)
                             /\ b[n] = AddSource(b[n - 1], sources[n])
    BY BuiltSteps
  <1> HIDE DEF b, N
  <1>3. 0 \in S
    BY <1>2 DEF Apart, EntriesTo
  <1>4. ASSUME NEW n \in 1 .. N, n - 1 \in S PROVE n \in S
    <2> DEFINE before == b[n - 1]
               entry == Entry(sources[n])
               known == {Key(e) : e \in before.entries}
    <2>1. n \in Nat /\ n - 1 \in Nat /\ 1 .. n = (1 .. n - 1) \cup {n} /\ n \notin 1 .. n - 1
      BY <1>1
    <2>2. /\ before.blocking <=> ~Apart(sources, n - 1)
          /\ ~before.blocking => before.entries = EntriesTo(sources, n - 1)
          /\ before \in Catalogs(sources)
      BY <1>2, <1>4
    <2>3. b[n] = IF Refused(sources[n]) \/ Key(entry) \in known
                 THEN [before EXCEPT !.blocking = TRUE]
                 ELSE [before EXCEPT !.entries = @ \cup {entry}]
      BY <1>2 DEF AddSource, Refused
    <2>4. Apart(sources, n) => Apart(sources, n - 1)
      BY <2>1 DEF Apart
    <2>5. CASE before.blocking
      <3>1. b[n].blocking
        BY <2>2, <2>3, <2>5 DEF Catalogs
      <3> QED BY <2>1, <2>2, <2>4, <2>5, <3>1
    <2>6. CASE ~before.blocking
      <3>1. known = {Key(Entry(sources[i])) : i \in 1 .. n - 1}
        BY <2>2, <2>6 DEF EntriesTo
      <3>2. Apart(sources, n - 1)
        BY <2>2, <2>6
      <3>3. Apart(sources, n) <=> ~Refused(sources[n]) /\ Key(entry) \notin known
        BY <2>1, <3>1, <3>2 DEF Apart
      <3>4. EntriesTo(sources, n) = EntriesTo(sources, n - 1) \cup {entry}
        BY <2>1 DEF EntriesTo
      <3>5. CASE Refused(sources[n]) \/ Key(entry) \in known
        <4>1. b[n].blocking
          BY <2>2, <2>3, <3>5 DEF Catalogs
        <4> QED BY <2>1, <3>3, <3>5, <4>1
      <3>6. CASE ~Refused(sources[n]) /\ Key(entry) \notin known
        <4>1. ~b[n].blocking /\ b[n].entries = before.entries \cup {entry}
          BY <2>2, <2>3, <2>6, <3>6 DEF Catalogs
        <4> QED BY <2>1, <2>2, <2>6, <3>3, <3>4, <3>6, <4>1
      <3> QED BY <3>5, <3>6
    <2> QED BY <2>5, <2>6
  <1>5. N \in S
    <2>1. N \in 0 .. N
      BY <1>1
    <2> HIDE DEF S
    <2> QED BY <1>1, <1>3, <1>4, <2>1, Induction
  <1> QED BY <1>5 DEF BuildCatalog, b, N

LEMMA EntriesRelate == \A source : Relates(Entry(source))
  <1> SUFFICES ASSUME NEW source PROVE Relates(Entry(source))
    OBVIOUS
  <1>1. ASSUME NEW facts, NEW field
        PROVE  Stated(facts, field).state = "known" <=> "value" \in DOMAIN Stated(facts, field)
    BY DEF Stated
  <1>2. ASSUME NEW pack, Release(pack).state # "known"
        PROVE  {"name", "version"} \cap DOMAIN Release(pack) = {}
    BY <1>2 DEF Release
  <1>3. /\ Entry(source).fields
              = [field \in RequiredFields |-> Stated(source.pack.facts, field)]
        /\ Entry(source).release = Release(source.pack)
    BY DEF Entry
  <1> QED BY <1>1, <1>2, <1>3 DEF Relates

LEMMA OrderIsIrrelevant ==
  ASSUME NEW sources, IsList(sources)
  PROVE  OrderDecidesNothing(sources)
  <1> DEFINE built == BuildCatalog(sources)
             N == Len(sources)
  <1>1. DOMAIN sources = 1 .. N /\ ToSet(sources) = {sources[i] : i \in 1 .. N}
    BY DEF IsList, ToSet
  <1>2. Projectable(sources) <=> Apart(sources, N)
    BY <1>1 DEF Projectable, Apart, Refused
  <1>3. {Entry(s) : s \in ToSet(sources)} = EntriesTo(sources, N)
    BY <1>1 DEF EntriesTo
  <1>4. ~built.blocking => \A entry \in built.entries : Relates(entry)
    BY BuiltIsThere, EntriesRelate DEF EntriesTo
  <1>5. /\ built.blocking <=> ~Apart(sources, N)
        /\ ~built.blocking => built.entries = EntriesTo(sources, N)
    BY BuiltIsThere
  <1>6. Emitted(sources) = IF built.blocking \/ \E entry \in built.entries : ~Relates(entry)
                           THEN <<>> ELSE <<built.entries>>
    BY DEF Emitted
  <1> QED BY <1>2, <1>3, <1>4, <1>5, <1>6 DEF OrderDecidesNothing

(* Of any packs and in any list of sources: what passed the gates is shown    *)
(* as it was cleared, and a catalog is emitted exactly when every source is   *)
(* admissible and no two are one (catalog.py 405-434 and 562-602).            *)
THEOREM CatalogsAreSound == CatalogIsSound
  <1>1. ASSUME NEW pack \in Submitted PROVE ShowsWhatIsCleared(pack)
    BY ShownIsCleared, ValidIsTold DEF ShowsWhatIsCleared
  <1>2. ASSUME NEW sources \in Listings PROVE OrderDecidesNothing(sources)
    BY OrderIsIrrelevant, DocumentsAssumption
  <1> QED BY <1>1, <1>2 DEF CatalogIsSound
================================================================================
