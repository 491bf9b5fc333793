------------------------------ MODULE PackProcess ------------------------------
(***************************************************************************)
(* content_ci._run_pack_process: one pack-local command under the shared   *)
(* deadline and output budget.  The command runs in a session of its own;  *)
(* a helper it starts inherits both pipes and may leave the group.  Two    *)
(* drainer threads read the pipes to their end and keep a bounded tail.    *)
(*                                                                         *)
(* Output is counted in chunks, numbered per pipe in the order they were   *)
(* written.  A drainer calls read(_EXEC_READ_CHUNK) on a buffered stream,  *)
(* which takes chunk after chunk from the pipe and returns only with a     *)
(* full read, or with what it has once no writer is left.                  *)
(*                                                                         *)
(* Time is not measured: the deadline may pass whenever the command runs,  *)
(* and the ten seconds of a join suffice for the drainer to read what the  *)
(* command left in the pipe, and to end when nobody can write any more.    *)
(***************************************************************************)
EXTENDS Naturals, Sequences

CONSTANTS PipeSize,    \* chunks a pipe holds before its writer blocks
          ReadSize,    \* chunks of a full read, _EXEC_READ_CHUNK
          Cap,         \* chunks a drainer keeps, _EXEC_MAX_OUTPUT_BYTES
          MaxOutput    \* bound on the chunks one run writes

ASSUME ProcessAssumption == {PipeSize, ReadSize, Cap, MaxOutput} \subseteq Nat \ {0}

Joins == <<"out", "err">>    \* the order of the joins
Pipes == {"out", "err"}

VARIABLES
  step,      \* what _run_pack_process is about to do
  child,     \* the command: running, or how it ended
  helper,    \* a descendant of the command, in or outside its group
  written,   \* pipe -> chunks written to it
  said,      \* pipe -> chunks written when the command ended (history)
  taken,     \* pipe -> chunks its drainer took from it
  handed,    \* pipe -> chunks the drainer's reads returned
  kept,      \* pipe -> the tail the drainer keeps
  ended,     \* pipes whose drainer met the end of file
  joined,    \* joins done in this round
  timedOut,
  status     \* _ProcOutcome.status

procVars == <<step, child, helper, written, said, taken, handed, kept, ended,
              joined, timedOut, status>>

Steps == {"idle", "waiting", "reaping", "sweeping", "joining",
          "sweepingAgain", "joiningAgain"}
Running == step # "idle"

Output == <<written, said, taken, handed, kept>>
Nothing == [s \in Pipes |-> 0]

ProcInit ==
  /\ step = "idle" /\ child = "none" /\ helper = "none"
  /\ written = Nothing /\ said = Nothing /\ taken = Nothing /\ handed = Nothing
  /\ kept = [s \in Pipes |-> <<>>]
  /\ ended = {} /\ joined = 0
  /\ timedOut = FALSE /\ status = "none"

--------------------------------------------------------------------------------
Launch ==
  /\ step = "idle"
  /\ step' = "waiting"
  /\ child' = "running"
  /\ UNCHANGED <<helper, Output, ended, joined, timedOut, status>>

(* Popen raises OSError: there is no process. *)
LaunchFails ==
  /\ step = "idle"
  /\ child' = "none"
  /\ status' = "launch-failed"
  /\ UNCHANGED <<step, helper, Output, ended, joined, timedOut>>

--------------------------------------------------------------------------------
(* The command and its helper do what they like; nothing obliges them to end. *)
InGroup == helper = "grouped"
Held == child = "running" \/ helper \in {"grouped", "escaped"}
InPipe(s) == written[s] - taken[s]

Write(s) ==
  /\ Running /\ Held
  /\ written["out"] + written["err"] < MaxOutput
  /\ InPipe(s) < PipeSize
  /\ written' = [written EXCEPT ![s] = @ + 1]
  /\ said' = IF child = "running" THEN [said EXCEPT ![s] = written[s] + 1] ELSE said
  /\ UNCHANGED <<step, child, helper, taken, handed, kept, ended, joined, timedOut, status>>

StartHelper ==
  /\ child = "running" /\ helper = "none"
  /\ helper' = "grouped"
  /\ UNCHANGED <<step, child, Output, ended, joined, timedOut, status>>

(* setsid in the helper, out of reach of killpg; or its end. *)
HelperMoves ==
  /\ Running
  /\ \/ helper = "grouped" /\ helper' = "escaped"
     \/ helper \in {"grouped", "escaped"} /\ helper' = "none"
  /\ UNCHANGED <<step, child, Output, ended, joined, timedOut, status>>

ChildEnds ==
  /\ child = "running"
  /\ child' \in {"ok", "failed", "signal"}
  /\ UNCHANGED <<step, helper, Output, ended, joined, timedOut, status>>

--------------------------------------------------------------------------------
(* _PipeDrainer.run: a read takes a chunk, returns, or meets the end of file. *)
Pending(s) == taken[s] - handed[s]

Read(s) ==
  /\ InPipe(s) > 0 /\ Pending(s) < ReadSize
  /\ s \notin ended
  /\ taken' = [taken EXCEPT ![s] = @ + 1]
  /\ UNCHANGED <<step, child, helper, written, said, handed, kept, ended, joined,
                 timedOut, status>>

LastOf(chunks) ==
  IF Len(chunks) > Cap THEN SubSeq(chunks, Len(chunks) - Cap + 1, Len(chunks)) ELSE chunks

(* Defects: everything is kept; the first chunks are kept, not the last. *)
Everything(tail, chunks) == tail \o chunks
FirstOf(chunks) == IF Len(chunks) > Cap THEN SubSeq(chunks, 1, Cap) ELSE chunks
HeadOf(tail, chunks) == FirstOf(tail \o chunks)

TailOf(tail, chunks) == LastOf(tail \o chunks)

HandOver(s) ==
  /\ Pending(s) = ReadSize \/ (Pending(s) > 0 /\ InPipe(s) = 0 /\ ~Held)
  /\ s \notin ended
  /\ handed' = [handed EXCEPT ![s] = taken[s]]
  /\ kept' = [kept EXCEPT ![s] = TailOf(@, [n \in 1 .. Pending(s) |-> handed[s] + n])]
  /\ UNCHANGED <<step, child, helper, written, said, taken, ended, joined, timedOut,
                 status>>

MeetEnd(s) ==
  /\ Running
  /\ s \notin ended
  /\ Pending(s) = 0 /\ InPipe(s) = 0 /\ ~Held
  /\ ended' = ended \cup {s}
  /\ UNCHANGED <<step, child, helper, Output, joined, timedOut, status>>

--------------------------------------------------------------------------------
(* Defect: only the command itself is killed. *)
KillChild ==
  /\ child' = IF child = "running" THEN "signal" ELSE child
  /\ UNCHANGED helper

(* _killpg takes the whole group, the command included, or finds it gone. *)
KillGroup ==
  /\ child' = IF child = "running" THEN "signal" ELSE child
  /\ helper' = IF InGroup THEN "none" ELSE helper

DeadlinePasses ==
  /\ step = "waiting"
  /\ child = "running"
  /\ KillGroup
  /\ timedOut' = TRUE
  /\ step' = "reaping"
  /\ UNCHANGED <<Output, ended, joined, status>>

Reap ==
  /\ step \in {"waiting", "reaping"}
  /\ child # "running"
  /\ step' = "sweeping"
  /\ UNCHANGED <<child, helper, Output, ended, joined, timedOut, status>>

Sweep ==
  /\ step \in {"sweeping", "sweepingAgain"}
  /\ KillGroup
  /\ joined' = 0
  /\ step' = IF step = "sweeping" THEN "joining" ELSE "joiningAgain"
  /\ UNCHANGED <<Output, ended, timedOut, status>>

(* Defect: a join without its grace, which waits for the drainer to end. *)
WaitsForever(s) == FALSE

(* Past its grace a join leaves a drainer that waits for a writer; by then   *)
(* that drainer took all the command wrote, and every full read returned.    *)
CaughtUp(s) == said[s] <= taken[s] /\ said[s] < handed[s] + ReadSize
GivesUp(s) == s \notin ended /\ Held /\ CaughtUp(s)

Join ==
  /\ step \in {"joining", "joiningAgain"}
  /\ joined < Len(Joins)
  /\ LET s == Joins[joined + 1] IN s \in ended \/ GivesUp(s)
  /\ joined' = joined + 1
  /\ UNCHANGED <<step, child, helper, Output, ended, timedOut, status>>

SweepAgain ==
  /\ step = "joining" /\ joined = Len(Joins)
  /\ ended # Pipes
  /\ step' = "sweepingAgain"
  /\ UNCHANGED <<child, helper, Output, ended, joined, timedOut, status>>

(* The retained tails are read and the exit is classified. *)
Finish ==
  /\ joined = Len(Joins)
  /\ step = "joiningAgain" \/ (step = "joining" /\ ended = Pipes)
  /\ step' = "idle"
  /\ status' = IF timedOut THEN "timeout" ELSE child
  /\ UNCHANGED <<child, helper, Output, ended, joined, timedOut>>

(* The outcome was recorded; the run's own state is gone with its frame, and *)
(* a helper that escaped is one more of those who may change packs.          *)
Return ==
  /\ step' = "idle" /\ child' = "none" /\ helper' = "none"
  /\ written' = Nothing /\ said' = Nothing /\ taken' = Nothing /\ handed' = Nothing
  /\ kept' = [s \in Pipes |-> <<>>]
  /\ ended' = {} /\ joined' = 0
  /\ timedOut' = FALSE /\ status' = "none"

(* What the gate's own threads do, and what the pack's processes may do. *)
RunnerStep == DeadlinePasses \/ Reap \/ Sweep \/ Join \/ SweepAgain
DrainerStep(s) == Read(s) \/ HandOver(s) \/ MeetEnd(s)

PackCodeStep == (\E s \in Pipes : Write(s)) \/ StartHelper \/ HelperMoves \/ ChildEnds
================================================================================
