------------------------------- MODULE PackStore -------------------------------
(***************************************************************************)
(* What committing a kit proposal promises its caller: the pack is one     *)
(* register, and a commit is a compare-and-swap on it.  A proposal carries *)
(* the pack it was built from; committing it either replaces exactly that  *)
(* pack in one step or refuses and changes nothing.  Only a commit that is *)
(* cut short (the process dies, or neither exchange of a rollback works)   *)
(* may stop on either side of the swap, and then the pack is still whole.  *)
(*                                                                         *)
(* KitCommit shows the staging, exchanging and verifying of                *)
(* kits.apply_proposal to implement this register when callers serialise   *)
(* their edits, as ADR 0035 asks of them.                                  *)
(***************************************************************************)

CONSTANTS Appliers,     \* proposals, each applied by one caller
          Members,      \* member paths of the pack
          Edits         \* the author's own saves

VARIABLES pack,         \* the pack: member -> changes its bytes incorporate
          base,         \* proposal -> the pack it was built from
          status        \* proposal -> where it stands

storeVars == <<pack, base, status>>

Statuses == {"unbuilt", "proposed", "ok", "failed", "interrupted"}

SuccessorOf(b, p) == [m \in Members |-> b[m] \cup {p}]

StoreInit ==
  /\ pack = [m \in Members |-> {}]
  /\ base = [p \in Appliers |-> pack]
  /\ status = [p \in Appliers |-> "unbuilt"]

(* The author saves one member, with a change of the author's own or with   *)
(* earlier bytes: the register does not care what the bytes are.            *)
Save(m, bytes) ==
  /\ pack' = [pack EXCEPT ![m] = bytes]
  /\ UNCHANGED <<base, status>>

Build(p) ==
  /\ status[p] = "unbuilt"
  /\ status' = [status EXCEPT ![p] = "proposed"]
  /\ base' = [base EXCEPT ![p] = pack]
  /\ UNCHANGED pack

(* The swap: only from exactly the pack the proposal was built from. *)
Swap(p) ==
  /\ status[p] = "proposed"
  /\ pack = base[p]
  /\ pack' = SuccessorOf(base[p], p)
  /\ status' = [status EXCEPT ![p] = "ok"]
  /\ UNCHANGED base

Refuse(p) ==
  /\ status[p] \in {"unbuilt", "proposed"}
  /\ status' = [status EXCEPT ![p] = "failed"]
  /\ UNCHANGED <<pack, base>>

(* A commit cut short leaves the old pack or the whole successor. *)
Interrupt(p) ==
  /\ status[p] \in {"unbuilt", "proposed", "ok", "failed"}
  /\ status' = [status EXCEPT ![p] = "interrupted"]
  /\ \/ pack' = pack
     \/ /\ status[p] = "proposed"
        /\ pack = base[p]
        /\ pack' = SuccessorOf(base[p], p)
  /\ UNCHANGED base

StoreNext ==
  \/ \E m \in Members, bytes \in SUBSET (Edits \cup Appliers) : Save(m, bytes)
  \/ \E p \in Appliers : Build(p) \/ Swap(p) \/ Refuse(p) \/ Interrupt(p)

StoreSpec == StoreInit /\ [][StoreNext]_storeVars
================================================================================
