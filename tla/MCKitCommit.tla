------------------------------ MODULE MCKitCommit ------------------------------
(* Symmetry for the runs of KitCommit: proposals, members and the saves of one *)
(* kind are interchangeable; no property picks one of them out.                *)
EXTENDS KitCommit, TLC

Interchangeable ==
  Permutations(Appliers) \cup Permutations(Members)
    \cup Permutations(RenameEdits) \cup Permutations(HandleEdits)
================================================================================
