---------------------------- MODULE MCIssueSkeleton ----------------------------
(* Runs are interchangeable: no property of IssueSkeleton names one.           *)
EXTENDS IssueSkeleton, TLC

Interchangeable == Permutations(Runs)
================================================================================
