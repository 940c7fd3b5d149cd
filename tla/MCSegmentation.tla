----------------------------- MODULE MCSegmentation ----------------------------
(* Small instances of Segmentation for TLC. *)
EXTENDS Segmentation, TLC

Symmetry == Permutations(Clients) \cup Permutations(Workers) \cup Permutations(JobIds)
================================================================================
