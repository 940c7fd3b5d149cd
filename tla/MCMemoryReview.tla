---------------------------- MODULE MCMemoryReview ----------------------------
(* The first retrieval finds both memories, the second one of them. *)
EXTENDS MemoryReview

CONSTANTS m1, m2

MCFound == <<{m1, m2}, {m2}>>
================================================================================
