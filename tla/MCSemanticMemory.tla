--------------------------- MODULE MCSemanticMemory ---------------------------
(* Slots, episodes and meanings are interchangeable. *)
EXTENDS SemanticMemory, TLC

Symmetry == Permutations(Slots) \cup Permutations(Episodes) \cup Permutations(Meanings)
================================================================================
