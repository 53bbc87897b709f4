------------------------------ MODULE MCTriton ------------------------------
(* Small instances of the triton scheduler. *)
EXTENDS Triton, TLC

Symmetry == Permutations(Thread) \cup Permutations(Poster)
=============================================================================
