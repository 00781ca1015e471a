------------------------------ MODULE MCKernel ------------------------------
(* Instances of Kernel for TLC: addresses are interchangeable. *)
EXTENDS Kernel, TLC

Simetria == Permutations(Dirs)
=============================================================================
