----------------------------- MODULE MCMemoria -----------------------------
(* Instances of Memoria for TLC: the constants TLC cannot read from a .cfg. *)
EXTENDS Memoria

TresFijas == <<2, 1, 3>>
SinFijas == << >>
=============================================================================
