-------------------------- MODULE AsignadorBloques --------------------------
(***************************************************************************)
(* What crear_archivo promises whoever dumps memory, with nothing of how   *)
(* the bitmap is kept: each dump gets as many blocks as it needs, and none *)
(* of them belongs to an earlier dump.                                     *)
(***************************************************************************)
EXTENDS Integers, Sequences, FiniteSets

CONSTANTS Bloques, BlockSize, Tamanios

VARIABLES asignados,    \* for each dump, the set of its blocks
          tamanios      \* and its size

Ocupados == UNION {asignados[i] : i \in DOMAIN asignados}

Init == asignados = << >> /\ tamanios = << >>

\* Just enough blocks: the last one is used, and may be used in part.
Alcanza(S, t) ==
  /\ t <= Cardinality(S) * BlockSize
  /\ (Cardinality(S) - 1) * BlockSize < t

Asignar ==
  /\ \E S \in SUBSET (Bloques \ Ocupados), t \in Tamanios \ {0} :
       /\ asignados' = Append(asignados, S)
       /\ tamanios' = Append(tamanios, t)
       /\ Alcanza(S, t)

Reiniciar == asignados' = << >> /\ tamanios' = << >>

Spec == Init /\ [][Asignar \/ Reiniciar]_<<asignados, tamanios>>
=============================================================================
