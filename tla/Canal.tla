-------------------------------- MODULE Canal --------------------------------
(***************************************************************************)
(* What Kernel, Memoria, Cpu and Sistema take a socket between two of the  *)
(* processes to be: a queue of messages.  Each one sent is delivered once, *)
(* in the order sent and with its operation, and with its data if the      *)
(* message is `limpio'.  Paquetes implements it.                           *)
(***************************************************************************)
EXTENDS Sequences, SequencesExt

VARIABLES
  cola,        \* messages sent and not delivered: [op, datos, ...]
  entregado    \* the last one delivered: [op, datos, limpio]

vars == <<cola, entregado>>

Init == cola = << >>

Mandar ==
  /\ cola' # << >> /\ cola' = Append(cola, Last(cola'))
  /\ UNCHANGED entregado

Entregar ==
  /\ cola # << >>
  /\ cola' = Tail(cola)
  /\ entregado'.op = Head(cola).op
  /\ entregado'.limpio => entregado'.datos = Head(cola).datos

Next == Mandar \/ Entregar

Spec == Init /\ [][Next]_vars
=============================================================================
