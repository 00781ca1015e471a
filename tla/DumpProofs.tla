----------------------------- MODULE DumpProofs -----------------------------
(***************************************************************************)
(* Proofs about DUMP_MEMORY, for any number of threads that ask, with or   *)
(* without a partition, and of requests in between.  What keeps a dump     *)
(* from ending is where the two words of the packet leave memoria and the  *)
(* file system: one waits for an answer, the other for a size.             *)
(***************************************************************************)
EXTENDS Dump, SequenceTheorems, TLAPS

Respuestas == {"CONFIRMAR_CREACION_HILO", "int"}

Tipos ==
  /\ haciaMemoria \in Seq(Hilos \cup {"HILO_READY"})
  /\ haciaKernel \in Seq(Respuestas)
  /\ kernel \in {"escucha", "corto", "reintenta", "caido"}
  /\ memoria \in {"escucha", "esperaFS", "fin"}
  /\ fs \in {"operacion", "paquete", "buffer", "fin"}

SinInt == ~Respondido

\* How far the file system has got with the packet memoria waits for the answer to.
EnCamino ==
  \/ memoria = "escucha"  /\ haciaFS = << >>      /\ fs = "operacion"
  \/ memoria = "esperaFS" /\ haciaFS = PaqueteDump /\ fs = "operacion"
  \/ memoria = "esperaFS" /\ haciaFS = <<0>>      /\ fs = "paquete"
  \/ memoria = "esperaFS" /\ haciaFS = << >>      /\ fs = "buffer"

IInv ==
  /\ Tipos
  /\ memoria # "fin" => ~creado
  /\ fs # "fin" => SinInt
  /\ memoria # "fin" /\ fs # "fin" => EnCamino

\* While the file system lives no dump is reported done: the int that goes to the kernel
\* is one that nothing set, sent when the file system is gone (escuchar_kernel.c:367-368).
RespuestaSoloSiCae == Respondido => fs = "fin"

\* While memoria lives no dump makes a file: the file system takes the size of the packet
\* for the op code of another one, and waits for the rest; and memoria, that waits too,
\* sends no other packet that could be taken for it (escuchar_memoria.c:7, 36,
\* escuchar_kernel.c:359-367).
DumpNoLlega == memoria # "fin" => ~creado

-----------------------------------------------------------------------------

LEMMA Inicio == Init => IInv
BY DEF Init, IInv, Tipos, SinInt, Respondido, EnCamino

\* A request changes what memoria has to read, or the kernel falls.
LEMMA PasoPedir ==
  ASSUME IInv, NEW p \in Hilos \cup {"HILO_READY"}, Pedir(p),
         UNCHANGED <<memoria, haciaKernel, haciaFS, ladoFS>>
  PROVE  IInv'
<1>1. haciaMemoria' \in Seq(Hilos \cup {"HILO_READY"})
  <2>1. haciaMemoria \in Seq(Hilos \cup {"HILO_READY"})
    BY DEF IInv, Tipos
  <2>2. haciaMemoria' = Append(haciaMemoria, p) \/ haciaMemoria' = haciaMemoria
    BY DEF Pedir
  <2> QED BY <2>1, <2>2, AppendProperties
<1>2. kernel' \in {kernel, "caido"}
  BY DEF Pedir
<1> QED BY <1>1, <1>2 DEF IInv, Tipos, SinInt, Respondido, EnCamino, ladoFS

LEMMA PasoPedirDump == ASSUME IInv, NEW h \in Hilos, PedirDump(h) PROVE IInv'
BY PasoPedir DEF PedirDump

LEMMA PasoPedirHilo == IInv /\ PedirHilo => IInv'
BY PasoPedir DEF PedirHilo

\* The confirmation goes and the rest of the queue stays.
LEMMA PasoEscucharMemoria == IInv /\ EscucharMemoria => IInv'
<1> SUFFICES ASSUME IInv, EscucharMemoria PROVE IInv'
  OBVIOUS
<1> USE DEF EscucharMemoria, ladoFS
<1>1. haciaKernel \in Seq(Respuestas)
  BY DEF IInv, Tipos
<1>2. \/ haciaKernel' = haciaKernel
      \/ haciaKernel # << >> /\ haciaKernel' = Tail(haciaKernel)
  OBVIOUS
<1>3. haciaKernel' \in Seq(Respuestas)
  BY <1>1, <1>2, HeadTailProperties
<1>4. SinInt => SinInt'
  <2>1. CASE haciaKernel # << >> /\ haciaKernel' = Tail(haciaKernel)
    <3>1. \A i \in DOMAIN haciaKernel' :
            i + 1 \in DOMAIN haciaKernel /\ haciaKernel'[i] = haciaKernel[i + 1]
      BY <1>1, <2>1
    <3> QED BY <3>1 DEF SinInt, Respondido
  <2> QED BY <1>2, <2>1 DEF SinInt, Respondido
<1> QED BY <1>3, <1>4 DEF IInv, Tipos, EnCamino

-----------------------------------------------------------------------------
(* Memoria *)

LEMMA ColaEnMemoria ==
  ASSUME Tipos, haciaMemoria # << >>
  PROVE  Tail(haciaMemoria) \in Seq(Hilos \cup {"HILO_READY"})
BY HeadTailProperties DEF Tipos

\* One more message for the kernel that is not an int.
LEMMA PasoCrearHilo == IInv /\ CrearHilo => IInv'
<1> SUFFICES ASSUME IInv, CrearHilo PROVE IInv'
  OBVIOUS
<1> USE DEF CrearHilo, ladoKernel, ladoFS
<1>1. haciaMemoria' \in Seq(Hilos \cup {"HILO_READY"})
  BY ColaEnMemoria DEF IInv
<1>2. haciaKernel \in Seq(Respuestas)
  BY DEF IInv, Tipos
<1>3. haciaKernel' \in Seq(Respuestas)
  BY <1>2, AppendProperties DEF Respuestas
<1>4. SinInt => SinInt'
  BY <1>2 DEF SinInt, Respondido
<1> QED BY <1>1, <1>3, <1>4 DEF IInv, Tipos, EnCamino

\* The packet goes when nothing else is on the way.
LEMMA PasoEnvioDatosAFS == IInv /\ EnvioDatosAFS => IInv'
<1> SUFFICES ASSUME IInv, EnvioDatosAFS PROVE IInv'
  OBVIOUS
<1> USE DEF EnvioDatosAFS, ladoKernel, ladoFS
<1>1. haciaMemoria' \in Seq(Hilos \cup {"HILO_READY"})
  BY ColaEnMemoria DEF IInv
<1>2. memoria' # "fin" /\ fs' # "fin" => EnCamino'
  <2> SUFFICES ASSUME memoria' # "fin", fs' # "fin" PROVE EnCamino'
    OBVIOUS
  <2>1. haciaFS = << >> /\ fs = "operacion"
    BY DEF IInv, EnCamino
  <2>2. memoria' = "esperaFS" /\ haciaFS' = haciaFS \o PaqueteDump
    OBVIOUS
  <2>3. haciaFS' = PaqueteDump
    BY <2>1, <2>2, ConcatEmptySeq DEF PaqueteDump, DUMPMEMORY
  <2> QED BY <2>1, <2>2, <2>3 DEF EnCamino
<1>3. memoria # "fin" /\ memoria' \in {"escucha", "esperaFS", "fin"}
  OBVIOUS
<1> QED BY <1>1, <1>2, <1>3 DEF IInv, Tipos, SinInt, Respondido

\* The int goes to the kernel when the file system has ended.
LEMMA PasoRecvFS == IInv /\ RecvFS => IInv'
<1> SUFFICES ASSUME IInv, RecvFS PROVE IInv'
  OBVIOUS
<1> USE DEF RecvFS, ladoKernel, ladoFS
<1>1. haciaKernel' \in Seq(Respuestas)
  BY AppendProperties DEF IInv, Tipos, Respuestas
<1> QED BY <1>1 DEF IInv, Tipos

LEMMA PasoMemoriaEscuchaFS == IInv /\ MemoriaEscuchaFS => IInv'
BY EmptySeq DEF MemoriaEscuchaFS, ladoKernel, ladoFS, IInv, Tipos, SinInt, Respondido

-----------------------------------------------------------------------------
(* File system *)

LEMMA PasoEscucharOperacion == IInv /\ EscucharOperacion => IInv'
<1> SUFFICES ASSUME IInv, EscucharOperacion PROVE IInv'
  OBVIOUS
<1> USE DEF EscucharOperacion, ladoKernel
<1>1. memoria # "fin" => EnCamino'
  <2> SUFFICES ASSUME memoria # "fin" PROVE EnCamino'
    OBVIOUS
  <2>1. memoria = "esperaFS" /\ haciaFS = PaqueteDump
    BY DEF IInv, EnCamino, Cerrado
  <2>2. Head(haciaFS) = DUMPMEMORY /\ Tail(haciaFS) = <<0>> /\ haciaFS # << >>
    BY <2>1 DEF PaqueteDump
  <2> QED BY <2>1, <2>2 DEF EnCamino, Cerrado
<1>2. fs # "fin" /\ fs' \in {"operacion", "paquete", "fin"}
  OBVIOUS
<1> QED BY <1>1, <1>2 DEF IInv, Tipos, SinInt, Respondido

LEMMA PasoRecibirPaquete == IInv /\ RecibirPaquete => IInv'
<1> SUFFICES ASSUME IInv, RecibirPaquete PROVE IInv'
  OBVIOUS
<1> USE DEF RecibirPaquete, ladoKernel
<1>1. memoria # "fin" => EnCamino'
  <2> SUFFICES ASSUME memoria # "fin" PROVE EnCamino'
    OBVIOUS
  <2>1. memoria = "esperaFS" /\ haciaFS = <<0>>
    BY DEF IInv, EnCamino
  <2>2. Tail(haciaFS) = << >> /\ haciaFS # << >>
    BY <2>1
  <2> QED BY <2>1, <2>2 DEF EnCamino, Cerrado
<1>2. fs # "fin" /\ fs' \in {"buffer", "fin"}
  OBVIOUS
<1> QED BY <1>1, <1>2 DEF IInv, Tipos, SinInt, Respondido

\* With memoria alive there is nothing to read where a size is expected.
LEMMA PasoRecibirBuffer == IInv /\ RecibirBuffer => IInv'
<1> SUFFICES ASSUME IInv, RecibirBuffer PROVE IInv'
  OBVIOUS
<1> USE DEF RecibirBuffer, ladoKernel
<1>1. memoria = "fin"
  <2>1. memoria # "fin" => haciaFS = << >>
    BY DEF IInv, EnCamino
  <2> QED BY <2>1
<1>2. fs # "fin" /\ fs' \in {"operacion", "fin"}
  OBVIOUS
<1> QED BY <1>1, <1>2 DEF IInv, Tipos, SinInt, Respondido

LEMMA PasoCaer == IInv /\ Caer => IInv'
<1> SUFFICES ASSUME IInv, Caer PROVE IInv'
  OBVIOUS
<1> USE DEF Caer, ladoKernel, ladoFS
<1>1. haciaMemoria' = haciaMemoria \/ haciaMemoria' = << >>
  OBVIOUS
<1>2. memoria' = "fin" \/ fs' = "fin"
  OBVIOUS
<1>3. UNCHANGED <<kernel, haciaKernel, creado>> /\ memoria' \in {memoria, "fin"}
        /\ fs' \in {fs, "fin"}
  OBVIOUS
<1> QED BY <1>1, <1>2, <1>3, EmptySeq DEF IInv, Tipos, SinInt, Respondido

-----------------------------------------------------------------------------

LEMMA Inductivo == IInv /\ [Next]_vars => IInv'
<1> SUFFICES ASSUME IInv, [Next]_vars PROVE IInv'
  OBVIOUS
<1>1. CASE UNCHANGED vars
  BY <1>1 DEF vars, IInv, Tipos, SinInt, Respondido, EnCamino
<1> QED
  BY <1>1, PasoPedirDump, PasoPedirHilo, PasoEscucharMemoria, PasoCrearHilo,
     PasoEnvioDatosAFS, PasoRecvFS, PasoMemoriaEscuchaFS, PasoEscucharOperacion,
     PasoRecibirPaquete, PasoRecibirBuffer, PasoCaer DEF Next, EscucharKernel, FileSystem

\* Where a dump stops: with both processes alive memoria and the file system wait for
\* each other as soon as one has been asked for (escuchar_kernel.c:359-367).
THEOREM DumpEnCamino == Spec => []IInv
BY Inicio, Inductivo, PTL DEF Spec

\* No dump comes to its end while both processes live: the kernel is told of none and the
\* file system makes no file (escuchar_kernel.c:359-368, escuchar_memoria.c:7-36).
THEOREM NingunDumpTermina == Spec => [](RespuestaSoloSiCae /\ DumpNoLlega)
<1>1. IInv => RespuestaSoloSiCae /\ DumpNoLlega
  BY DEF IInv, SinInt, Respondido, RespuestaSoloSiCae, DumpNoLlega
<1> QED BY <1>1, DumpEnCamino, PTL
=============================================================================
