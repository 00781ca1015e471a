-------------------------------- MODULE Dump --------------------------------
(***************************************************************************)
(* DUMP_MEMORY across kernel, memoria and file system: the thread that     *)
(* asks, envio_datos_a_FS and the other thread of memoria that reads the   *)
(* same socket, and the listener of the file system, with memoria and the  *)
(* file system ending at any time.  The file system sends nothing, ever:   *)
(* the calls are commented out.  What crear_archivo does with its blocks   *)
(* is FileSystem.                                                          *)
(*                                                                         *)
(* The socket to the file system is the words sent, of four bytes each.    *)
(* The one to the kernel is whole packets, and the single ints of          *)
(* envio_datos_a_FS.                                                       *)
(*                                                                         *)
(* As in Kernel, the CPU is the most general one: once there has been a    *)
(* dispatch any thread may ask.                                            *)
(***************************************************************************)
EXTENDS Integers, Sequences

CONSTANTS
  Hilos,         \* threads that ask for a dump, once each
  ConParte,      \* those of them whose process has a partition
  MaxNuevos      \* bound: requests of HILO_READY

VARIABLES
  bloqueados,    \* threads in lista_blocked for a dump
  nuevos,        \* HILO_READY sent, for the bound
  kernel,        \* its listener: "escucha", "corto", "reintenta"; or "caido"
  haciaMemoria,  \* packets of the kernel: the thread of a dump, or "HILO_READY"
  memoria,       \* its thread for the kernel: "escucha", "esperaFS"; or "fin"
  haciaKernel,   \* "CONFIRMAR_CREACION_HILO" or "int"
  haciaFS,       \* words
  fs,            \* its thread: "operacion", "paquete", "buffer"; or "fin"
  creado         \* it has created a file

vars == <<bloqueados, nuevos, kernel, haciaMemoria, memoria, haciaKernel, haciaFS, fs, creado>>
ladoKernel == <<bloqueados, nuevos, kernel>>
ladoFS     == <<fs, creado>>

Init ==
  /\ bloqueados = {} /\ nuevos = 0 /\ kernel = "escucha"
  /\ haciaMemoria = << >> /\ memoria = "escucha" /\ haciaKernel = << >>
  /\ haciaFS = << >> /\ fs = "operacion" /\ creado = FALSE

\* Place of DUMP_MEMORY in the enumeration of op codes.
DUMPMEMORY == 21

-----------------------------------------------------------------------------
(* Kernel *)

\* A send to a process that ended fails, or its second time kills the sender: SIGPIPE.
Pedir(pedido) ==
  \/ /\ memoria # "fin"
     /\ haciaMemoria' = Append(haciaMemoria, pedido) /\ UNCHANGED kernel
  \/ /\ memoria = "fin"
     /\ kernel' \in {kernel, "caido"} /\ UNCHANGED haciaMemoria

\* DUMP_MEMORY: the thread goes to lista_blocked, and nothing takes it out.  A thread runs
\* when the planner has dispatched one.
PedirDump(h) ==
  /\ kernel = "corto" /\ h \notin bloqueados
  /\ Pedir(h)
  /\ bloqueados' = bloqueados \cup {h}
  /\ UNCHANGED <<nuevos, memoria, haciaKernel, haciaFS, ladoFS>>

\* HILO_READY: the main thread of the first process, and then those of THREAD_CREATE.
PedirHilo ==
  /\ \/ kernel \in {"escucha", "reintenta"} /\ nuevos = 0
     \/ kernel = "corto"
  /\ nuevos < MaxNuevos
  /\ Pedir("HILO_READY")
  /\ nuevos' = nuevos + 1
  /\ UNCHANGED <<bloqueados, memoria, haciaKernel, haciaFS, ladoFS>>

\* kernel_escucha_memoria.  After the first confirmation it is in the short-term planner
\* and reads nothing more.  With memoria gone before that it gets NULL, sleeps and tries
\* again; `case -1' is never reached.
EscucharMemoria ==
  /\ kernel = "escucha"
  /\ \/ /\ haciaKernel # << >> /\ Head(haciaKernel) = "CONFIRMAR_CREACION_HILO"
        /\ kernel' = "corto" /\ haciaKernel' = Tail(haciaKernel)
     \/ /\ haciaKernel = << >> /\ memoria = "fin"
        /\ kernel' = "reintenta" /\ UNCHANGED haciaKernel
  /\ UNCHANGED <<bloqueados, nuevos, haciaMemoria, memoria, haciaFS, ladoFS>>

-----------------------------------------------------------------------------
(* Memoria *)

\* The packet as it is sent: crear_paquete and nothing in it.
PaqueteDump == <<DUMPMEMORY, 0>>

CrearHilo ==
  /\ memoria = "escucha" /\ haciaMemoria # << >> /\ Head(haciaMemoria) = "HILO_READY"
  /\ haciaMemoria' = Tail(haciaMemoria)
  /\ haciaKernel' = Append(haciaKernel, "CONFIRMAR_CREACION_HILO")
  /\ UNCHANGED <<ladoKernel, memoria, haciaFS, ladoFS>>

\* envio_datos_a_FS, to its recv.  It reads the partition it looked for without asking
\* whether there was one.
EnvioDatosAFS ==
  /\ memoria = "escucha" /\ haciaMemoria # << >> /\ Head(haciaMemoria) \in Hilos
  /\ haciaMemoria' = Tail(haciaMemoria)
  /\ \/ /\ Head(haciaMemoria) \notin ConParte
        /\ memoria' = "fin" /\ UNCHANGED haciaFS
     \/ /\ Head(haciaMemoria) \in ConParte /\ fs # "fin"
        /\ memoria' = "esperaFS" /\ haciaFS' = haciaFS \o PaqueteDump
     \/ /\ Head(haciaMemoria) \in ConParte /\ fs = "fin"
        /\ memoria' \in {"esperaFS", "fin"} /\ UNCHANGED haciaFS
  /\ UNCHANGED <<ladoKernel, haciaKernel, ladoFS>>

\* Its recv returns when the file system has ended, with nothing, and what goes to the
\* kernel is an int that was never set.
RecvFS ==
  /\ memoria = "esperaFS" /\ fs = "fin"
  /\ memoria' = "escucha"
  /\ haciaKernel' = Append(haciaKernel, "int")
  /\ UNCHANGED <<ladoKernel, haciaMemoria, haciaFS, ladoFS>>

\* memoria_escucha_FS: -1 is exit for the whole process.
MemoriaEscuchaFS ==
  /\ memoria # "fin" /\ fs = "fin"
  /\ memoria' = "fin" /\ haciaMemoria' = << >>
  /\ UNCHANGED <<ladoKernel, haciaKernel, haciaFS, ladoFS>>

-----------------------------------------------------------------------------
(* File system *)

Cerrado == memoria = "fin" /\ haciaFS = << >>

\* escuchar_memoria: the op code, on its own.
EscucharOperacion ==
  /\ fs = "operacion"
  /\ \/ /\ haciaFS # << >>
        /\ fs' = IF Head(haciaFS) = DUMPMEMORY THEN "paquete" ELSE "operacion"
        /\ haciaFS' = Tail(haciaFS)
     \/ /\ Cerrado /\ fs' = "fin" /\ UNCHANGED haciaFS
  /\ UNCHANGED <<ladoKernel, haciaMemoria, memoria, haciaKernel, creado>>

\* crear_archivo calls recibir_paquete, that reads an op code again: the size.
RecibirPaquete ==
  /\ fs = "paquete"
  /\ \/ /\ haciaFS # << >>
        /\ fs' = "buffer" /\ haciaFS' = Tail(haciaFS)
     \/ /\ Cerrado /\ fs' = "fin" /\ UNCHANGED haciaFS
  /\ UNCHANGED <<ladoKernel, haciaMemoria, memoria, haciaKernel, creado>>

\* recibir_buffer, and the rest of crear_archivo.  With memoria gone before all of it has
\* come the size or the content is never set: the process falls on it, or makes a file of
\* whatever it finds.
RecibirBuffer ==
  LET faltan == IF haciaFS = << >> THEN TRUE ELSE Len(haciaFS) < 1 + (Head(haciaFS) + 3) \div 4
  IN /\ fs = "buffer"
     /\ \/ /\ ~faltan
           /\ haciaFS' = SubSeq(haciaFS, 2 + (Head(haciaFS) + 3) \div 4, Len(haciaFS))
        \/ /\ faltan /\ memoria = "fin"
           /\ haciaFS' = << >>
     /\ \/ fs' = "fin" /\ UNCHANGED creado
        \/ fs' = "operacion" /\ creado' = TRUE
     /\ UNCHANGED <<ladoKernel, haciaMemoria, memoria, haciaKernel>>

\* A process ends: killed, or in one of the ways FileSystem and Memoria have.
Caer ==
  \/ /\ fs # "fin" /\ fs' = "fin"
     /\ UNCHANGED <<ladoKernel, haciaMemoria, memoria, haciaKernel, haciaFS, creado>>
  \/ /\ memoria # "fin" /\ memoria' = "fin" /\ haciaMemoria' = << >>
     /\ UNCHANGED <<ladoKernel, haciaKernel, haciaFS, ladoFS>>

-----------------------------------------------------------------------------

EscucharKernel == CrearHilo \/ EnvioDatosAFS \/ RecvFS
FileSystem     == EscucharOperacion \/ RecibirPaquete \/ RecibirBuffer

Next ==
  \/ \E h \in Hilos : PedirDump(h)
  \/ PedirHilo \/ EscucharMemoria
  \/ EscucharKernel \/ MemoriaEscuchaFS
  \/ FileSystem \/ Caer

Spec == Init /\ [][Next]_vars

\* The kernel's listener, the two threads of memoria and the one of the file system each
\* read a socket in a loop, and go on whenever their read can return.
FairSpec ==
  /\ Spec
  /\ WF_vars(EscucharMemoria) /\ WF_vars(EscucharKernel)
  /\ WF_vars(MemoriaEscuchaFS) /\ WF_vars(FileSystem)

-----------------------------------------------------------------------------
(* What comments of the repository say *)

Respondido == \E i \in DOMAIN haciaKernel : haciaKernel[i] = "int"

\* A dump the kernel asks for ends: memoria gives it the answer of the file system, error
\* or OK, unless one of the three processes ends first (escuchar_kernel.c:318-325,
\* 364-365).  Requests of a process without a partition are left out.
DumpRespondido ==
  \A h \in ConParte :
    h \in bloqueados ~> Respondido \/ memoria = "fin" \/ fs = "fin" \/ kernel = "caido"
=============================================================================
