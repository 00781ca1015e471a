-------------------------------- MODULE Cpu --------------------------------
(***************************************************************************)
(* The CPU process (src/cpu/src) and the part of memoria that serves it    *)
(* (src/memoria/src/escuchar_cpu.c).                                       *)
(*                                                                         *)
(* The CPU has a thread that listens to the kernel's dispatch socket, one  *)
(* that listens to memoria, and the instruction cycle of the context       *)
(* memoria sends.  They share PidHilo and TidHilo, control_key,            *)
(* instruccionActual and two semaphores, and no lock.                      *)
(*                                                                         *)
(* The kernel is the environment.  It dispatches one thread: theorem       *)
(* Despacho of KernelProofs.  It never sends INTERRUPCION, so the          *)
(* interrupt listener and check_interrupt have nothing to do.  A register  *)
(* holds nothing here: a program gives each instruction its address.       *)
(***************************************************************************)
EXTENDS Integers, Sequences

CONSTANTS
  Hilos,            \* threads memoria has a context of
  Programa,         \* thread -> sequence of [op, dir], its file of instructions
  Parte,            \* thread -> [base, limite], as memoria's context has them
  TamMemoria,       \* TAM_MEMORIA of memoria
  Modulo,           \* 2^32 in the code: the range of a uint32_t
  Nada

\* decode recognises these as system calls ...
Syscalls == {"THREAD_CREATE", "PROCESS_CREATE", "IO", "MUTEX_CREATE", "MUTEX_LOCK",
             "MUTEX_UNLOCK", "THREAD_JOIN"}
\* ... and these it does not, although execute_syscall has a case for each.
Olvidadas == {"DUMP_MEMORY", "THREAD_EXIT", "PROCESS_EXIT", "THREAD_CANCEL"}

Instruccion ==
  [op : {"SET", "SUM", "SUB", "LOG", "JNZ", "WRITE_MEM", "READ_MEM"} \cup Syscalls \cup Olvidadas,
   dir : Nat]

ASSUME ConfiguracionCpu ==
  /\ Modulo \in Nat \ {0} /\ TamMemoria \in 0 .. Modulo - 1
  /\ Nada \notin Hilos
  /\ Parte \in [Hilos -> [base : 0 .. Modulo - 1, limite : 0 .. Modulo - 1]]
  /\ Programa \in [Hilos -> Seq(Instruccion)]

VARIABLES
  actual,                        \* PidHilo and TidHilo
  control_key,
  instruccionActual,
  sem_instruccion, sem_syscall,  \* semaphore values
  parteActual,                   \* the partition MMU uses
  ciclo,                         \* the cycle: [fase, hilo, pc, inst]
  desfasado,                     \* a packet of memoria has been read in part
  viva,                          \* FALSE once the process has ended
  contextos,                     \* memoria: thread -> pc of its context
  a_memoria, de_memoria, de_kernel, a_kernel   \* sockets; a_kernel keeps what was sent

compartido == <<actual, control_key, instruccionActual, sem_instruccion, sem_syscall,
                parteActual>>
vars == <<compartido, ciclo, desfasado, viva, contextos, a_memoria, de_memoria, de_kernel,
          a_kernel>>

Msg(op, h, n) == [op |-> op, hilo |-> h, n |-> n]

\* The dispatch of the kernel is already on its way.
Init ==
  /\ actual = Nada /\ control_key = 0 /\ instruccionActual = Nada /\ parteActual = Nada
  /\ sem_instruccion = 0 /\ sem_syscall = 0
  /\ ciclo = [fase |-> "sin hilo", hilo |-> Nada, pc |-> 0, inst |-> Nada]
  /\ desfasado = FALSE /\ viva = TRUE
  /\ contextos = [h \in Hilos |-> 0]
  /\ a_memoria = << >> /\ de_memoria = << >> /\ a_kernel = << >>
  /\ \E h \in Hilos : de_kernel = <<h>>

-----------------------------------------------------------------------------
(* The two listeners *)

\* RECIBIR_TID in escuchar_kernel_dispatch.
RecibirTid ==
  /\ viva /\ de_kernel # << >>
  /\ actual' = Head(de_kernel)
  /\ de_kernel' = Tail(de_kernel)
  /\ a_memoria' = Append(a_memoria, Msg("OBTENER_CONTEXTO", actual', 0))
  /\ UNCHANGED <<control_key, instruccionActual, sem_instruccion, sem_syscall, parteActual,
                 ciclo, desfasado, viva, contextos, de_memoria, a_kernel>>

\* cpu_escucha_memoria reads a whole packet.
Recibe(op) ==
  /\ viva /\ ~desfasado
  /\ de_memoria # << >> /\ Head(de_memoria).op = op
  /\ de_memoria' = Tail(de_memoria)
  /\ UNCHANGED <<actual, desfasado, viva, contextos, a_memoria, de_kernel, a_kernel>>

\* The cycle's thread is created last: it finds control_key set.
ReciboContexto ==
  /\ Recibe("ENVIAR_CONTEXTO")
  /\ control_key' = 1
  /\ parteActual' = Parte[Head(de_memoria).hilo]
  /\ ciclo' = [fase |-> "ciclo", hilo |-> Head(de_memoria).hilo, pc |-> Head(de_memoria).n,
               inst |-> Nada]
  /\ UNCHANGED <<instruccionActual, sem_instruccion, sem_syscall>>

RecibirInstruccionDeMemoria ==
  /\ Recibe("ENVIAR_INSTRUCCION")
  /\ instruccionActual' = Programa[Head(de_memoria).hilo][Head(de_memoria).n + 1]
  /\ sem_instruccion' = sem_instruccion + 1
  /\ UNCHANGED <<control_key, sem_syscall, parteActual, ciclo>>

\* A bit that is not 1 gets a warning and no post.
ConfirmarContexto_SinPost ==
  /\ Recibe("CONFIRMAR_CONTEXTO_ACTUALIZADO")
  /\ UNCHANGED <<control_key, instruccionActual, sem_instruccion, sem_syscall, parteActual, ciclo>>

\* actualizar_contexto_de_ejecucion answers with a bit that is 1, or does not answer.
ConfirmarContexto ==
  /\ Recibe("CONFIRMAR_CONTEXTO_ACTUALIZADO")
  /\ sem_syscall' = sem_syscall + 1
  /\ UNCHANGED <<control_key, instruccionActual, sem_instruccion, parteActual, ciclo>>

\* CONFIRMAR_WRITE_MEM and ENVIAR_READ_MEM: a line in the log, the value read is lost.
Descartar ==
  /\ Recibe("CONFIRMAR_WRITE_MEM") \/ Recibe("ENVIAR_READ_MEM")
  /\ UNCHANGED <<control_key, instruccionActual, sem_instruccion, sem_syscall, parteActual, ciclo>>

-----------------------------------------------------------------------------
(* ciclo_de_instruccion *)

En(fase) == viva /\ ciclo.fase = fase

Fetch ==
  /\ En("ciclo")
  /\ \/ /\ control_key = 1
        /\ ciclo' = [ciclo EXCEPT !.fase = "fetch"]
        /\ a_memoria' = Append(a_memoria, Msg("OBTENER_INSTRUCCION", ciclo.hilo, ciclo.pc))
     \/ /\ control_key = 0
        /\ ciclo' = [ciclo EXCEPT !.fase = "fin"]
        /\ UNCHANGED a_memoria
  /\ UNCHANGED <<compartido, desfasado, viva, contextos, de_memoria, de_kernel, a_kernel>>

Decodificar ==
  /\ En("fetch") /\ instruccionActual # Nada
  /\ ciclo' = [ciclo EXCEPT !.fase = "execute", !.inst = instruccionActual]
  /\ UNCHANGED <<actual, control_key, instruccionActual, sem_syscall, parteActual, desfasado,
                 viva, contextos, a_memoria, de_memoria, de_kernel, a_kernel>>

\* sem_wait(&sem_instruccion) left out.
Decode_SinWait == Decodificar /\ UNCHANGED sem_instruccion

Decode ==
  /\ sem_instruccion > 0
  /\ sem_instruccion' = sem_instruccion - 1
  /\ Decodificar

Ejecuta(ops) == En("execute") /\ ciclo.inst.op \in ops

Avanzar(fase) == ciclo' = [ciclo EXCEPT !.fase = fase, !.pc = @ + 1]

ActualizarContexto(pc) ==
  a_memoria' = Append(a_memoria, Msg("ACTUALIZAR_CONTEXTO", ciclo.hilo, pc))

\* The context goes to memoria with the next PC, and the call waits for its reply.
ExecuteSyscall ==
  /\ Ejecuta(Syscalls)
  /\ Avanzar("sem_syscall")
  /\ ActualizarContexto(ciclo.pc + 1)
  /\ UNCHANGED <<compartido, desfasado, viva, contextos, de_memoria, de_kernel, a_kernel>>

EnviarAlKernel(op, h) == a_kernel' = Append(a_kernel, [op |-> op, hilo |-> h])

EnviarYParar(key) ==
  /\ En("sem_syscall")
  /\ EnviarAlKernel(ciclo.inst.op, actual)
  /\ control_key' = key
  /\ ciclo' = [ciclo EXCEPT !.fase = "ciclo"]
  /\ UNCHANGED <<actual, instruccionActual, sem_instruccion, parteActual, desfasado, viva,
                 contextos, a_memoria, de_memoria, de_kernel>>

\* sem_wait(&sem_syscall) left out.
EnviarSyscall_SinWait == EnviarYParar(0) /\ UNCHANGED sem_syscall

\* control_key left as it was.
EnviarSyscall_SinParar ==
  sem_syscall > 0 /\ sem_syscall' = sem_syscall - 1 /\ EnviarYParar(control_key)

\* The call names the globals' thread, not that of the cycle's context.
EnviarSyscall ==
  /\ sem_syscall > 0
  /\ sem_syscall' = sem_syscall - 1
  /\ EnviarYParar(0)

\* SET, SUM, SUB and LOG.
ExecuteRegistros ==
  /\ Ejecuta({"SET", "SUM", "SUB", "LOG"})
  /\ Avanzar("ciclo")
  /\ UNCHANGED <<compartido, desfasado, viva, contextos, a_memoria, de_memoria, de_kernel, a_kernel>>

\* jnz_registro takes the value of the context's PC for its address and writes there.
ExecuteJnz ==
  /\ Ejecuta({"JNZ"})
  /\ viva' = FALSE
  /\ UNCHANGED <<compartido, ciclo, desfasado, contextos, a_memoria, de_memoria, de_kernel, a_kernel>>

\* INSTRUCCION DESCONOCIDA: the PC stays and the cycle goes on.
ExecuteDesconocida ==
  /\ Ejecuta(Olvidadas)
  /\ ciclo' = [ciclo EXCEPT !.fase = "ciclo"]
  /\ UNCHANGED <<compartido, desfasado, viva, contextos, a_memoria, de_memoria, de_kernel, a_kernel>>

\* MMU.  limite is the last address of the partition, and is added to its base.
DireccionFisica == (parteActual.base + ciclo.inst.dir) % Modulo

DentroDeLimites ==
  /\ parteActual.base <= DireccionFisica
  /\ DireccionFisica <= (parteActual.base + parteActual.limite) % Modulo

AccedeAMemoria == Ejecuta({"WRITE_MEM", "READ_MEM"})

\* The process ends, and does not wait for memoria.
SegmentationFault ==
  /\ AccedeAMemoria /\ ~DentroDeLimites
  /\ ActualizarContexto(ciclo.pc)
  /\ EnviarAlKernel("PROCESS_EXIT", ciclo.hilo)
  /\ viva' = FALSE
  /\ UNCHANGED <<compartido, ciclo, desfasado, contextos, de_memoria, de_kernel>>

WriteMem ==
  /\ Ejecuta({"WRITE_MEM"}) /\ DentroDeLimites
  /\ a_memoria' = Append(a_memoria, Msg("WRITE_MEM", ciclo.hilo, DireccionFisica))
  /\ Avanzar("ciclo")
  /\ UNCHANGED <<compartido, desfasado, viva, contextos, de_memoria, de_kernel, a_kernel>>

ReadMem ==
  /\ Ejecuta({"READ_MEM"}) /\ DentroDeLimites
  /\ a_memoria' = Append(a_memoria, Msg("READ_MEM", ciclo.hilo, DireccionFisica))
  /\ ciclo' = [ciclo EXCEPT !.fase = "recv"]
  /\ UNCHANGED <<compartido, desfasado, viva, contextos, de_memoria, de_kernel, a_kernel>>

\* leer_desde_memoria takes four bytes of the socket the listener reads too: a word of
\* the packet at its head, if the listener does not get them all first.  What is left of
\* the packet is taken for another: an unknown and empty one when the value read is 0,
\* and then the listener is in step again; otherwise one whose end never comes.
LeerDesdeMemoria ==
  /\ En("recv") /\ de_memoria # << >>
  /\ \/ desfasado' = TRUE /\ UNCHANGED de_memoria
     \/ /\ Head(de_memoria).op = "ENVIAR_READ_MEM"
        /\ de_memoria' = Tail(de_memoria)
        /\ UNCHANGED desfasado
  /\ Avanzar("ciclo")
  /\ UNCHANGED <<compartido, viva, contextos, a_memoria, de_kernel, a_kernel>>

CicloDeInstruccion ==
  \/ Fetch \/ Decode
  \/ ExecuteSyscall \/ EnviarSyscall
  \/ ExecuteRegistros \/ ExecuteJnz \/ ExecuteDesconocida
  \/ SegmentationFault \/ WriteMem \/ ReadMem \/ LeerDesdeMemoria

-----------------------------------------------------------------------------
(* escuchar_cpu in memoria: a message at a time, with one reply or none *)

EntraEnMemoria(dir) == dir + 4 < TamMemoria

HayInstruccion(h, pc) == pc < Len(Programa[h])

EscucharCpu(op) ==
  /\ a_memoria # << >> /\ Head(a_memoria).op = op
  /\ a_memoria' = Tail(a_memoria)
  /\ UNCHANGED <<compartido, ciclo, desfasado, viva, de_kernel, a_kernel>>

DevolverContextoEjecucion ==
  /\ EscucharCpu("OBTENER_CONTEXTO")
  /\ LET h == Head(a_memoria).hilo
     IN de_memoria' = Append(de_memoria, Msg("ENVIAR_CONTEXTO", h, contextos[h]))
  /\ UNCHANGED contextos

ActualizarContextoDeEjecucion ==
  /\ EscucharCpu("ACTUALIZAR_CONTEXTO")
  /\ LET m == Head(a_memoria)
     IN /\ contextos' = [contextos EXCEPT ![m.hilo] = m.n]
        /\ de_memoria' = Append(de_memoria, Msg("CONFIRMAR_CONTEXTO_ACTUALIZADO", m.hilo, 1))

Responde(si, op, m) == de_memoria' = IF si THEN Append(de_memoria, Msg(op, m.hilo, m.n))
                                           ELSE de_memoria

ObtenerInstruccion ==
  /\ EscucharCpu("OBTENER_INSTRUCCION")
  /\ LET m == Head(a_memoria)
     IN Responde(HayInstruccion(m.hilo, m.n), "ENVIAR_INSTRUCCION", m)
  /\ UNCHANGED contextos

\* write_mem and read_mem: no reply for an address past the bound, which is one word early.
AccesoAMemoria ==
  /\ \/ /\ EscucharCpu("WRITE_MEM")
        /\ Responde(EntraEnMemoria(Head(a_memoria).n), "CONFIRMAR_WRITE_MEM", Head(a_memoria))
     \/ /\ EscucharCpu("READ_MEM")
        /\ Responde(EntraEnMemoria(Head(a_memoria).n), "ENVIAR_READ_MEM", Head(a_memoria))
  /\ UNCHANGED contextos

-----------------------------------------------------------------------------

EscuchaMemoria ==
  ReciboContexto \/ RecibirInstruccionDeMemoria \/ ConfirmarContexto \/ Descartar

Memoria ==
  \/ DevolverContextoEjecucion \/ ActualizarContextoDeEjecucion
  \/ ObtenerInstruccion \/ AccesoAMemoria

Next == RecibirTid \/ EscuchaMemoria \/ CicloDeInstruccion \/ Memoria

Spec == Init /\ [][Next]_vars

\* Every thread that can go on does, and memoria serves its socket.
FairSpec ==
  /\ Spec
  /\ WF_vars(RecibirTid) /\ WF_vars(EscuchaMemoria) /\ WF_vars(CicloDeInstruccion)
  /\ WF_vars(Memoria)

-----------------------------------------------------------------------------
(* Properties *)

\* instruccionActual is written by one thread and read by another: what is executed is
\* still the instruction at the PC of the cycle's own context
\* (cpu_escucha_memoria.c:97, ciclo_de_instruccion.c:13-15).
InstruccionDelPC ==
  ciclo.fase = "execute" => ciclo.inst = Programa[ciclo.hilo][ciclo.pc + 1]

\* When the kernel is sent a system call memoria already has the context that will
\* go on after it: the wait for CONFIRMAR_CONTEXTO_ACTUALIZADO is not satisfied by
\* another post (ciclo_de_instruccion.c:121-126).
ContextoGuardado ==
  [][ciclo.fase = "sem_syscall" /\ ciclo'.fase # "sem_syscall"
       => contextos[ciclo.hilo] = ciclo.pc]_vars

-----------------------------------------------------------------------------
(* What comments, scripts and headers of the repository say *)

\* execute_syscall has a case for each of the eleven system calls (c_conexiones.c:275-334)
\* and the scripts end with DUMP_MEMORY, PROCESS_EXIT or THREAD_EXIT
\* (scripts-pruebas/FIBO_10:17): one that is decoded reaches the kernel.
TodaSyscallLlega == Ejecuta(Syscalls \cup Olvidadas) ~> a_kernel # << >>
=============================================================================
