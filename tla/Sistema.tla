------------------------------- MODULE Sistema -------------------------------
(***************************************************************************)
(* The kernel, memoria and the CPU together: each is the environment the   *)
(* modules Kernel, Memoria and Cpu leave open for the others.  Their       *)
(* actions are the steps of the system; what is written here is what       *)
(* joins them, the sockets and the replies of memoria to the kernel        *)
(* (src/memoria/src/escuchar_kernel.c).                                    *)
(*                                                                         *)
(* The configuration is that of the repository: ESQUEMA=FIJAS, FIRST,      *)
(* FIFO, and one process, "PLANI_PROC", created by main.  Its file of      *)
(* instructions, which is any, is chosen at the start.                     *)
(*                                                                         *)
(* Memoria may die of a request no partition fits; what the kernel and the *)
(* CPU do with a closed socket is not modelled, and they wait.             *)
(***************************************************************************)
EXTENDS Integers, Sequences

CONSTANTS
  Dirs, NULL, Recursos, MaxPid, MaxTid, MaxSyscalls,           \* of Kernel
  TamMemoria, ParticionesFijas, Modulo, Tamanios, PidBasura,   \* of Memoria
  TamPrimero,       \* the size main gives the first process, 32
  ParteInicial,     \* [base, limite] of the partition it gets
  Guiones,          \* possible contents of its file of instructions ...
  Instrucciones,    \* ... and guion -> sequence of [op, dir]
  Nada

VARIABLES
  \* kernel
  pid, pcb, cola_new, tcb, lista_tcbs, lista_ready, lista_blocked, mutex,
  sem_plani_largo_plazo, TCBaPlanificar, oyente, despacho, a_cpu, k_desfasado, k_viva,
  ultima, syscalls,
  \* memoria
  lista_particiones, lista_contextos, m_viva, m_pcb, m_hilos, m_espera, contextos,
  \* cpu
  actual, control_key, instruccionActual, sem_instruccion, sem_syscall, parteActual, ciclo,
  c_desfasado, c_viva,
  guion,                                  \* what the file of instructions holds
  kernel_a_memoria, memoria_a_kernel,     \* the sockets; a_cpu and cpu_a_kernel
  cpu_a_memoria, memoria_a_cpu,           \* keep what was sent
  kernel_a_cpu, cpu_a_kernel

kernel  == <<pid, pcb, cola_new, tcb, lista_tcbs, lista_ready, lista_blocked, mutex,
             sem_plani_largo_plazo, TCBaPlanificar, oyente, despacho, a_cpu, k_desfasado,
             k_viva, ultima, syscalls>>
memoria == <<lista_particiones, lista_contextos, m_viva, m_pcb, m_hilos, m_espera>>
cpu     == <<actual, control_key, instruccionActual, sem_instruccion, sem_syscall,
             parteActual, ciclo, c_desfasado, c_viva>>
kernel_memoria == <<kernel_a_memoria, memoria_a_kernel>>
cpu_memoria    == <<cpu_a_memoria, memoria_a_cpu, contextos>>
kernel_cpu     == <<kernel_a_cpu, cpu_a_kernel>>
vars == <<kernel, memoria, cpu, kernel_memoria, cpu_memoria, kernel_cpu, guion>>

Pids == 1 .. MaxPid
Hilos == {<<1, 0, g>> : g \in Guiones}       \* pid, tid, and what the file holds

K == INSTANCE Kernel WITH
       desfasado <- k_desfasado, viva <- k_viva,
       a_memoria <- kernel_a_memoria, de_memoria <- memoria_a_kernel,
       MemoriaResponde <- {FALSE}

M == INSTANCE Memoria WITH
       Esquema <- "FIJAS", Algoritmo <- "FIRST", Tids <- 0 .. MaxTid,
       viva <- m_viva, pcb <- m_pcb, hilos <- m_hilos, espera <- m_espera

C == INSTANCE Cpu WITH
       Programa <- [h \in Hilos |-> Instrucciones[h[3]]],
       Parte <- [h \in Hilos |-> ParteInicial],
       desfasado <- c_desfasado, viva <- c_viva,
       a_memoria <- cpu_a_memoria, de_memoria <- memoria_a_cpu,
       de_kernel <- kernel_a_cpu, a_kernel <- cpu_a_kernel

\* The bounds, and what Kernel, Memoria and Cpu assume of their constants.
ASSUME CotasValidas ==
  /\ MaxPid \in Nat \ {0} /\ MaxTid \in Nat /\ MaxSyscalls \in Nat
  /\ NULL \notin Dirs

ASSUME MemoriaValida ==
  /\ Modulo \in Nat /\ TamMemoria \in 1 .. Modulo - 1
  /\ ParticionesFijas \in Seq(Nat \ {0})
  /\ \E ini \in [1 .. M!NFijas -> 0 .. TamMemoria] : M!Disposicion(ini)
  /\ Tamanios \subseteq Nat /\ PidBasura \subseteq Nat

ASSUME CpuValida ==
  /\ Nada \notin Hilos
  /\ Instrucciones \in [Guiones -> Seq(C!Instruccion)]
  /\ ParteInicial \in [base : 0 .. Modulo - 1, limite : 0 .. Modulo - 1]

\* ParteInicial is the first partition the first process fits in, if there is one.
ASSUME ParteDelPrimero ==
  \A i \in 1 .. M!NFijas :
    /\ ParticionesFijas[i] >= TamPrimero
    /\ \A j \in 1 .. i - 1 : ParticionesFijas[j] < TamPrimero
    => ParteInicial = [base   |-> M!Inicio[i],
                       limite |-> M!Limite(M!Inicio[i], ParticionesFijas[i])]

Init ==
  /\ K!Init /\ M!Init
  /\ m_pcb[1].tam = TamPrimero
  /\ guion \in Guiones
  /\ actual = Nada /\ control_key = 0 /\ instruccionActual = Nada /\ parteActual = Nada
  /\ sem_instruccion = 0 /\ sem_syscall = 0
  /\ ciclo = [fase |-> "sin hilo", hilo |-> Nada, pc |-> 0, inst |-> Nada]
  /\ c_desfasado = FALSE /\ c_viva = TRUE
  /\ contextos = [h \in Hilos |-> 0]
  /\ cpu_a_memoria = << >> /\ memoria_a_cpu = << >>
  /\ kernel_a_cpu = << >> /\ cpu_a_kernel = << >>

-----------------------------------------------------------------------------
(* The kernel *)

Planificar ==
  /\ K!LargoPlazo
  /\ UNCHANGED <<memoria, cpu, cpu_memoria, kernel_cpu, guion>>

EscucharMemoria ==
  /\ K!ConfirmarEspacioProceso \/ K!PostLargoPlazo \/ K!ConfirmarCreacionHilo
  /\ UNCHANGED <<memoria, cpu, cpu_memoria, kernel_cpu, guion>>

\* enviar_a_cpu_dispatch: the thread chosen goes to the CPU.
Despachar ==
  /\ K!CortoPlazo
  /\ kernel_a_cpu' = kernel_a_cpu \o
       [i \in 1 .. Len(a_cpu') - Len(a_cpu) |-> Append(a_cpu'[Len(a_cpu) + i], guion)]
  /\ UNCHANGED <<memoria, cpu, cpu_memoria, cpu_a_kernel, guion>>

Llamada == cpu_a_kernel[syscalls + 1]

\* kernel_escucha_cpu_dispatch takes the next message of the CPU and no other.
AtenderSyscall ==
  /\ syscalls < Len(cpu_a_kernel)
  /\ K!AtiendeSyscall
  /\ ultima'.op = Llamada.op
  /\ tcb[ultima'.dir].pid = Llamada.hilo[1] /\ tcb[ultima'.dir].tid = Llamada.hilo[2]
  /\ UNCHANGED <<memoria, cpu, cpu_memoria, kernel_cpu, guion>>

SeguirSyscall ==
  /\ K!SigueSyscall
  /\ UNCHANGED <<memoria, cpu, cpu_memoria, kernel_cpu, guion>>

-----------------------------------------------------------------------------
(* memoria: escuchar_kernel *)

Pide(op) == m_viva /\ kernel_a_memoria # << >> /\ Head(kernel_a_memoria).op = op

Responder_ConBit(op, t, bit) ==
  /\ kernel_a_memoria' = Tail(kernel_a_memoria)
  /\ memoria_a_kernel' =
       Append(memoria_a_kernel, K!Msg(op, Head(kernel_a_memoria).pid, t, 0))

Responder(op, t, bit) ==
  /\ kernel_a_memoria' = Tail(kernel_a_memoria)
  /\ memoria_a_kernel' =
       Append(memoria_a_kernel, K!Msg(op, Head(kernel_a_memoria).pid, t, bit))

Ajeno == <<kernel, cpu, cpu_memoria, kernel_cpu, guion>>

\* A request for the unwritten PCB has any size; the log line after a search that found
\* nothing kills the process before it answers.
AsignarMemoria ==
  /\ Pide("ASIGNAR_MEMORIA")
  /\ \/ /\ Head(kernel_a_memoria).pid # K!Basura
        /\ M!PedirProceso(Head(kernel_a_memoria).pid)
     \/ /\ Head(kernel_a_memoria).pid = K!Basura
        /\ M!PedirBasura
  /\ IF m_viva' THEN Responder("CONFIRMAR_ESPACIO_PROCESO", K!Nadie, 1)
                ELSE UNCHANGED kernel_memoria
  /\ UNCHANGED Ajeno

CrearHilo ==
  /\ Pide("HILO_READY")
  /\ LET m == Head(kernel_a_memoria)
     IN /\ M!CrearHilo(m.pid, m.tid)
        /\ IF m_viva' THEN Responder("CONFIRMAR_CREACION_HILO", m.tid, 1)
                      ELSE UNCHANGED kernel_memoria
  /\ UNCHANGED Ajeno

\* The reply the kernel waits for is not sent.
FinalizarProceso ==
  /\ Pide("FINALIZAR_PROCESO")
  /\ M!FinalizarProceso(Head(kernel_a_memoria).pid)
  /\ kernel_a_memoria' = Tail(kernel_a_memoria)
  /\ UNCHANGED <<Ajeno, memoria_a_kernel>>

\* FINALIZAR_HILO and DUMP_MEMORY are missing: property ContextosSinCarrera.
EscucharKernel == AsignarMemoria \/ CrearHilo \/ FinalizarProceso

-----------------------------------------------------------------------------
(* memoria: escuchar_cpu, and the CPU *)

EscucharCpu ==
  /\ m_viva
  /\ C!Memoria
  /\ UNCHANGED <<kernel, memoria, kernel_memoria, guion>>

CpuEscuchaKernel ==
  /\ C!RecibirTid
  /\ UNCHANGED <<kernel, memoria, kernel_memoria, guion>>

CpuEscuchaMemoria ==
  /\ C!EscuchaMemoria
  /\ UNCHANGED <<kernel, memoria, kernel_memoria, guion>>

Ciclo ==
  /\ C!CicloDeInstruccion
  /\ UNCHANGED <<kernel, memoria, kernel_memoria, guion>>

-----------------------------------------------------------------------------

Next ==
  \/ Planificar \/ EscucharMemoria \/ Despachar \/ AtenderSyscall \/ SeguirSyscall
  \/ EscucharKernel \/ EscucharCpu
  \/ CpuEscuchaKernel \/ CpuEscuchaMemoria \/ Ciclo

Spec == Init /\ [][Next]_vars

\* Every thread of the three processes that can go on does.
FairSpec ==
  /\ Spec
  /\ WF_vars(Planificar) /\ WF_vars(EscucharMemoria \/ Despachar)
  /\ WF_vars(AtenderSyscall \/ SeguirSyscall)
  /\ WF_vars(EscucharKernel) /\ WF_vars(EscucharCpu)
  /\ WF_vars(CpuEscuchaKernel) /\ WF_vars(CpuEscuchaMemoria) /\ WF_vars(Ciclo)

-----------------------------------------------------------------------------
(* Each module keeps what the environment of the others is assumed to do *)

\* Memoria answers the kernel as Kernel takes it to: each ASIGNAR_MEMORIA and HILO_READY
\* once, in order and for the process and thread asked for, and the CPU calls only from
\* a thread that may (escuchar_kernel.c:61-82, 283-286).
ImplementaKernel == K!Spec

CR == INSTANCE Cpu WITH
        Programa <- [h \in Hilos |-> Instrucciones[h[3]]],
        Parte <- [h \in Hilos |-> ParteInicial],
        desfasado <- c_desfasado, viva <- c_viva,
        a_memoria <- cpu_a_memoria, de_memoria <- memoria_a_cpu,
        de_kernel <- IF a_cpu = << >> THEN << <<1, 0, guion>> >> ELSE kernel_a_cpu,
        a_kernel <- cpu_a_kernel

\* The kernel dispatches what Cpu takes it to: one thread, the main thread of the first
\* process, and never a second one, whatever it serves (planificadores.c:18-45).
ImplementaCpu == CR!Spec

\* What the kernel has sent to memoria comes when Memoria's model of the kernel lets it:
\* a process is asked for while memoria has not given it a partition, although
\* iniciar_proceso runs again before the first answer is taken (k_conexiones.c:297, 406),
\* threads are announced once, of processes that have memory, and a process that ends had it.
PedidosEnProtocolo ==
  \A i \in DOMAIN kernel_a_memoria :
    LET m == kernel_a_memoria[i]
        otro(j) == j # i /\ kernel_a_memoria[j].op = m.op /\ kernel_a_memoria[j].pid = m.pid
                   /\ kernel_a_memoria[j].tid = m.tid
    IN m.pid # K!Basura =>
         /\ \A j \in DOMAIN kernel_a_memoria : ~otro(j)
         /\ m.op = "ASIGNAR_MEMORIA" => m_pcb[m.pid].estado = "NEW"
         /\ m.op = "HILO_READY" =>
              m_pcb[m.pid].estado = "READY" /\ m_hilos[<<m.pid, m.tid>>] = "NO"
         /\ m.op = "FINALIZAR_PROCESO" => m_pcb[m.pid].estado = "READY"

\* The CPU calls the kernel for a thread that is still in EXEC there, and not one that
\* the previous call has blocked or ended (ciclo_de_instruccion.c:126-129).
LlamadorEnExec ==
  syscalls < Len(cpu_a_kernel) =>
    \E d \in Dirs : /\ tcb[d].pid = Llamada.hilo[1] /\ tcb[d].tid = Llamada.hilo[2]
                    /\ tcb[d].estado = "EXEC"

-----------------------------------------------------------------------------
(* Safety and liveness of the whole *)

ContextoDe(h) ==
  \E k \in DOMAIN lista_contextos :
    /\ lista_contextos[k].pid = h[1] /\ lista_contextos[k].tid = h[2]
    /\ [base |-> lista_contextos[k].base, limite |-> lista_contextos[k].limite] = ParteInicial

\* Whatever the CPU asks of memoria is about a thread memoria has a context of, with the
\* bounds of the partition its process was given: HILO_READY was served before the
\* dispatch, on another socket (escuchar_cpu.c:79, 120; k_conexiones.c:246).
ContextoAlPedir == \A i \in DOMAIN cpu_a_memoria : ContextoDe(cpu_a_memoria[i].hilo)

\* buscar_contexto_por_tid returns a pointer after it releases mutex_contextos, and
\* finalizar_hilo frees contexts without taking it (escuchar_cpu.c:58,
\* escuchar_kernel.c:302): what keeps them apart is that the kernel sends no
\* FINALIZAR_HILO while the CPU has a request with memoria, nor a DUMP_MEMORY.
ContextosSinCarrera ==
  cpu_a_memoria # << >> =>
    \A i \in DOMAIN kernel_a_memoria :
      kernel_a_memoria[i].op \notin {"FINALIZAR_HILO", "DUMP_MEMORY"}

\* When memoria reads or writes for a thread its process still holds the partition the
\* address is in, although it is the kernel's socket that ends the process: the CPU
\* reports a fault only after memoria has served all it asked for before
\* (escuchar_cpu.c:283, c_conexiones.c:263-274).
AccedeElDuenio ==
  \A i \in DOMAIN cpu_a_memoria :
    cpu_a_memoria[i].op \in {"WRITE_MEM", "READ_MEM"} =>
      \E q \in M!ParticionesDe(cpu_a_memoria[i].hilo[1]) :
        q.base = ParteInicial.base /\ q.limite = ParteInicial.limite

\* What the CPU asks memoria about is there when it is served, context and partition.
LoPedidoExiste == ContextoAlPedir /\ AccedeElDuenio

\* The start-up always gets the first thread dispatched: memoria serves what it needs
\* before the request for the unwritten PCB that may kill it (k_conexiones.c:248, 305).
ArranqueLlega == <>(a_cpu # << >>)

\* A system call the CPU decodes is served by the kernel, unless memoria has died:
\* neither side waits for the other for ever (ciclo_de_instruccion.c:121,
\* kernel_escucha_cpu_dispatch.c:10).
SyscallAtendida == C!Ejecuta(C!Syscalls) ~> (syscalls = 1 \/ ~m_viva)
=============================================================================
