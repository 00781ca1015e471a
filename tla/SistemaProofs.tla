--------------------------- MODULE SistemaProofs ---------------------------
(***************************************************************************)
(* Proofs about the system.  For each of its three components it is one of *)
(* the environments the component's module allows, so what KernelProofs,   *)
(* MemoriaProofs and CpuProofs prove of their modules holds of the system. *)
(* And the kernel, the CPU and memoria agree about the process they are    *)
(* all running: what each asks of the others is there when it is served.   *)
(***************************************************************************)
EXTENDS Sistema, TLAPS

\* A step of another process that leaves the kernel and its socket with memoria alone is
\* a stuttering step of the kernel.
LEMMA Tartamudeo == UNCHANGED kernel /\ UNCHANGED kernel_memoria => UNCHANGED K!vars
BY DEF kernel, kernel_memoria, K!vars, K!planificacion, K!procesos, K!hilos, K!canales,
       K!historia

\* An answer of escuchar_kernel is what Kernel expects of memoria.
LEMMA Respuesta ==
  ASSUME NEW op, NEW pedido, NEW t,
         \/ /\ pedido = "ASIGNAR_MEMORIA" /\ op = "CONFIRMAR_ESPACIO_PROCESO" /\ t = K!Nadie
         \/ /\ pedido = "HILO_READY" /\ op = "CONFIRMAR_CREACION_HILO"
            /\ t = Head(kernel_a_memoria).tid,
         Pide(pedido), Responder(op, t, 1), UNCHANGED kernel
  PROVE  K!MemoriaAtiende
BY DEF Pide, Responder, kernel, K!MemoriaAtiende, K!planificacion, K!procesos, K!hilos,
       K!historia

LEMMA PasoDeMemoria == EscucharKernel => K!MemoriaAtiende \/ UNCHANGED K!vars
<1>1. CASE AsignarMemoria
  <2>1. CASE m_viva'
    BY <1>1, <2>1, Respuesta DEF AsignarMemoria, Ajeno
  <2>2. CASE ~m_viva'
    BY <1>1, <2>2, Tartamudeo DEF AsignarMemoria, Ajeno
  <2> QED BY <2>1, <2>2
<1>2. CASE CrearHilo
  <2>1. CASE m_viva'
    BY <1>2, <2>1, Respuesta DEF CrearHilo, Ajeno
  <2>2. CASE ~m_viva'
    BY <1>2, <2>2, Tartamudeo DEF CrearHilo, Ajeno
  <2> QED BY <2>1, <2>2
<1>3. CASE FinalizarProceso
  BY <1>3 DEF FinalizarProceso, Pide, Ajeno, kernel, K!MemoriaAtiende, K!planificacion,
              K!procesos, K!hilos, K!historia
<1> QED BY <1>1, <1>2, <1>3 DEF EscucharKernel

LEMMA PasoDeKernel == [Next]_vars => [K!Next]_K!vars
<1> SUFFICES ASSUME [Next]_vars PROVE [K!Next]_K!vars
  OBVIOUS
<1>1. CASE Planificar
  BY <1>1 DEF Planificar, K!Next
<1>2. CASE EscucharMemoria
  BY <1>2 DEF EscucharMemoria, K!Next, K!EscuchaMemoria
<1>3. CASE Despachar
  BY <1>3 DEF Despachar, K!Next, K!EscuchaMemoria
<1>4. CASE AtenderSyscall
  BY <1>4 DEF AtenderSyscall, K!Next
<1>5. CASE SeguirSyscall
  BY <1>5 DEF SeguirSyscall, K!Next
<1>6. CASE EscucharKernel
  BY <1>6, PasoDeMemoria DEF K!Next
<1>7. CASE EscucharCpu \/ CpuEscuchaKernel \/ CpuEscuchaMemoria \/ Ciclo
  BY <1>7, Tartamudeo DEF EscucharCpu, CpuEscuchaKernel, CpuEscuchaMemoria, Ciclo
<1>8. CASE UNCHANGED vars
  BY <1>8, Tartamudeo DEF vars
<1> QED BY <1>1, <1>2, <1>3, <1>4, <1>5, <1>6, <1>7, <1>8 DEF Next

\* With memoria and the CPU as they are in the place of its environment, the kernel does
\* nothing but what Kernel says (escuchar_kernel.c:61-82, 283-286).
THEOREM Kernel_en_Sistema == Spec => ImplementaKernel
<1>1. Init => K!Init
  BY DEF Init
<1>2. QED BY <1>1, PasoDeKernel, PTL DEF Spec, ImplementaKernel, K!Spec
-----------------------------------------------------------------------------
(* What is proved of each of the three, about the one of the system.  KP, MP and CP are *)
(* K, M and CR with their proofs.                                                       *)

KP == INSTANCE KernelProofs WITH
        desfasado <- k_desfasado, viva <- k_viva,
        a_memoria <- kernel_a_memoria, de_memoria <- memoria_a_kernel,
        MemoriaResponde <- {FALSE}

MP == INSTANCE MemoriaProofs WITH
        Esquema <- "FIJAS", Algoritmo <- "FIRST", Tids <- 0 .. MaxTid,
        viva <- m_viva, pcb <- m_pcb, hilos <- m_hilos, espera <- m_espera

CP == INSTANCE CpuProofs WITH
        Programa <- [h \in Hilos |-> Instrucciones[h[3]]],
        Parte <- [h \in Hilos |-> ParteInicial],
        desfasado <- c_desfasado, viva <- c_viva,
        a_memoria <- cpu_a_memoria, de_memoria <- memoria_a_cpu,
        de_kernel <- IF a_cpu = << >> THEN << <<1, 0, guion>> >> ELSE kernel_a_cpu,
        a_kernel <- cpu_a_kernel

\* K and KP are the same kernel ...
LEMMA MismoKernel == K!Init = KP!Init /\ K!Next = KP!Next /\ (UNCHANGED K!vars) = (UNCHANGED KP!vars)
<1>1. K!Init = KP!Init
  BY Zenon DEF K!Pids, K!Nadie, K!Basura, K!Liberado, K!Escucha, K!SinCrear, K!ProcesoNuevo,
               K!Init, KP!Pids, KP!Nadie, KP!Basura, KP!Liberado, KP!Escucha, KP!SinCrear,
               KP!ProcesoNuevo, KP!Init
<1>2. (UNCHANGED K!vars) = (UNCHANGED KP!vars)
  BY Zenon DEF K!planificacion, K!procesos, K!hilos, K!canales, K!historia, K!vars,
               KP!planificacion, KP!procesos, KP!hilos, KP!canales, KP!historia, KP!vars
<1>3. K!LargoPlazo = KP!LargoPlazo
  BY Zenon DEF K!Nadie, K!Basura, K!procesos, K!hilos, K!historia, K!Msg, K!PedidoDeMemoria,
               K!LargoPlazo, KP!Nadie, KP!Basura, KP!procesos, KP!hilos, KP!historia, KP!Msg,
               KP!PedidoDeMemoria, KP!LargoPlazo
<1>4. K!EscuchaMemoria = KP!EscuchaMemoria
  BY Zenon DEF K!Pids, K!Nadie, K!Basura, K!procesos, K!hilos, K!canales, K!historia, K!Liberado,
               K!Msg, K!Posiciones, K!BuscarTcbs, K!AgregarHilo, K!Recibe, K!CrearHiloMain,
               K!ConfirmarEspacioProceso, K!PostLargoPlazo, K!ConfirmarCreacionHilo, K!CortoPlazo,
               K!EscuchaMemoria, KP!Pids, KP!Nadie, KP!Basura, KP!procesos, KP!hilos, KP!canales,
               KP!historia, KP!Liberado, KP!Msg, KP!Posiciones, KP!BuscarTcbs, KP!AgregarHilo,
               KP!Recibe, KP!CrearHiloMain, KP!ConfirmarEspacioProceso, KP!PostLargoPlazo,
               KP!ConfirmarCreacionHilo, KP!CortoPlazo, KP!EscuchaMemoria
<1>5. K!AtiendeSyscall = KP!AtiendeSyscall
  BY Zenon DEF K!Nadie, K!Basura, K!Tids, K!planificacion, K!procesos, K!hilos, K!canales,
               K!Liberado, K!Escucha, K!Msg, K!SinCrear, K!ProcesoNuevo, K!Posiciones,
               K!BuscarTcbs, K!AgregarHilo, K!Syscall, K!Invocador, K!ProcessCreate, K!NuevoTid,
               K!ThreadCreate, K!PasarAReady, K!Bloquear, K!ThreadJoin, K!BuscarMutex,
               K!NoExisteMutex, K!MutexCreate, K!MutexInexistente, K!MutexLock, K!MutexUnlock,
               K!DumpMemory, K!IO, K!FinalizarHilo, K!SinTocar, K!ThreadCancel, K!ThreadExit,
               K!ProcessExit, K!AtiendeSyscall, KP!Nadie, KP!Basura, KP!Tids, KP!planificacion,
               KP!procesos, KP!hilos, KP!canales, KP!Liberado, KP!Escucha, KP!Msg, KP!SinCrear,
               KP!ProcesoNuevo, KP!Posiciones, KP!BuscarTcbs, KP!AgregarHilo, KP!Syscall,
               KP!Invocador, KP!ProcessCreate, KP!NuevoTid, KP!ThreadCreate, KP!PasarAReady,
               KP!Bloquear, KP!ThreadJoin, KP!BuscarMutex, KP!NoExisteMutex, KP!MutexCreate,
               KP!MutexInexistente, KP!MutexLock, KP!MutexUnlock, KP!DumpMemory, KP!IO,
               KP!FinalizarHilo, KP!SinTocar, KP!ThreadCancel, KP!ThreadExit, KP!ProcessExit,
               KP!AtiendeSyscall
<1>6. K!FinIO = KP!FinIO
  BY Zenon DEF K!Basura, K!planificacion, K!procesos, K!canales, K!historia, K!Escucha, K!FinIO,
               K!RemoveFirst, K!RemoveAt, K!SelectInSeq, K!Min, KP!Basura, KP!planificacion,
               KP!procesos, KP!canales, KP!historia, KP!Escucha, KP!FinIO, KP!RemoveFirst,
               KP!RemoveAt, KP!SelectInSeq, KP!Min
<1>7. K!FinHilo = KP!FinHilo
  BY Zenon DEF K!Nadie, K!Basura, K!planificacion, K!procesos, K!historia, K!Liberado, K!Escucha,
               K!LeerRespuesta, K!Desbloqueables, K!EnPosiciones, K!FinHilo, K!Cardinality,
               KP!Nadie, KP!Basura, KP!planificacion, KP!procesos, KP!historia, KP!Liberado,
               KP!Escucha, KP!LeerRespuesta, KP!Desbloqueables, KP!EnPosiciones, KP!FinHilo,
               KP!Cardinality
<1>8. K!RespuestaFinProceso = KP!RespuestaFinProceso
  BY Zenon DEF K!Basura, K!planificacion, K!procesos, K!hilos, K!historia, K!Escucha,
               K!LeerRespuesta, K!RespuestaFinProceso, KP!Basura, KP!planificacion, KP!procesos,
               KP!hilos, KP!historia, KP!Escucha, KP!LeerRespuesta, KP!RespuestaFinProceso
<1>9. K!RecorrerHilos = KP!RecorrerHilos
  BY Zenon DEF K!Nadie, K!planificacion, K!historia, K!Msg, K!FinalizarHilo, K!SinTocar,
               K!DelProceso, K!RecorrerHilos, KP!Nadie, KP!planificacion, KP!historia, KP!Msg,
               KP!FinalizarHilo, KP!SinTocar, KP!DelProceso, KP!RecorrerHilos
<1>10. K!FinProceso = KP!FinProceso
  BY Zenon DEF K!Nadie, K!Basura, K!planificacion, K!hilos, K!historia, K!Escucha, K!Msg,
               K!PedidoDeMemoria, K!DelProceso, K!FinProceso, KP!Nadie, KP!Basura,
               KP!planificacion, KP!hilos, KP!historia, KP!Escucha, KP!Msg, KP!PedidoDeMemoria,
               KP!DelProceso, KP!FinProceso
<1>11. K!MemoriaAtiende = KP!MemoriaAtiende
  BY Zenon DEF K!Nadie, K!planificacion, K!procesos, K!hilos, K!historia, K!Msg, K!MemoriaAtiende,
               KP!Nadie, KP!planificacion, KP!procesos, KP!hilos, KP!historia, KP!Msg,
               KP!MemoriaAtiende
<1>12. K!Next = KP!Next
  BY <1>3, <1>4, <1>5, <1>6, <1>7, <1>8, <1>9, <1>10, <1>11, Zenon DEF K!Next, KP!Next, K!SigueSyscall, KP!SigueSyscall
<1> QED BY <1>1, <1>2, <1>12

\* ... M and MP the same memoria ...
LEMMA MismaMemoria == M!Init = MP!Init /\ M!Next = MP!Next /\ (UNCHANGED M!vars) = (UNCHANGED MP!vars)
<1>1. M!Init = MP!Init
  BY Zenon DEF M!Limite, M!NFijas, M!Disposicion, M!Inicio, M!ParticionesIniciales, M!Init,
               MP!Limite, MP!NFijas, MP!Disposicion, MP!Inicio, MP!ParticionesIniciales, MP!Init
<1>2. (UNCHANGED M!vars) = (UNCHANGED MP!vars)
  BY Zenon DEF M!vars, MP!vars
<1>3. M!Next = MP!Next
  BY Zenon DEF M!Limite, M!Candidatas, M!AntesEnBusqueda, M!EvaluarParticion, M!Ocupar,
               M!DividirParticion, M!Responder, M!AsignarParticionesFijas, M!AsignarFijasSinLugar,
               M!AsignarParticionesDinamicas, M!AsignarDinamicasSinLugar, M!CrearProceso,
               M!PedirProceso, M!PedirBasura, M!Liberar, M!ConsolidarParticionesLibres,
               M!BuscarParticionPorPid, M!FinalizarProceso, M!CrearHilo, M!TidEnviado,
               M!BuscarContexto, M!FinalizarHilo, M!Next, M!RemoveAt, MP!Limite, MP!Candidatas,
               MP!AntesEnBusqueda, MP!EvaluarParticion, MP!Ocupar, MP!DividirParticion,
               MP!Responder, MP!AsignarParticionesFijas, MP!AsignarFijasSinLugar,
               MP!AsignarParticionesDinamicas, MP!AsignarDinamicasSinLugar, MP!CrearProceso,
               MP!PedirProceso, MP!PedirBasura, MP!Liberar, MP!ConsolidarParticionesLibres,
               MP!BuscarParticionPorPid, MP!FinalizarProceso, MP!CrearHilo, MP!TidEnviado,
               MP!BuscarContexto, MP!FinalizarHilo, MP!Next, MP!RemoveAt
<1> QED BY <1>1, <1>2, <1>3

\* ... and CR and CP the same CPU.
LEMMA MismaCpu == CR!Init = CP!Init /\ CR!Next = CP!Next /\ (UNCHANGED CR!vars) = (UNCHANGED CP!vars)
<1>1. CR!Init = CP!Init
  BY Zenon DEF CR!Init, CP!Init
<1>2. (UNCHANGED CR!vars) = (UNCHANGED CP!vars)
  BY Zenon DEF CR!compartido, CR!vars, CP!compartido, CP!vars
<1>3. CR!RecibirTid = CP!RecibirTid
  BY Zenon DEF CR!Msg, CR!RecibirTid, CP!Msg, CP!RecibirTid
<1>4. CR!EscuchaMemoria = CP!EscuchaMemoria
  BY Zenon DEF CR!Recibe, CR!ReciboContexto, CR!RecibirInstruccionDeMemoria, CR!ConfirmarContexto,
               CR!Descartar, CR!EscuchaMemoria, CP!Recibe, CP!ReciboContexto,
               CP!RecibirInstruccionDeMemoria, CP!ConfirmarContexto, CP!Descartar,
               CP!EscuchaMemoria
<1>5. CR!CicloDeInstruccion = CP!CicloDeInstruccion
  BY Zenon DEF CR!Syscalls, CR!Olvidadas, CR!compartido, CR!Msg, CR!En, CR!Fetch, CR!Decodificar,
               CR!Decode, CR!Ejecuta, CR!Avanzar, CR!ActualizarContexto, CR!ExecuteSyscall,
               CR!EnviarAlKernel, CR!EnviarYParar, CR!EnviarSyscall, CR!ExecuteRegistros,
               CR!ExecuteJnz, CR!ExecuteDesconocida, CR!DireccionFisica, CR!DentroDeLimites,
               CR!AccedeAMemoria, CR!SegmentationFault, CR!WriteMem, CR!ReadMem,
               CR!LeerDesdeMemoria, CR!CicloDeInstruccion, CP!Syscalls, CP!Olvidadas,
               CP!compartido, CP!Msg, CP!En, CP!Fetch, CP!Decodificar, CP!Decode, CP!Ejecuta,
               CP!Avanzar, CP!ActualizarContexto, CP!ExecuteSyscall, CP!EnviarAlKernel,
               CP!EnviarYParar, CP!EnviarSyscall, CP!ExecuteRegistros, CP!ExecuteJnz,
               CP!ExecuteDesconocida, CP!DireccionFisica, CP!DentroDeLimites, CP!AccedeAMemoria,
               CP!SegmentationFault, CP!WriteMem, CP!ReadMem, CP!LeerDesdeMemoria,
               CP!CicloDeInstruccion
<1>6. CR!Memoria = CP!Memoria
  BY Zenon DEF CR!compartido, CR!Msg, CR!EntraEnMemoria, CR!HayInstruccion, CR!EscucharCpu,
               CR!DevolverContextoEjecucion, CR!ActualizarContextoDeEjecucion, CR!Responde,
               CR!ObtenerInstruccion, CR!AccesoAMemoria, CR!Memoria, CP!compartido, CP!Msg,
               CP!EntraEnMemoria, CP!HayInstruccion, CP!EscucharCpu, CP!DevolverContextoEjecucion,
               CP!ActualizarContextoDeEjecucion, CP!Responde, CP!ObtenerInstruccion,
               CP!AccesoAMemoria, CP!Memoria
<1>7. CR!Next = CP!Next
  BY <1>3, <1>4, <1>5, <1>6, Zenon DEF CR!Next, CP!Next
<1> QED BY <1>1, <1>2, <1>7

LEMMA KernelEnOrden == Spec => [](KP!Fase /\ KP!IInv)
<1>1. K!Init => KP!Init
  BY MismoKernel
<1>2. [K!Next]_K!vars => [KP!Next]_KP!vars
  BY MismoKernel
<1>3. Spec => KP!Spec
  BY <1>1, <1>2, Kernel_en_Sistema, PTL DEF ImplementaKernel, K!Spec, KP!Spec
<1>4. KP!Spec => []KP!Fase
  BY KP!Fases, CotasValidas
<1>5. KP!Spec => []KP!IInv
  BY KP!EnOrden, CotasValidas
<1> QED BY <1>3, <1>4, <1>5, PTL

\* What Memoria and Cpu assume of their constants.
LEMMA MemoriaConfigurada ==
  /\ Modulo \in Nat /\ TamMemoria \in 1 .. Modulo - 1
  /\ ParticionesFijas \in Seq(Nat \ {0})
  /\ Pids \subseteq Nat \ {0} /\ 0 .. MaxTid \subseteq Nat
  /\ Tamanios \subseteq Nat /\ PidBasura \subseteq Nat
  /\ \E ini \in [1 .. MP!NFijas -> 0 .. TamMemoria] : MP!Disposicion(ini)
<1>1. M!NFijas = MP!NFijas
  BY DEF M!NFijas, MP!NFijas
<1>2. \A ini : M!Disposicion(ini) = MP!Disposicion(ini)
  BY Zenon DEF M!Disposicion, MP!Disposicion, M!NFijas, MP!NFijas
<1>3. \E ini \in [1 .. MP!NFijas -> 0 .. TamMemoria] : MP!Disposicion(ini)
  BY <1>1, <1>2, MemoriaValida, Zenon
<1> QED BY <1>3, MemoriaValida, CotasValidas DEF Pids

LEMMA CpuConfigurada ==
  /\ Modulo \in Nat \ {0} /\ TamMemoria \in 0 .. Modulo - 1
  /\ Nada \notin Hilos
  /\ [h \in Hilos |-> ParteInicial] \in
       [Hilos -> [base : 0 .. Modulo - 1, limite : 0 .. Modulo - 1]]
  /\ [h \in Hilos |-> Instrucciones[h[3]]] \in [Hilos -> Seq(CP!Instruccion)]
<1>1. C!Instruccion = CP!Instruccion
  BY DEF C!Instruccion, CP!Instruccion, C!Syscalls, CP!Syscalls, C!Olvidadas, CP!Olvidadas
<1>2. \A h \in Hilos : Instrucciones[h[3]] \in Seq(CP!Instruccion)
  BY <1>1, CpuValida DEF Hilos
<1> QED BY <1>2, CpuValida, MemoriaValida

\* What MemoriaProofs asks of a configuration that is ESQUEMA=FIJAS.
PidsLimpios == PidBasura \cap Pids = {}

LEMMA MemoriaInicial == ASSUME PidsLimpios PROVE Init => MP!IFijas
<1>1. MP!Fijas
  BY DEF MP!Fijas, PidsLimpios
<1>2. MP!Init => MP!IFijas
  BY <1>1, MP!InitIFijas, MemoriaConfigurada
<1> QED BY <1>2, MismaMemoria DEF Init

LEMMA MemoriaPaso == ASSUME PidsLimpios PROVE MP!IFijas /\ [M!Next]_M!vars => MP!IFijas'
<1>1. MP!Fijas
  BY DEF MP!Fijas, PidsLimpios
<1>2. MP!IFijas /\ [MP!Next]_MP!vars => MP!IFijas'
  BY <1>1, MP!NextIFijas, MemoriaConfigurada
<1> QED BY <1>2, MismaMemoria

LEMMA CpuInicial == Init => CR!Init /\ CP!IInv
<1>1. CP!Init => CP!IInv
  BY CP!Inicio, CpuConfigurada
<1>2. Init => CR!Init
  BY DEF Init, K!Init, CR!Init, Hilos
<1> QED BY <1>1, <1>2, MismaCpu

LEMMA CpuPaso == CP!IInv /\ [CR!Next]_CR!vars => CP!IInv'
<1>1. CP!IInv /\ [CP!Next]_CP!vars => CP!IInv'
  BY CP!IInvInductiva, CpuConfigurada
<1> QED BY <1>1, MismaCpu
-----------------------------------------------------------------------------
(* The inductive invariant of what joins the three *)

Hay(s, op) == \E i \in DOMAIN s : s[i].op = op

Asignares == {i \in DOMAIN kernel_a_memoria : kernel_a_memoria[i].op = "ASIGNAR_MEMORIA"}
Otros     == {i \in DOMAIN kernel_a_memoria : kernel_a_memoria[i].op # "ASIGNAR_MEMORIA"}

\* The planner's token: in its semaphore, in a request or about to be posted.
Turno ==
  /\ sem_plani_largo_plazo \in {0, 1}
  /\ \A i, j \in Asignares : i = j
  /\ sem_plani_largo_plazo = 1 => Asignares = {} /\ oyente # "post"
  /\ oyente = "post" => Asignares = {}

PorPedir == \/ sem_plani_largo_plazo = 1 \/ oyente = "post" \/ Asignares # {}
            \/ lista_tcbs = << >>

\* The processes memoria has not been asked for, and the first one.
Procesos ==
  /\ \A i \in Asignares :
       \/ kernel_a_memoria[i].pid = K!Basura
       \/ /\ kernel_a_memoria[i].pid \in Pids
          /\ m_pcb[kernel_a_memoria[i].pid].estado = "NEW"
  /\ PorPedir => \A p \in Pids \ {1} : m_pcb[p].estado = "NEW"
  /\ lista_tcbs # << >> => cola_new \in Seq(Pids \ {1})
  /\ lista_tcbs = << >> /\ memoria_a_kernel = << >> =>
       m_pcb[1].estado = "NEW" /\ lista_particiones \in M!ParticionesIniciales
  /\ lista_tcbs # << >> \/ memoria_a_kernel # << >> => m_pcb[1].estado # "NEW"
  /\ m_pcb[1].tam = TamPrimero

EsFin(c) == c # << >> /\ c[1].op = "PROCESS_EXIT"

\* Of the other requests there is one at a time.
Pedidos ==
  /\ \A i, j \in Otros : i = j
  /\ \A i \in Otros :
       LET m == kernel_a_memoria[i]
       IN /\ m.pid = 1 /\ m_pcb[1].estado = "READY"
          /\ \/ /\ m.op = "HILO_READY" /\ m.tid \in 0 .. MaxTid
                /\ m_hilos[<<1, m.tid>>] = "NO"
                /\ syscalls = 0 => m.tid = 0
             \/ m.op = "FINALIZAR_PROCESO" /\ syscalls = 1 /\ EsFin(cpu_a_kernel)
  /\ Otros # {} => syscalls = 1 \/ (memoria_a_kernel = << >> /\ oyente # "corto")
  /\ m_pcb[1].estado = "EXIT" => syscalls = 1 /\ EsFin(cpu_a_kernel)

\* The contexts: of no thread before its HILO_READY, and of the main one from it on.
Contextos ==
  /\ syscalls = 0 => \A t \in 1 .. MaxTid : m_hilos[<<1, t>>] = "NO"
  /\ lista_tcbs = << >> => m_hilos[<<1, 0>>] = "NO"
  /\ oyente = "corto" \/ Hay(memoria_a_kernel, "CONFIRMAR_CREACION_HILO") =>
       m_hilos[<<1, 0>>] = "VIVO"
  /\ m_hilos[<<1, 0>>] = "VIVO" => ContextoDe(<<1, 0>>)
  /\ m_pcb[1].estado = "READY" =>
       \E i \in DOMAIN lista_particiones :
         /\ M!EsDe(i, 1)
         /\ lista_particiones[i].base = ParteInicial.base
         /\ lista_particiones[i].limite = ParteInicial.limite

\* The kernel: nothing of it goes past what memoria answers.
LadoKernel ==
  /\ \A i \in DOMAIN memoria_a_kernel :
       /\ memoria_a_kernel[i].op \in {"CONFIRMAR_ESPACIO_PROCESO", "CONFIRMAR_CREACION_HILO"}
       /\ memoria_a_kernel[i].bit = 1
  /\ despacho.fase \in {"escucha", "io", "fin_proceso"}
  /\ syscalls \in Nat /\ syscalls <= Len(cpu_a_kernel)
  /\ syscalls = 0 => despacho = K!Escucha
  /\ a_cpu # << >> => lista_tcbs # << >>
  /\ a_cpu # << >> /\ syscalls = 0 =>
       \E d \in Dirs : tcb[d].pid = 1 /\ tcb[d].tid = 0 /\ tcb[d].estado = "EXEC"

Quieta == /\ ciclo.fase = "sin hilo" /\ cpu_a_memoria = << >> /\ memoria_a_cpu = << >>
          /\ cpu_a_kernel = << >>

SinAccesos == ~Hay(cpu_a_memoria, "WRITE_MEM") /\ ~Hay(cpu_a_memoria, "READ_MEM")

\* The CPU: one call, and after an access it waits for memoria to take it.
LadoCpu ==
  /\ a_cpu = << >> => kernel_a_cpu = << >> /\ Quieta
  /\ ~Quieta => actual \in Hilos
  /\ cpu_a_kernel \in Seq([op : C!Syscalls \cup {"PROCESS_EXIT"}, hilo : Hilos])
  /\ Len(cpu_a_kernel) <= 1
  /\ cpu_a_kernel # << >> =>
       ~c_viva \/ (control_key = 0 /\ ciclo.fase \in {"ciclo", "fin"})
  /\ ciclo.fase = "sem_syscall" => ciclo.inst.op \in C!Syscalls
  /\ EsFin(cpu_a_kernel) => ~c_viva /\ SinAccesos
  /\ c_viva /\ ciclo.fase = "execute" => SinAccesos
  /\ c_viva /\ ciclo.fase = "fetch" =>
       \/ SinAccesos
       \/ cpu_a_memoria[Len(cpu_a_memoria)].op = "OBTENER_INSTRUCCION"

IInv == Turno /\ Procesos /\ Pedidos /\ Contextos /\ LadoKernel /\ LadoCpu

\* Where the kernel is, by what KernelProofs proves of it.
Pidiendo ==
  /\ lista_tcbs = << >> /\ a_cpu = << >> /\ oyente = "escucha" /\ cola_new = <<1>>
  /\ despacho = K!Escucha /\ pcb[1] = K!ProcesoNuevo
  /\ \/ /\ sem_plani_largo_plazo = 1 /\ kernel_a_memoria = << >> /\ memoria_a_kernel = << >>
     \/ /\ sem_plani_largo_plazo = 0 /\ memoria_a_kernel = << >>
        /\ kernel_a_memoria = <<K!Msg("ASIGNAR_MEMORIA", 1, -1, -1)>>
     \/ /\ sem_plani_largo_plazo = 0 /\ kernel_a_memoria = << >>
        /\ \E bit : memoria_a_kernel = <<K!Msg("CONFIRMAR_ESPACIO_PROCESO", 1, -1, bit)>>

Creando ==
  /\ lista_tcbs # << >> /\ a_cpu = << >> /\ oyente \in {"post", "escucha"} /\ cola_new = << >>
  /\ despacho = K!Escucha
  /\ \/ /\ memoria_a_kernel = << >> /\ kernel_a_memoria # << >>
        /\ Head(kernel_a_memoria).op = "HILO_READY"
     \/ /\ memoria_a_kernel # << >>
        /\ Head(memoria_a_kernel).op = "CONFIRMAR_CREACION_HILO"

Listo ==
  /\ lista_tcbs # << >> /\ a_cpu = << >> /\ oyente = "corto"
  /\ despacho = K!Escucha
  /\ \E d \in Dirs : /\ lista_ready = <<d>> /\ tcb[d].estado = "READY"
                     /\ tcb[d].pid = 1 /\ tcb[d].tid = 0

Despachado == a_cpu # << >> /\ oyente = "corto" /\ TCBaPlanificar = 0

LEMMA Donde == KP!Fase => Pidiendo \/ Creando \/ Listo \/ Despachado
<1>1. KP!EnNew => Pidiendo
  BY DEF KP!EnNew, KP!Quieto, KP!ConPedidoInicial, Pidiendo, KP!Escucha, K!Escucha, KP!Msg, K!Msg,
         KP!Nadie, KP!ProcesoNuevo, K!ProcesoNuevo, KP!SinCrear, K!SinCrear, KP!Basura, K!Basura
<1>2. KP!Creando => Creando
  <2> SUFFICES ASSUME KP!Creando PROVE Creando
    OBVIOUS
  <2>1. PICK d \in Dirs : lista_tcbs = <<d>>
    BY DEF KP!Creando, KP!HiloCreado
  <2>2. lista_tcbs # << >>
    BY <2>1
  <2>3. KP!Alta.op = "HILO_READY" /\ KP!AltaOk.op = "CONFIRMAR_CREACION_HILO"
    BY DEF KP!Alta, KP!AltaOk, KP!Msg
  <2> QED BY <2>2, <2>3 DEF KP!Creando, KP!AltaPrimero, KP!Quieto, Creando, KP!Escucha, K!Escucha,
             KP!Basura, K!Basura
<1>3. KP!Listo => Listo
  <2> SUFFICES ASSUME KP!Listo PROVE Listo
    OBVIOUS
  <2>1. PICK d \in Dirs :
          lista_tcbs = <<d>>
          /\ tcb[d] = [KP!Liberado EXCEPT !.pid = 1, !.tid = 0, !.estado = "READY"]
    BY DEF KP!Listo, KP!HiloCreado
  <2>2. lista_tcbs # << >>
    BY <2>1
  <2>3. tcb[d].estado = "READY" /\ tcb[d].pid = 1 /\ tcb[d].tid = 0
    BY <2>1 DEF KP!Liberado
  <2> QED BY <2>1, <2>2, <2>3 DEF KP!Listo, KP!Quieto, Listo, KP!Escucha, K!Escucha, KP!Basura, K!Basura
<1>4. KP!Despachado => Despachado
  BY DEF KP!Despachado, Despachado
<1> QED BY <1>1, <1>2, <1>3, <1>4 DEF KP!Fase

-----------------------------------------------------------------------------
(* The socket of the kernel with memoria *)

LEMMA Manda ==
  ASSUME kernel_a_memoria \in Seq(KP!Mensaje), NEW m \in KP!Mensaje,
         kernel_a_memoria' = Append(kernel_a_memoria, m)
  PROVE  /\ m.op = "ASIGNAR_MEMORIA" =>
              /\ Otros' = Otros /\ \A i \in Otros : kernel_a_memoria'[i] = kernel_a_memoria[i]
              /\ Asignares = {} =>
                   /\ \A i, j \in Asignares' : i = j
                   /\ \A i \in Asignares' : kernel_a_memoria'[i] = m
         /\ m.op # "ASIGNAR_MEMORIA" =>
              /\ Asignares' = Asignares
              /\ \A i \in Asignares : kernel_a_memoria'[i] = kernel_a_memoria[i]
              /\ Otros = {} =>
                   /\ \A i, j \in Otros' : i = j
                   /\ \A i \in Otros' : kernel_a_memoria'[i] = m
<1> DEFINE n == Len(kernel_a_memoria)
<1>1. /\ n \in Nat /\ DOMAIN kernel_a_memoria = 1 .. n /\ DOMAIN kernel_a_memoria' = 1 .. n + 1
      /\ \A i \in 1 .. n : kernel_a_memoria'[i] = kernel_a_memoria[i]
      /\ kernel_a_memoria'[n + 1] = m
  OBVIOUS
<1> HIDE DEF n
<1>2. /\ \A i \in DOMAIN kernel_a_memoria :
           i \in DOMAIN kernel_a_memoria' /\ kernel_a_memoria'[i] = kernel_a_memoria[i]
      /\ \A i \in DOMAIN kernel_a_memoria' :
           \/ i \in DOMAIN kernel_a_memoria /\ kernel_a_memoria'[i] = kernel_a_memoria[i]
           \/ i = n + 1 /\ kernel_a_memoria'[i] = m
  BY <1>1
<1>3. CASE m.op = "ASIGNAR_MEMORIA"
  BY <1>2, <1>3 DEF Otros, Asignares
<1>4. CASE m.op # "ASIGNAR_MEMORIA"
  BY <1>2, <1>4 DEF Otros, Asignares
<1> QED BY <1>3, <1>4

LEMMA Saca ==
  ASSUME kernel_a_memoria \in Seq(KP!Mensaje), kernel_a_memoria # << >>,
         kernel_a_memoria' = Tail(kernel_a_memoria)
  PROVE  /\ Head(kernel_a_memoria) = kernel_a_memoria[1]
         /\ \A i \in Asignares' :
              i \in Int /\ i + 1 \in Asignares /\ kernel_a_memoria'[i] = kernel_a_memoria[i + 1]
         /\ \A i \in Otros' :
              i \in Int /\ i + 1 \in Otros /\ kernel_a_memoria'[i] = kernel_a_memoria[i + 1]
         /\ Head(kernel_a_memoria).op = "ASIGNAR_MEMORIA" =>
              1 \in Asignares /\ ((\A i, j \in Asignares : i = j) => Asignares' = {})
         /\ Head(kernel_a_memoria).op # "ASIGNAR_MEMORIA" =>
              1 \in Otros /\ ((\A i, j \in Otros : i = j) => Otros' = {})
<1> DEFINE n == Len(kernel_a_memoria)
<1>1. /\ n \in Nat /\ DOMAIN kernel_a_memoria = 1 .. n /\ n # 0
      /\ DOMAIN kernel_a_memoria' = 1 .. n - 1
      /\ \A i \in 1 .. n - 1 : kernel_a_memoria'[i] = kernel_a_memoria[i + 1]
      /\ Head(kernel_a_memoria) = kernel_a_memoria[1]
  OBVIOUS
<1> HIDE DEF n
<1>2. /\ 1 \in DOMAIN kernel_a_memoria
      /\ \A i \in DOMAIN kernel_a_memoria' :
           /\ i \in Int /\ i + 1 \in DOMAIN kernel_a_memoria /\ i + 1 # 1
           /\ kernel_a_memoria'[i] = kernel_a_memoria[i + 1]
  BY <1>1
<1>3. /\ \A i \in Asignares' :
           /\ i \in Int /\ i + 1 \in Asignares /\ kernel_a_memoria'[i] = kernel_a_memoria[i + 1]
           /\ i + 1 # 1
      /\ \A i \in Otros' :
           /\ i \in Int /\ i + 1 \in Otros /\ kernel_a_memoria'[i] = kernel_a_memoria[i + 1]
           /\ i + 1 # 1
  BY <1>2 DEF Otros, Asignares
<1>4. Head(kernel_a_memoria).op = "ASIGNAR_MEMORIA" => 1 \in Asignares
  BY <1>1, <1>2 DEF Asignares
<1>5. Head(kernel_a_memoria).op # "ASIGNAR_MEMORIA" => 1 \in Otros
  BY <1>1, <1>2 DEF Otros
<1> QED BY <1>1, <1>3, <1>4, <1>5

LEMMA Tipado ==
  ASSUME KP!IInv
  PROVE  /\ kernel_a_memoria \in Seq(KP!Mensaje) /\ memoria_a_kernel \in Seq(KP!Mensaje)
         /\ pid \in Nat \ {0} /\ cola_new \in Seq(Int) /\ lista_tcbs \in Seq(Dirs)
BY DEF KP!IInv, KP!Tipos

LEMMA MensajeTipo ==
  ASSUME NEW op \in {"ASIGNAR_MEMORIA", "HILO_READY", "FINALIZAR_PROCESO",
                     "CONFIRMAR_ESPACIO_PROCESO", "CONFIRMAR_CREACION_HILO"},
         NEW p \in Int, NEW t \in Int, NEW b \in Int
  PROVE  /\ K!Msg(op, p, t, b) \in KP!Mensaje
         /\ K!Msg(op, p, t, b).op = op /\ K!Msg(op, p, t, b).pid = p
         /\ K!Msg(op, p, t, b).tid = t /\ K!Msg(op, p, t, b).bit = b
BY DEF K!Msg, KP!Mensaje, KP!Ops

\* Before the dispatch the CPU has nothing to do.
LEMMA SinCpu == ASSUME IInv, a_cpu = << >> PROVE syscalls = 0 /\ cpu_a_kernel = << >>
<1>1. cpu_a_kernel = << >>
  BY DEF IInv, LadoCpu, Quieta
<1>2. syscalls \in Nat /\ syscalls <= Len(cpu_a_kernel)
  BY DEF IInv, LadoKernel
<1>3. Len(<< >>) = 0
  OBVIOUS
<1> QED BY <1>1, <1>2, <1>3

-----------------------------------------------------------------------------
(* The kernel *)

LEMMA PlanificarPaso == ASSUME KP!Fase, KP!IInv, IInv, Planificar PROVE IInv'
<1> DEFINE m == K!PedidoDeMemoria
<1>0. /\ sem_plani_largo_plazo > 0 /\ sem_plani_largo_plazo' = sem_plani_largo_plazo - 1
      /\ kernel_a_memoria' = Append(kernel_a_memoria, m)
      /\ UNCHANGED <<oyente, a_cpu, cola_new, tcb, lista_tcbs, memoria_a_kernel, syscalls, despacho>>
      /\ UNCHANGED <<memoria, cpu, cpu_memoria, kernel_cpu, guion>>
  BY DEF Planificar, K!LargoPlazo, K!procesos, K!hilos, K!historia
<1>1. /\ sem_plani_largo_plazo = 1 /\ sem_plani_largo_plazo' = 0 /\ Asignares = {}
      /\ oyente # "post"
  BY <1>0 DEF IInv, Turno
<1>2. \A p \in Pids \ {1} : m_pcb[p].estado = "NEW"
  BY <1>1 DEF IInv, Procesos, PorPedir
<1>3. /\ m \in KP!Mensaje /\ m.op = "ASIGNAR_MEMORIA"
      /\ m.pid = IF cola_new = << >> THEN 0 ELSE Head(cola_new)
  <2> DEFINE p == IF cola_new = << >> THEN 0 ELSE Head(cola_new)
  <2>1. p \in Int
    BY Tipado
  <2>2. m = K!Msg("ASIGNAR_MEMORIA", p, -1, -1)
    BY DEF K!PedidoDeMemoria, K!Nadie, K!Basura
  <2> HIDE DEF p
  <2>3. m \in KP!Mensaje /\ m.op = "ASIGNAR_MEMORIA" /\ m.pid = p
    BY <2>1, <2>2, MensajeTipo
  <2> QED BY <2>3 DEF p
<1> HIDE DEF m
<1>4. \/ m.pid = K!Basura
      \/ m.pid \in Pids /\ m_pcb[m.pid].estado = "NEW"
  <2>1. CASE cola_new = << >>
    BY <1>3, <2>1 DEF K!Basura
  <2>2. CASE cola_new # << >> /\ lista_tcbs # << >>
    <3>1. cola_new \in Seq(Pids \ {1})
      BY <2>2 DEF IInv, Procesos
    <3>2. Head(cola_new) \in Pids \ {1}
      BY <3>1, <2>2
    <3> QED BY <1>2, <1>3, <2>2, <3>2
  <2>3. CASE lista_tcbs = << >>
    <3>1. Pidiendo
      BY <2>3, Donde DEF Creando, Listo, Despachado, IInv, LadoKernel
    <3>2. memoria_a_kernel = << >> /\ cola_new = <<1>>
      BY <1>1, <3>1 DEF Pidiendo
    <3>3. m_pcb[1].estado = "NEW"
      BY <2>3, <3>2 DEF IInv, Procesos
    <3>4. Head(cola_new) = 1 /\ cola_new # << >>
      BY <3>2
    <3> QED BY <1>3, <3>3, <3>4, CotasValidas DEF Pids
  <2> QED BY <2>1, <2>2, <2>3
<1>5. /\ Otros' = Otros /\ \A i \in Otros : kernel_a_memoria'[i] = kernel_a_memoria[i]
      /\ \A i, j \in Asignares' : i = j
      /\ \A i \in Asignares' : kernel_a_memoria'[i] = m
  BY <1>0, <1>1, <1>3, Tipado, Manda
<1>6. Turno'
  BY <1>0, <1>1, <1>5 DEF IInv, Turno
<1>7. Procesos'
  BY <1>0, <1>2, <1>4, <1>5 DEF IInv, Procesos, memoria
<1>8. Pedidos'
  BY <1>0, <1>5 DEF IInv, Pedidos, memoria, kernel_cpu
<1>9. Contextos'
  BY <1>0 DEF IInv, Contextos, ContextoDe, Hay, M!EsDe, memoria
<1>10. LadoKernel'
  BY <1>0 DEF IInv, LadoKernel, kernel_cpu
<1>11. LadoCpu'
  BY <1>0 DEF IInv, LadoCpu, Quieta, SinAccesos, Hay, EsFin, cpu, cpu_memoria, kernel_cpu
<1> QED BY <1>6, <1>7, <1>8, <1>9, <1>10, <1>11 DEF IInv

LEMMA EspacioPaso ==
  ASSUME KP!Fase, KP!IInv, MP!IFijas, IInv, K!ConfirmarEspacioProceso,
         UNCHANGED <<memoria, cpu, cpu_memoria, kernel_cpu, guion>>
  PROVE  IInv'
<1>0. /\ oyente = "escucha" /\ memoria_a_kernel # << >>
      /\ Head(memoria_a_kernel).op = "CONFIRMAR_ESPACIO_PROCESO"
      /\ memoria_a_kernel' = Tail(memoria_a_kernel)
      /\ UNCHANGED <<a_cpu, syscalls, despacho>>
  BY DEF K!ConfirmarEspacioProceso, K!Recibe, K!historia
<1>1. Pidiendo
  BY <1>0, Donde DEF Creando, Listo, Despachado
<1>2. PICK bit : memoria_a_kernel = <<K!Msg("CONFIRMAR_ESPACIO_PROCESO", 1, -1, bit)>>
  BY <1>0, <1>1 DEF Pidiendo
<1>3. /\ Head(memoria_a_kernel) = memoria_a_kernel[1] /\ 1 \in DOMAIN memoria_a_kernel
      /\ memoria_a_kernel' = << >>
  BY <1>0, <1>2
<1>4. Head(memoria_a_kernel).bit = 1 /\ Head(memoria_a_kernel).pid = 1
  BY <1>2, <1>3 DEF IInv, LadoKernel, K!Msg
<1>5. /\ kernel_a_memoria = << >> /\ sem_plani_largo_plazo = 0 /\ lista_tcbs = << >>
      /\ cola_new = <<1>> /\ pcb[1].estado = "NEW" /\ pcb[1].tid_contador = 0 /\ a_cpu = << >>
  BY <1>0, <1>1, <1>2 DEF Pidiendo, K!ProcesoNuevo, K!SinCrear
<1>6. /\ cola_new' = << >> /\ lista_tcbs' # << >> /\ oyente' = "post"
      /\ kernel_a_memoria' = Append(kernel_a_memoria, K!Msg("HILO_READY", 1, 0, -1))
      /\ UNCHANGED sem_plani_largo_plazo
  <2>1. /\ K!CrearHiloMain(1) /\ UNCHANGED sem_plani_largo_plazo
    BY <1>4 DEF K!ConfirmarEspacioProceso
  <2>2. Head(cola_new) = 1 /\ Tail(cola_new) = << >> /\ cola_new # << >> /\ 1 \in Pids
    BY <1>5, CotasValidas DEF Pids
  <2>3. /\ cola_new' = << >> /\ (\E d \in Dirs : lista_tcbs' = Append(lista_tcbs, d))
        /\ kernel_a_memoria' = Append(kernel_a_memoria, K!Msg("HILO_READY", 1, 0, -1))
        /\ oyente' = "post"
    BY <1>5, <2>1, <2>2 DEF K!CrearHiloMain, K!AgregarHilo, K!Nadie, K!Pids, Pids
  <2>4. lista_tcbs' # << >>
    BY <1>5, <2>3
  <2> QED BY <2>1, <2>3, <2>4
<1> DEFINE m == K!Msg("HILO_READY", 1, 0, -1)
<1>7. m \in KP!Mensaje /\ m.op = "HILO_READY" /\ m.pid = 1 /\ m.tid = 0
  BY MensajeTipo
<1> HIDE DEF m
<1>8. Asignares = {} /\ Otros = {}
  BY <1>5 DEF Asignares, Otros
<1>9. /\ Asignares' = {}
      /\ \A i, j \in Otros' : i = j
      /\ \A i \in Otros' : kernel_a_memoria'[i] = m
  BY <1>6, <1>7, <1>8, Tipado, Manda DEF m
<1>10. syscalls = 0 /\ cpu_a_kernel = << >>
  BY <1>5, SinCpu
<1>11. m_pcb[1].estado = "READY"
  <2>1. m_pcb[1].estado \in {"NEW", "READY", "EXIT"}
    BY CotasValidas DEF MP!IFijas, MP!TypeOK, Pids
  <2>2. m_pcb[1].estado # "NEW"
    BY <1>0 DEF IInv, Procesos
  <2>3. m_pcb[1].estado # "EXIT"
    BY <1>10 DEF IInv, Pedidos
  <2> QED BY <2>1, <2>2, <2>3
<1>12. m_hilos[<<1, 0>>] = "NO"
  BY <1>5 DEF IInv, Contextos
<1>13. Turno'
  BY <1>5, <1>6, <1>9 DEF IInv, Turno
<1>14. Procesos'
  <2>1. << >> \in Seq(Pids \ {1})
    OBVIOUS
  <2>2. \A p \in Pids \ {1} : m_pcb[p].estado = "NEW"
    BY <1>5 DEF IInv, Procesos, PorPedir
  <2> QED BY <1>6, <1>9, <1>11, <2>1, <2>2 DEF IInv, Procesos, memoria
<1>15. Pedidos'
  <2>1. UNCHANGED <<m_pcb, m_hilos, syscalls, cpu_a_kernel>>
    BY <1>0 DEF memoria, kernel_cpu
  <2>2. 0 \in 0 .. MaxTid
    BY CotasValidas
  <2>3. ASSUME NEW i \in Otros'
        PROVE  LET q == kernel_a_memoria'[i]
               IN /\ q.pid = 1 /\ m_pcb'[1].estado = "READY"
                  /\ q.op = "HILO_READY" /\ q.tid \in 0 .. MaxTid
                  /\ m_hilos'[<<1, q.tid>>] = "NO" /\ q.tid = 0
    BY <1>7, <1>9, <1>11, <1>12, <2>1, <2>2
  <2>4. memoria_a_kernel' = << >> /\ oyente' # "corto"
    BY <1>3, <1>6
  <2>5. m_pcb'[1].estado # "EXIT"
    BY <1>11, <2>1
  <2> QED BY <1>9, <2>3, <2>4, <2>5 DEF Pedidos
<1>16. Contextos'
  BY <1>0, <1>3, <1>6 DEF IInv, Contextos, ContextoDe, Hay, M!EsDe, memoria
<1>17. LadoKernel'
  BY <1>0, <1>3, <1>5 DEF IInv, LadoKernel, kernel_cpu
<1>18. LadoCpu'
  BY <1>0 DEF IInv, LadoCpu, Quieta, SinAccesos, Hay, EsFin, cpu, cpu_memoria, kernel_cpu
<1> QED BY <1>13, <1>14, <1>15, <1>16, <1>17, <1>18 DEF IInv

LEMMA PostPaso ==
  ASSUME KP!Fase, KP!IInv, IInv, K!PostLargoPlazo,
         UNCHANGED <<memoria, cpu, cpu_memoria, kernel_cpu, guion>>
  PROVE  IInv'
<1>0. /\ oyente = "post" /\ oyente' = "escucha"
      /\ sem_plani_largo_plazo' = sem_plani_largo_plazo + 1
      /\ UNCHANGED <<a_cpu, cola_new, tcb, lista_tcbs, kernel_a_memoria, memoria_a_kernel,
                     syscalls, despacho>>
  BY DEF K!PostLargoPlazo, K!procesos, K!hilos, K!canales, K!historia
<1>1. sem_plani_largo_plazo = 0 /\ sem_plani_largo_plazo' = 1 /\ Asignares = {}
  BY <1>0 DEF IInv, Turno
<1>2. Asignares' = Asignares /\ Otros' = Otros
  BY <1>0 DEF Asignares, Otros
<1>3. Turno'
  BY <1>0, <1>1, <1>2 DEF IInv, Turno
<1>4. Procesos'
  BY <1>0, <1>1, <1>2 DEF IInv, Procesos, PorPedir, memoria
<1>5. Pedidos'
  BY <1>0, <1>2 DEF IInv, Pedidos, memoria, kernel_cpu
<1>6. Contextos'
  BY <1>0 DEF IInv, Contextos, ContextoDe, Hay, M!EsDe, memoria
<1>7. LadoKernel'
  BY <1>0 DEF IInv, LadoKernel, kernel_cpu
<1>8. LadoCpu'
  BY <1>0 DEF IInv, LadoCpu, Quieta, SinAccesos, Hay, EsFin, cpu, cpu_memoria, kernel_cpu
<1> QED BY <1>3, <1>4, <1>5, <1>6, <1>7, <1>8 DEF IInv

\* What is left in the socket of the replies was there.
LEMMA Recibido ==
  ASSUME NEW S, memoria_a_kernel \in Seq(S), memoria_a_kernel # << >>,
         memoria_a_kernel' = Tail(memoria_a_kernel)
  PROVE  /\ 1 \in DOMAIN memoria_a_kernel /\ Head(memoria_a_kernel) = memoria_a_kernel[1]
         /\ \A i \in DOMAIN memoria_a_kernel' :
              /\ i + 1 \in DOMAIN memoria_a_kernel
              /\ memoria_a_kernel'[i] = memoria_a_kernel[i + 1]
         /\ \A op : Hay(memoria_a_kernel', op) => Hay(memoria_a_kernel, op)
<1> DEFINE n == Len(memoria_a_kernel)
<1>1. /\ n \in Nat /\ DOMAIN memoria_a_kernel = 1 .. n /\ n # 0
      /\ DOMAIN memoria_a_kernel' = 1 .. n - 1
      /\ \A i \in 1 .. n - 1 : memoria_a_kernel'[i] = memoria_a_kernel[i + 1]
      /\ Head(memoria_a_kernel) = memoria_a_kernel[1]
  OBVIOUS
<1> HIDE DEF n
<1>2. /\ 1 \in DOMAIN memoria_a_kernel
      /\ \A i \in DOMAIN memoria_a_kernel' :
           /\ i + 1 \in DOMAIN memoria_a_kernel
           /\ memoria_a_kernel'[i] = memoria_a_kernel[i + 1]
  BY <1>1
<1>3. \A op : Hay(memoria_a_kernel', op) => Hay(memoria_a_kernel, op)
  BY <1>2 DEF Hay
<1> QED BY <1>1, <1>2, <1>3

LEMMA CreacionPaso ==
  ASSUME KP!Fase, KP!IInv, IInv, K!ConfirmarCreacionHilo,
         UNCHANGED <<memoria, cpu, cpu_memoria, kernel_cpu, guion>>
  PROVE  IInv'
<1>0. /\ oyente = "escucha" /\ oyente' = "corto" /\ memoria_a_kernel # << >>
      /\ Head(memoria_a_kernel).op = "CONFIRMAR_CREACION_HILO"
      /\ memoria_a_kernel' = Tail(memoria_a_kernel)
      /\ UNCHANGED <<sem_plani_largo_plazo, a_cpu, cola_new, tcb, lista_tcbs, kernel_a_memoria,
                     syscalls, despacho>>
  BY DEF K!ConfirmarCreacionHilo, K!Recibe, K!procesos, K!historia
<1>1. Creando
  <2>1. ASSUME Pidiendo PROVE FALSE
    <3>1. PICK bit : memoria_a_kernel = <<K!Msg("CONFIRMAR_ESPACIO_PROCESO", 1, -1, bit)>>
      BY <1>0, <2>1 DEF Pidiendo
    <3> QED BY <1>0, <3>1 DEF K!Msg
  <2> QED BY <1>0, <2>1, Donde DEF Listo, Despachado
<1>2. /\ 1 \in DOMAIN memoria_a_kernel /\ Head(memoria_a_kernel) = memoria_a_kernel[1]
      /\ \A i \in DOMAIN memoria_a_kernel' :
           /\ i + 1 \in DOMAIN memoria_a_kernel
           /\ memoria_a_kernel'[i] = memoria_a_kernel[i + 1]
      /\ \A op : Hay(memoria_a_kernel', op) => Hay(memoria_a_kernel, op)
  BY <1>0, Tipado, Recibido
<1>3. Hay(memoria_a_kernel, "CONFIRMAR_CREACION_HILO")
  BY <1>0, <1>2 DEF Hay
<1>4. syscalls = 0 /\ Otros = {}
  BY <1>0, <1>1, SinCpu DEF Creando, IInv, Pedidos
<1>5. Asignares' = Asignares /\ Otros' = Otros
  BY <1>0 DEF Asignares, Otros
<1>6. Turno'
  BY <1>0, <1>5 DEF IInv, Turno
<1>7. Procesos'
  BY <1>0, <1>1, <1>5 DEF IInv, Procesos, PorPedir, memoria, Creando
<1>8. Pedidos'
  BY <1>0, <1>4, <1>5 DEF IInv, Pedidos, memoria, kernel_cpu
<1>9. Contextos'
  <2>1. m_hilos[<<1, 0>>] = "VIVO"
    BY <1>3 DEF IInv, Contextos
  <2> QED BY <1>0, <2>1 DEF IInv, Contextos, ContextoDe, M!EsDe, memoria
<1>10. LadoKernel'
  BY <1>0, <1>2 DEF IInv, LadoKernel, kernel_cpu
<1>11. LadoCpu'
  BY <1>0 DEF IInv, LadoCpu, Quieta, SinAccesos, Hay, EsFin, cpu, cpu_memoria, kernel_cpu
<1> QED BY <1>6, <1>7, <1>8, <1>9, <1>10, <1>11 DEF IInv

LEMMA ConGuion == Append(<<1, 0>>, guion) = <<1, 0, guion>>
<1> DEFINE s == <<1, 0>>
           S == {0, 1, guion}
           t == Append(s, guion)
           h == <<1, 0, guion>>
<1>1. s \in Seq(S) /\ guion \in S /\ Len(s) = 2 /\ s[1] = 1 /\ s[2] = 0
  OBVIOUS
<1>2. h \in Seq(S) /\ Len(h) = 3 /\ h[1] = 1 /\ h[2] = 0 /\ h[3] = guion
  OBVIOUS
<1>3. t \in Seq(S) /\ Len(t) = 3 /\ t[1] = 1 /\ t[2] = 0 /\ t[3] = guion
  BY <1>1
<1> HIDE DEF h, t
<1>4. t = h
  BY <1>2, <1>3
<1> QED BY <1>4 DEF t, h

\* The one dispatch: of the main thread of the first process.
LEMMA DespacharHace ==
  ASSUME KP!Fase, KP!IInv, IInv, Despachar
  PROVE  /\ a_cpu = << >> /\ oyente = "corto" /\ lista_tcbs # << >>
         /\ a_cpu' = << <<1, 0>> >> /\ kernel_a_cpu' = << <<1, 0, guion>> >>
         /\ \E d \in Dirs : tcb'[d].pid = 1 /\ tcb'[d].tid = 0 /\ tcb'[d].estado = "EXEC"
<1>0. /\ oyente = "corto" /\ TCBaPlanificar > 0
  BY DEF Despachar, K!CortoPlazo
<1>1. Listo
  BY <1>0, Donde DEF Pidiendo, Creando, Despachado
<1>2. PICK d \in Dirs : /\ lista_ready = <<d>> /\ tcb[d].estado = "READY"
                        /\ tcb[d].pid = 1 /\ tcb[d].tid = 0
  BY <1>1 DEF Listo
<1>3. Head(lista_ready) = d /\ lista_ready # << >> /\ tcb[d] # K!Liberado
  <2>1. K!Liberado.estado = "LIBRE"
    BY DEF K!Liberado
  <2> QED BY <1>2, <2>1
<1>4. /\ a_cpu' = Append(a_cpu, <<1, 0>>)
      /\ tcb' = [tcb EXCEPT ![d].estado = "EXEC"]
  BY <1>2, <1>3 DEF Despachar, K!CortoPlazo
<1>5. a_cpu = << >> /\ kernel_a_cpu = << >>
  BY <1>1 DEF Listo, IInv, LadoCpu
<1>6. a_cpu' = << <<1, 0>> >>
  BY <1>4, <1>5
<1>7. kernel_a_cpu' = << <<1, 0, guion>> >>
  <2>1. kernel_a_cpu' = kernel_a_cpu \o
          [i \in 1 .. Len(a_cpu') - Len(a_cpu) |-> Append(a_cpu'[Len(a_cpu) + i], guion)]
    BY DEF Despachar
  <2>2. Len(a_cpu') = 1 /\ Len(a_cpu) = 0 /\ a_cpu'[1] = <<1, 0>>
    BY <1>5, <1>6
  <2>3. Append(<<1, 0>>, guion) = <<1, 0, guion>>
    BY ConGuion
  <2> DEFINE h == <<1, 0, guion>>
             s == [i \in 1 .. 1 |-> h]
  <2>4. [i \in 1 .. Len(a_cpu') - Len(a_cpu) |-> Append(a_cpu'[Len(a_cpu) + i], guion)] = s
    <3>1. Len(a_cpu') - Len(a_cpu) = 1
      BY <2>2
    <3>2. \A i \in 1 .. 1 : a_cpu'[Len(a_cpu) + i] = <<1, 0>>
      BY <2>2
    <3> HIDE DEF h
    <3>3. \A i \in 1 .. 1 : Append(a_cpu'[Len(a_cpu) + i], guion) = h
      BY <2>3, <3>2, Zenon DEF h
    <3> QED BY <3>1, <3>3, Zenon
  <2> HIDE DEF h
  <2>5. s \in Seq({h}) /\ Len(s) = 1 /\ s[1] = h
    OBVIOUS
  <2> HIDE DEF s
  <2>6. << >> \o s = <<h>>
    BY <2>5
  <2> QED BY <1>5, <2>1, <2>4, <2>6 DEF h
<1>8. \E e \in Dirs : tcb'[e].pid = 1 /\ tcb'[e].tid = 0 /\ tcb'[e].estado = "EXEC"
  <2>0. tcb \in [Dirs -> KP!Hilo \cup {KP!Liberado}] /\ d \in Dirs /\ tcb[d].pid = 1
    BY <1>2 DEF KP!IInv, KP!Tipos
  <2>1. tcb[d] \in KP!Hilo
    BY <2>0 DEF KP!Liberado, KP!Basura
  <2>2. tcb[d] = [pid |-> tcb[d].pid, tid |-> tcb[d].tid, estado |-> tcb[d].estado,
                  bloqueo |-> tcb[d].bloqueo, join |-> tcb[d].join]
    BY <2>1 DEF KP!Hilo
  <2>3. tcb'[d] = [tcb[d] EXCEPT !.estado = "EXEC"]
    BY <1>4, <2>0
  <2>4. tcb'[d].pid = 1 /\ tcb'[d].tid = 0 /\ tcb'[d].estado = "EXEC"
    BY <1>2, <2>2, <2>3
  <2> QED BY <2>4
<1> QED BY <1>0, <1>1, <1>5, <1>6, <1>7, <1>8 DEF Listo

LEMMA DespacharPaso == ASSUME KP!Fase, KP!IInv, IInv, Despachar PROVE IInv'
<1>0. /\ UNCHANGED <<oyente, sem_plani_largo_plazo, cola_new, lista_tcbs, kernel_a_memoria,
                     memoria_a_kernel, syscalls, despacho>>
      /\ UNCHANGED <<memoria, cpu, cpu_memoria, cpu_a_kernel, guion>>
  BY DEF Despachar, K!CortoPlazo, K!procesos, K!canales, K!historia
<1>1. Asignares' = Asignares /\ Otros' = Otros
  BY <1>0 DEF Asignares, Otros
<1>2. Turno'
  BY <1>0, <1>1 DEF IInv, Turno
<1>3. Procesos'
  BY <1>0, <1>1 DEF IInv, Procesos, PorPedir, memoria
<1>4. Pedidos'
  BY <1>0, <1>1 DEF IInv, Pedidos, memoria
<1>5. Contextos'
  BY <1>0 DEF IInv, Contextos, ContextoDe, Hay, M!EsDe, memoria
<1>6. LadoKernel'
  BY <1>0, DespacharHace DEF IInv, LadoKernel
<1>7. LadoCpu'
  <2>1. a_cpu' # << >>
    BY DespacharHace
  <2> QED BY <1>0, <2>1 DEF IInv, LadoCpu, Quieta, SinAccesos, Hay, EsFin, cpu, cpu_memoria
<1> QED BY <1>2, <1>3, <1>4, <1>5, <1>6, <1>7 DEF IInv

-----------------------------------------------------------------------------
(* The CPU, and memoria when it serves it *)

LEMMA Cabeza ==
  ASSUME NEW S, NEW s \in Seq(S), s # << >>
  PROVE  Head(s) \in S /\ Head(s) = s[1] /\ 1 \in DOMAIN s
OBVIOUS

LEMMA MandaCpu ==
  ASSUME NEW S, cpu_a_memoria \in Seq(S), NEW m, cpu_a_memoria' = Append(cpu_a_memoria, m)
  PROVE  /\ cpu_a_memoria'[Len(cpu_a_memoria')] = m
         /\ m.op \notin {"WRITE_MEM", "READ_MEM"} /\ SinAccesos => SinAccesos'
<1> DEFINE T == S \cup {m}
           n == Len(cpu_a_memoria)
<1>1. cpu_a_memoria \in Seq(T) /\ m \in T
  OBVIOUS
<1> HIDE DEF T
<1>2. /\ n \in Nat /\ DOMAIN cpu_a_memoria = 1 .. n
      /\ DOMAIN cpu_a_memoria' = 1 .. n + 1 /\ Len(cpu_a_memoria') = n + 1
      /\ \A i \in 1 .. n : cpu_a_memoria'[i] = cpu_a_memoria[i]
      /\ cpu_a_memoria'[n + 1] = m
  BY <1>1
<1> HIDE DEF n
<1>3. \A i \in DOMAIN cpu_a_memoria' :
        (i \in DOMAIN cpu_a_memoria /\ cpu_a_memoria'[i] = cpu_a_memoria[i])
        \/ cpu_a_memoria'[i] = m
  BY <1>2
<1> QED BY <1>2, <1>3 DEF SinAccesos, Hay

LEMMA SacaCpu ==
  ASSUME NEW S, cpu_a_memoria \in Seq(S), cpu_a_memoria # << >>,
         cpu_a_memoria' = Tail(cpu_a_memoria)
  PROVE  /\ SinAccesos => SinAccesos'
         /\ \/ SinAccesos'
            \/ cpu_a_memoria'[Len(cpu_a_memoria')] = cpu_a_memoria[Len(cpu_a_memoria)]
<1> DEFINE n == Len(cpu_a_memoria)
<1>1. /\ n \in Nat /\ n # 0 /\ DOMAIN cpu_a_memoria = 1 .. n
      /\ DOMAIN cpu_a_memoria' = 1 .. n - 1 /\ Len(cpu_a_memoria') = n - 1
      /\ \A i \in 1 .. n - 1 : cpu_a_memoria'[i] = cpu_a_memoria[i + 1]
  OBVIOUS
<1> HIDE DEF n
<1>2. \A i \in DOMAIN cpu_a_memoria' :
        i + 1 \in DOMAIN cpu_a_memoria /\ cpu_a_memoria'[i] = cpu_a_memoria[i + 1]
  BY <1>1
<1>3. SinAccesos => SinAccesos'
  BY <1>2 DEF SinAccesos, Hay
<1>4. CASE n = 1
  <2>1. \A i : i \notin DOMAIN cpu_a_memoria'
    BY <1>1, <1>4
  <2> QED BY <2>1, <1>3 DEF SinAccesos, Hay
<1>5. CASE n # 1
  <2>1. cpu_a_memoria'[n - 1] = cpu_a_memoria[n]
    BY <1>1, <1>5
  <2> QED BY <1>1, <1>3, <2>1 DEF n
<1> QED BY <1>4, <1>5

\* What a step of the CPU has to keep.
LEMMA BastaLadoCpu ==
  ASSUME IInv, UNCHANGED <<kernel, memoria, kernel_memoria, guion>>, LadoCpu',
         \/ UNCHANGED cpu_a_kernel
         \/ cpu_a_kernel = << >> /\ Len(cpu_a_kernel') = 1
  PROVE  IInv'
<1>0. UNCHANGED <<a_cpu, cola_new, tcb, lista_tcbs, oyente, sem_plani_largo_plazo, syscalls,
                  despacho, kernel_a_memoria, memoria_a_kernel>>
  BY DEF kernel, kernel_memoria
<1>1. Asignares' = Asignares /\ Otros' = Otros
  BY <1>0 DEF Asignares, Otros
<1>2. Turno'
  BY <1>0, <1>1 DEF IInv, Turno
<1>3. Procesos'
  BY <1>0, <1>1 DEF IInv, Procesos, PorPedir, memoria
<1>4. syscalls # 0 => UNCHANGED cpu_a_kernel
  <2>1. ASSUME cpu_a_kernel = << >> PROVE syscalls = 0
    <3>1. syscalls \in Nat /\ syscalls <= Len(cpu_a_kernel) /\ Len(<< >>) = 0
      BY DEF IInv, LadoKernel
    <3> QED BY <2>1, <3>1
  <2> QED BY <2>1
<1>5. Pedidos'
  BY <1>0, <1>1, <1>4 DEF IInv, Pedidos, memoria
<1>6. Contextos'
  BY <1>0 DEF IInv, Contextos, ContextoDe, Hay, M!EsDe, memoria
<1>7. LadoKernel'
  <2>1. syscalls <= Len(cpu_a_kernel')
    <3>1. CASE UNCHANGED cpu_a_kernel
      BY <3>1 DEF IInv, LadoKernel
    <3>2. CASE cpu_a_kernel = << >> /\ Len(cpu_a_kernel') = 1
      <4>1. syscalls = 0
        <5>1. syscalls \in Nat /\ syscalls <= Len(cpu_a_kernel) /\ Len(<< >>) = 0
          BY DEF IInv, LadoKernel
        <5> QED BY <3>2, <5>1
      <4> QED BY <3>2, <4>1
    <3> QED BY <3>1, <3>2
  <2> QED BY <1>0, <2>1 DEF IInv, LadoKernel
<1> QED BY <1>2, <1>3, <1>5, <1>6, <1>7 DEF IInv

LEMMA CpuTipada ==
  ASSUME CP!IInv
  PROVE  /\ cpu_a_memoria \in Seq(CP!Mensaje) /\ memoria_a_cpu \in Seq(CP!Mensaje)
         /\ ciclo.fase # "sin hilo" => ciclo.hilo \in Hilos
         /\ ciclo = [fase |-> ciclo.fase, hilo |-> ciclo.hilo, pc |-> ciclo.pc, inst |-> ciclo.inst]
BY DEF CP!IInv, CP!Tipos

LEMMA EscucharCpuPaso == ASSUME CP!IInv, IInv, EscucharCpu PROVE IInv'
<1>0. /\ cpu_a_memoria # << >> /\ cpu_a_memoria' = Tail(cpu_a_memoria)
      /\ UNCHANGED <<kernel, memoria, kernel_memoria, guion>>
      /\ UNCHANGED <<actual, control_key, ciclo, c_viva, kernel_a_cpu, cpu_a_kernel>>
  BY DEF EscucharCpu, C!Memoria, C!DevolverContextoEjecucion, C!ActualizarContextoDeEjecucion,
         C!ObtenerInstruccion, C!AccesoAMemoria, C!EscucharCpu, C!compartido
<1>1. a_cpu # << >> /\ actual \in Hilos
  BY <1>0 DEF IInv, LadoCpu, Quieta
<1>2. /\ SinAccesos => SinAccesos'
      /\ \/ SinAccesos'
         \/ cpu_a_memoria'[Len(cpu_a_memoria')] = cpu_a_memoria[Len(cpu_a_memoria)]
  BY <1>0, CpuTipada, SacaCpu
<1>3. UNCHANGED a_cpu
  BY <1>0 DEF kernel
<1>4. LadoCpu'
  BY <1>0, <1>1, <1>2, <1>3 DEF IInv, LadoCpu, EsFin
<1> QED BY <1>0, <1>4, BastaLadoCpu

\* Until the context comes no call has been made.
LEMMA SinLlamada ==
  ASSUME IInv, c_viva, ciclo.fase \notin {"ciclo", "fin"} PROVE cpu_a_kernel = << >>
BY DEF IInv, LadoCpu

LEMMA CpuEscuchaKernelPaso == ASSUME CP!IInv, IInv, CpuEscuchaKernel PROVE IInv'
<1>0. /\ c_viva /\ kernel_a_cpu # << >> /\ actual' = Head(kernel_a_cpu)
      /\ UNCHANGED <<kernel, memoria, kernel_memoria, guion>>
      /\ UNCHANGED <<control_key, ciclo, c_viva, cpu_a_kernel>>
  BY DEF CpuEscuchaKernel, C!RecibirTid
<1>1. a_cpu # << >> /\ UNCHANGED a_cpu
  BY <1>0 DEF IInv, LadoCpu, kernel
<1>2. kernel_a_cpu \in Seq(Hilos) /\ ciclo.fase = "sin hilo"
  <2>1. CP!Tipos /\ CP!Despachos
    BY <1>0 DEF CP!IInv
  <2> QED BY <1>0, <1>1, <2>1 DEF CP!Tipos, CP!Despachos
<1>3. cpu_a_kernel = << >>
  BY <1>0, <1>2, SinLlamada
<1>4. actual' \in Hilos
  <2>1. kernel_a_cpu # << >>
    BY <1>0
  <2>2. Head(kernel_a_cpu) \in Hilos
    BY <1>2, <2>1, Cabeza, Zenon
  <2> QED BY <1>0, <2>2
<1>5. LadoCpu'
  BY <1>0, <1>1, <1>2, <1>3, <1>4 DEF IInv, LadoCpu, EsFin
<1> QED BY <1>0, <1>5, BastaLadoCpu

LEMMA CpuEscuchaMemoriaPaso == ASSUME CP!IInv, IInv, CpuEscuchaMemoria PROVE IInv'
<1>0. /\ c_viva /\ memoria_a_cpu # << >> /\ memoria_a_cpu' = Tail(memoria_a_cpu)
      /\ UNCHANGED <<kernel, memoria, kernel_memoria, guion>>
      /\ UNCHANGED <<actual, c_viva, cpu_a_memoria, kernel_a_cpu, cpu_a_kernel>>
      /\ UNCHANGED <<control_key, ciclo>> \/ C!ReciboContexto
  BY DEF CpuEscuchaMemoria, C!EscuchaMemoria, C!ReciboContexto, C!RecibirInstruccionDeMemoria,
         C!ConfirmarContexto, C!Descartar, C!Recibe
<1>1. a_cpu # << >> /\ UNCHANGED a_cpu /\ actual \in Hilos
  BY <1>0 DEF IInv, LadoCpu, Quieta, kernel
<1>2. (SinAccesos' <=> SinAccesos)
  BY <1>0 DEF SinAccesos, Hay
<1>3. CASE UNCHANGED <<control_key, ciclo>>
  <2>1. LadoCpu'
    BY <1>0, <1>1, <1>2, <1>3 DEF IInv, LadoCpu, EsFin
  <2> QED BY <1>0, <2>1, BastaLadoCpu
<1>4. CASE C!ReciboContexto
  <2>1. Head(memoria_a_cpu).op = "ENVIAR_CONTEXTO" /\ ciclo'.fase = "ciclo"
    BY <1>4 DEF C!ReciboContexto, C!Recibe
  <2>2. ~CP!Sin(memoria_a_cpu, "ENVIAR_CONTEXTO")
    <3>0. memoria_a_cpu # << >> /\ memoria_a_cpu \in Seq(CP!Mensaje)
      BY <1>0, CpuTipada
    <3>1. Head(memoria_a_cpu) = memoria_a_cpu[1] /\ 1 \in DOMAIN memoria_a_cpu
      BY <3>0
    <3> QED BY <2>1, <3>1 DEF CP!Sin
  <2>3. ciclo.fase = "sin hilo"
    BY <1>0, <2>2 DEF CP!IInv, CP!Despachos, CP!Ninguna
  <2>4. cpu_a_kernel = << >>
    BY <1>0, <2>3, SinLlamada
  <2>5. LadoCpu'
    BY <1>0, <1>1, <2>1, <2>4 DEF IInv, LadoCpu, EsFin
  <2> QED BY <1>0, <2>5, BastaLadoCpu
<1> QED BY <1>0, <1>3, <1>4

LEMMA CicloPaso == ASSUME CP!IInv, IInv, Ciclo PROVE IInv'
<1>0. /\ c_viva /\ ciclo.fase \in {"ciclo", "fetch", "execute", "sem_syscall", "recv"}
      /\ UNCHANGED <<kernel, memoria, kernel_memoria, guion>>
      /\ UNCHANGED <<actual, kernel_a_cpu>>
  BY DEF Ciclo, C!CicloDeInstruccion, C!Fetch, C!Decode, C!Decodificar, C!ExecuteSyscall,
         C!EnviarSyscall, C!EnviarYParar, C!ExecuteRegistros, C!ExecuteJnz, C!ExecuteDesconocida,
         C!SegmentationFault, C!AccedeAMemoria, C!WriteMem, C!ReadMem, C!LeerDesdeMemoria,
         C!Ejecuta, C!En, C!compartido
<1>1. a_cpu # << >> /\ UNCHANGED a_cpu /\ actual \in Hilos
  BY <1>0 DEF IInv, LadoCpu, Quieta, kernel
<1>2. ciclo = [fase |-> ciclo.fase, hilo |-> ciclo.hilo, pc |-> ciclo.pc, inst |-> ciclo.inst]
      /\ cpu_a_memoria \in Seq(CP!Mensaje) /\ ciclo.hilo \in Hilos
  BY <1>0, CpuTipada
<1>3. CASE C!Fetch
  <2>0. UNCHANGED <<control_key, c_viva, cpu_a_kernel>>
    BY <1>3 DEF C!Fetch, C!compartido
  <2>1. CASE control_key = 1
    <3>1. /\ ciclo'.fase = "fetch"
          /\ cpu_a_memoria' =
               Append(cpu_a_memoria, C!Msg("OBTENER_INSTRUCCION", ciclo.hilo, ciclo.pc))
      BY <1>2, <1>3, <2>1 DEF C!Fetch
    <3>2. cpu_a_memoria'[Len(cpu_a_memoria')].op = "OBTENER_INSTRUCCION"
      <4>1. C!Msg("OBTENER_INSTRUCCION", ciclo.hilo, ciclo.pc).op = "OBTENER_INSTRUCCION"
        BY DEF C!Msg
      <4> QED BY <1>2, <3>1, <4>1, MandaCpu
    <3>3. cpu_a_kernel = << >>
      BY <1>0, <2>1 DEF IInv, LadoCpu
    <3>4. LadoCpu'
      BY <1>0, <1>1, <2>0, <3>1, <3>2, <3>3 DEF IInv, LadoCpu, EsFin
    <3> QED BY <1>0, <2>0, <3>4, BastaLadoCpu
  <2>2. CASE control_key # 1
    <3>1. ciclo'.fase = "fin" /\ UNCHANGED cpu_a_memoria /\ control_key = 0
      BY <1>2, <1>3, <2>2 DEF C!Fetch
    <3>2. SinAccesos' <=> SinAccesos
      BY <3>1 DEF SinAccesos, Hay
    <3>3. LadoCpu'
      BY <1>0, <1>1, <2>0, <3>1, <3>2 DEF IInv, LadoCpu, EsFin
    <3> QED BY <1>0, <2>0, <3>3, BastaLadoCpu
  <2> QED BY <2>1, <2>2
<1>4. CASE C!Decode
  <2>1. /\ ciclo.fase = "fetch" /\ ciclo'.fase = "execute" /\ sem_instruccion > 0
        /\ UNCHANGED <<control_key, c_viva, cpu_a_memoria, cpu_a_kernel>>
    BY <1>2, <1>4 DEF C!Decode, C!Decodificar, C!En
  <2>2. cpu_a_kernel = << >>
    BY <1>0, <2>1, SinLlamada
  <2>3. CP!Sin(cpu_a_memoria, "OBTENER_INSTRUCCION")
    BY <1>0, <2>1 DEF CP!IInv, CP!Instrucciones, CP!Ninguna
  <2>4. SinAccesos
    <3>1. CASE cpu_a_memoria = << >>
      <4>1. DOMAIN << >> = {}
        OBVIOUS
      <4> QED BY <3>1, <4>1, Zenon DEF SinAccesos, Hay
    <3>2. CASE cpu_a_memoria # << >>
      <4>1. Len(cpu_a_memoria) \in DOMAIN cpu_a_memoria
        BY <1>2, <3>2
      <4> QED BY <1>0, <2>1, <2>3, <4>1 DEF IInv, LadoCpu, CP!Sin
    <3> QED BY <3>1, <3>2
  <2>5. SinAccesos'
    BY <2>1, <2>4 DEF SinAccesos, Hay
  <2>6. LadoCpu'
    BY <1>0, <1>1, <2>1, <2>2, <2>5 DEF IInv, LadoCpu, EsFin
  <2> QED BY <1>0, <2>1, <2>6, BastaLadoCpu
<1>5. CASE C!ExecuteSyscall
  <2>1. /\ ciclo.fase = "execute" /\ ciclo'.fase = "sem_syscall"
        /\ ciclo'.inst = ciclo.inst /\ ciclo.inst.op \in C!Syscalls
        /\ UNCHANGED <<control_key, c_viva, cpu_a_kernel>>
    BY <1>2, <1>5 DEF C!ExecuteSyscall, C!Ejecuta, C!En, C!Avanzar, C!compartido
  <2>2. cpu_a_kernel = << >>
    BY <1>0, <2>1, SinLlamada
  <2>3. LadoCpu'
    BY <1>0, <1>1, <2>1, <2>2 DEF IInv, LadoCpu, EsFin
  <2> QED BY <1>0, <2>1, <2>3, BastaLadoCpu
<1>6. CASE C!EnviarSyscall
  <2>1. /\ ciclo.fase = "sem_syscall" /\ ciclo'.fase = "ciclo" /\ control_key' = 0
        /\ cpu_a_kernel' = Append(cpu_a_kernel, [op |-> ciclo.inst.op, hilo |-> actual])
        /\ UNCHANGED c_viva
    BY <1>2, <1>6 DEF C!EnviarSyscall, C!EnviarYParar, C!EnviarAlKernel, C!En
  <2>2. cpu_a_kernel = << >>
    BY <1>0, <2>1, SinLlamada
  <2>3. ciclo.inst.op \in C!Syscalls
    BY <2>1 DEF IInv, LadoCpu
  <2> DEFINE llamada == [op |-> ciclo.inst.op, hilo |-> actual]
  <2>4. /\ llamada \in [op : C!Syscalls \cup {"PROCESS_EXIT"}, hilo : Hilos]
        /\ llamada.op # "PROCESS_EXIT"
    BY <1>1, <2>3 DEF C!Syscalls
  <2> HIDE DEF llamada
  <2>5. cpu_a_kernel' = <<llamada>>
    BY <2>1, <2>2 DEF llamada
  <2>6. /\ cpu_a_kernel' \in Seq([op : C!Syscalls \cup {"PROCESS_EXIT"}, hilo : Hilos])
        /\ Len(cpu_a_kernel') = 1 /\ cpu_a_kernel'[1] = llamada
    BY <2>4, <2>5
  <2>7. LadoCpu'
    BY <1>0, <1>1, <2>1, <2>4, <2>6 DEF IInv, LadoCpu, EsFin
  <2> QED BY <1>0, <2>2, <2>6, <2>7, BastaLadoCpu
<1>7. CASE C!ExecuteRegistros \/ C!ExecuteDesconocida \/ C!WriteMem \/ C!ReadMem \/ C!LeerDesdeMemoria
  <2>1. /\ ciclo.fase \in {"execute", "recv"} /\ ciclo'.fase \in {"ciclo", "recv"}
        /\ UNCHANGED <<control_key, c_viva, cpu_a_kernel>>
    BY <1>2, <1>7 DEF C!ExecuteRegistros, C!ExecuteDesconocida, C!WriteMem, C!ReadMem,
       C!LeerDesdeMemoria, C!Ejecuta, C!En, C!Avanzar, C!compartido
  <2>2. cpu_a_kernel = << >>
    BY <1>0, <2>1, SinLlamada
  <2>3. LadoCpu'
    BY <1>0, <1>1, <2>1, <2>2 DEF IInv, LadoCpu, EsFin
  <2> QED BY <1>0, <2>1, <2>3, BastaLadoCpu
<1>8. CASE C!ExecuteJnz
  <2>1. /\ ciclo.fase = "execute" /\ ~c_viva'
        /\ UNCHANGED <<ciclo, control_key, cpu_a_kernel, cpu_a_memoria>>
    BY <1>8 DEF C!ExecuteJnz, C!Ejecuta, C!En, C!compartido
  <2>2. cpu_a_kernel = << >>
    BY <1>0, <2>1, SinLlamada
  <2>3. LadoCpu'
    BY <1>0, <1>1, <2>1, <2>2 DEF IInv, LadoCpu, EsFin
  <2> QED BY <1>0, <2>1, <2>3, BastaLadoCpu
<1>9. CASE C!SegmentationFault
  <2>1. /\ ciclo.fase = "execute" /\ ~c_viva'
        /\ cpu_a_memoria' =
             Append(cpu_a_memoria, C!Msg("ACTUALIZAR_CONTEXTO", ciclo.hilo, ciclo.pc))
        /\ cpu_a_kernel' = Append(cpu_a_kernel, [op |-> "PROCESS_EXIT", hilo |-> ciclo.hilo])
        /\ UNCHANGED <<ciclo, control_key>>
    BY <1>9 DEF C!SegmentationFault, C!AccedeAMemoria, C!ActualizarContexto, C!EnviarAlKernel,
                C!Ejecuta, C!En, C!compartido
  <2>2. cpu_a_kernel = << >> /\ SinAccesos
    BY <1>0, <2>1, SinLlamada DEF IInv, LadoCpu
  <2> DEFINE llamada == [op |-> "PROCESS_EXIT", hilo |-> ciclo.hilo]
  <2>3. llamada \in [op : C!Syscalls \cup {"PROCESS_EXIT"}, hilo : Hilos]
    BY <1>2
  <2> HIDE DEF llamada
  <2>4. cpu_a_kernel' = <<llamada>>
    BY <2>1, <2>2 DEF llamada
  <2>5. /\ cpu_a_kernel' \in Seq([op : C!Syscalls \cup {"PROCESS_EXIT"}, hilo : Hilos])
        /\ Len(cpu_a_kernel') = 1
    BY <2>3, <2>4
  <2>6. SinAccesos'
    <3>1. C!Msg("ACTUALIZAR_CONTEXTO", ciclo.hilo, ciclo.pc).op = "ACTUALIZAR_CONTEXTO"
      BY DEF C!Msg
    <3> QED BY <1>2, <2>1, <2>2, <3>1, MandaCpu
  <2>7. LadoCpu'
    BY <1>0, <1>1, <2>1, <2>5, <2>6 DEF IInv, LadoCpu
  <2> QED BY <1>0, <2>2, <2>5, <2>7, BastaLadoCpu
<1> QED BY <1>3, <1>4, <1>5, <1>6, <1>7, <1>8, <1>9 DEF Ciclo, C!CicloDeInstruccion

-----------------------------------------------------------------------------
(* The system call *)

\* The kernel serves one call, when nothing but the planner's request is with memoria.
LEMMA Atendida ==
  ASSUME KP!Fase, KP!IInv, MP!IFijas, IInv, AtenderSyscall
  PROVE  /\ syscalls = 0 /\ syscalls' = 1 /\ Len(cpu_a_kernel) = 1 /\ cpu_a_kernel # << >>
         /\ ultima'.op = cpu_a_kernel[1].op
         /\ ultima'.op \in C!Syscalls \cup {"PROCESS_EXIT"}
         /\ a_cpu # << >> /\ oyente = "corto" /\ lista_tcbs # << >> /\ Otros = {}
         /\ m_pcb[1].estado = "READY"
         /\ UNCHANGED <<a_cpu, oyente, sem_plani_largo_plazo>>
         /\ UNCHANGED <<memoria, cpu, cpu_memoria, kernel_cpu, guion>>
<1>0. /\ syscalls < Len(cpu_a_kernel) /\ K!AtiendeSyscall /\ ultima'.op = Llamada.op
      /\ UNCHANGED <<memoria, cpu, cpu_memoria, kernel_cpu, guion>>
  BY DEF AtenderSyscall
<1>1. \E op, d, arg : K!Syscall(op, d, arg)
  BY ZenonT(60), <1>0
  DEF K!AtiendeSyscall, K!ProcessCreate, K!ProcessExit, K!ThreadCreate, K!ThreadExit,
     K!DumpMemory, K!IO, K!ThreadJoin, K!ThreadCancel, K!MutexCreate, K!MutexLock, K!MutexUnlock,
     K!MutexInexistente
<1>2. /\ a_cpu # << >> /\ syscalls' = syscalls + 1
      /\ UNCHANGED <<a_cpu, oyente, sem_plani_largo_plazo>>
  BY <1>1 DEF K!Syscall, K!planificacion
<1>3. cpu_a_kernel \in Seq([op : C!Syscalls \cup {"PROCESS_EXIT"}, hilo : Hilos])
      /\ Len(cpu_a_kernel) <= 1 /\ syscalls \in Nat
  BY DEF IInv, LadoCpu, LadoKernel
<1> DEFINE S == [op : C!Syscalls \cup {"PROCESS_EXIT"}, hilo : Hilos]
<1>a. cpu_a_kernel \in Seq(S)
  BY <1>3
<1> HIDE DEF S
<1>4. syscalls = 0 /\ Len(cpu_a_kernel) = 1 /\ cpu_a_kernel # << >>
  <2>1. Len(cpu_a_kernel) \in Nat
    BY <1>a
  <2>0. syscalls < Len(cpu_a_kernel) /\ Len(cpu_a_kernel) <= 1 /\ syscalls \in Nat
    BY <1>0, <1>3
  <2> DEFINE n == Len(cpu_a_kernel)
  <2> HIDE DEF n
  <2>c. syscalls < n /\ n <= 1 /\ syscalls \in Nat /\ n \in Nat
    BY <2>0, <2>1 DEF n
  <2>d. syscalls = 0 /\ n = 1
    BY <2>c
  <2>2. syscalls = 0 /\ Len(cpu_a_kernel) = 1
    BY <2>d DEF n
  <2>3. cpu_a_kernel # << >>
    BY <1>a, <2>2
  <2> QED BY <2>2, <2>3
<1>5. cpu_a_kernel[1] \in S
  BY <1>4, <1>a
<1>6. Llamada = cpu_a_kernel[1]
  BY <1>4 DEF Llamada
<1>b. cpu_a_kernel[1].op \in C!Syscalls \cup {"PROCESS_EXIT"}
  BY <1>5 DEF S
<1>7. oyente = "corto"
  BY <1>2, Donde DEF Pidiendo, Creando, Listo, Despachado
<1>8. lista_tcbs # << >> /\ Otros = {}
  BY <1>2, <1>4, <1>7 DEF IInv, LadoKernel, Pedidos
<1>9. m_pcb[1].estado = "READY"
  <2>1. m_pcb[1].estado \in {"NEW", "READY", "EXIT"}
    BY CotasValidas DEF MP!IFijas, MP!TypeOK, Pids
  <2>2. m_pcb[1].estado # "NEW"
    BY <1>8 DEF IInv, Procesos
  <2>3. m_pcb[1].estado # "EXIT"
    BY <1>4 DEF IInv, Pedidos
  <2> QED BY <2>1, <2>2, <2>3
<1> QED BY <1>0, <1>2, <1>4, <1>b, <1>6, <1>7, <1>8, <1>9

\* What it may add to what memoria has been asked for.
Agrega(m) ==
  /\ m.pid = 1
  /\ \/ m.op = "HILO_READY" /\ m.tid \in 0 .. MaxTid /\ m_hilos[<<1, m.tid>>] = "NO"
     \/ m.op = "FINALIZAR_PROCESO" /\ EsFin(cpu_a_kernel)

LEMMA BastaAtendida ==
  ASSUME KP!Fase, KP!IInv, MP!IFijas, IInv, AtenderSyscall,
         despacho'.fase \in {"escucha", "io", "fin_proceso"},
         lista_tcbs' # << >>, cola_new' \in Seq(Pids \ {1}), UNCHANGED memoria_a_kernel,
         \/ UNCHANGED kernel_a_memoria
         \/ \E m \in KP!Mensaje : /\ kernel_a_memoria' = Append(kernel_a_memoria, m)
                                  /\ m.op # "ASIGNAR_MEMORIA" /\ Agrega(m)
  PROVE  IInv'
<1>0. /\ syscalls = 0 /\ syscalls' = 1 /\ Len(cpu_a_kernel) = 1
      /\ a_cpu # << >> /\ oyente = "corto" /\ lista_tcbs # << >> /\ Otros = {}
      /\ m_pcb[1].estado = "READY"
      /\ UNCHANGED <<a_cpu, oyente, sem_plani_largo_plazo>>
      /\ UNCHANGED <<memoria, cpu, cpu_memoria, kernel_cpu, guion>>
  BY Atendida
<1>1. /\ Asignares' = Asignares
      /\ \A i \in Asignares : kernel_a_memoria'[i] = kernel_a_memoria[i]
      /\ \A i, j \in Otros' : i = j
      /\ \A i \in Otros' : Agrega(kernel_a_memoria'[i])
  <2>1. CASE UNCHANGED kernel_a_memoria
    BY <1>0, <2>1 DEF Asignares, Otros
  <2>2. ASSUME NEW m \in KP!Mensaje, kernel_a_memoria' = Append(kernel_a_memoria, m),
               m.op # "ASIGNAR_MEMORIA", Agrega(m)
        PROVE  <1>1!:
    BY <1>0, <2>2, Tipado, Manda
  <2> QED BY <2>1, <2>2
<1>2. UNCHANGED <<m_pcb, m_hilos, cpu_a_kernel, lista_particiones, lista_contextos>>
  BY <1>0 DEF memoria, kernel_cpu
<1>3. Turno'
  BY <1>0, <1>1 DEF IInv, Turno
<1>4. Procesos'
  BY <1>0, <1>1, <1>2 DEF IInv, Procesos, PorPedir
<1>5. Pedidos'
  BY <1>0, <1>1, <1>2 DEF Pedidos, Agrega
<1>6. Contextos'
  BY <1>0, <1>2 DEF IInv, Contextos, ContextoDe, Hay, M!EsDe
<1>7. LadoKernel'
  <2>1. syscalls' = 1 /\ Len(cpu_a_kernel) = 1 /\ cpu_a_kernel' = cpu_a_kernel
    BY <1>0, <1>2
  <2>4. syscalls' = 1 /\ Len(cpu_a_kernel') = 1
    BY <2>1
  <2>3. syscalls' \in Nat /\ syscalls' <= Len(cpu_a_kernel') /\ syscalls' # 0
    <3> DEFINE n == Len(cpu_a_kernel')
    <3> HIDE DEF n
    <3>1. syscalls' = 1 /\ n = 1
      BY <2>4 DEF n
    <3>2. syscalls' \in Nat /\ syscalls' <= n /\ syscalls' # 0
      BY <3>1
    <3> QED BY <3>2 DEF n
  <2>2. /\ despacho'.fase \in {"escucha", "io", "fin_proceso"} /\ lista_tcbs' # << >>
        /\ memoria_a_kernel' = memoria_a_kernel
    OBVIOUS
  <2> QED BY <2>2, <2>3 DEF IInv, LadoKernel
<1>8. LadoCpu'
  BY <1>0 DEF IInv, LadoCpu, Quieta, SinAccesos, Hay, EsFin, cpu, cpu_memoria, kernel_cpu
<1> QED BY <1>3, <1>4, <1>5, <1>6, <1>7, <1>8 DEF IInv

\* Who calls is a thread of the first process.
LEMMA Llama ==
  ASSUME KP!IInv, NEW op, NEW d \in Dirs, NEW arg, K!Syscall(op, d, arg)
  PROVE  /\ tcb[d].pid = 1 /\ tcb[d].tid \in Nat /\ tcb[d].tid <= pcb[1].tid_contador
         /\ pcb[1].tid_contador \in Int /\ despacho.fase = "escucha" /\ ultima'.op = op
<1>1. KP!Syscall(op, d, arg)
  BY DEF K!Syscall, KP!Syscall, K!Escucha, KP!Escucha, K!Basura, KP!Basura, K!planificacion,
         KP!planificacion
<1>2. d \in KP!Vivos /\ tcb[d].pid = 1 /\ tcb[d].tid \in Nat /\ despacho.fase = "escucha"
  BY <1>1, KP!Llamador, CotasValidas
<1>3. tcb[d].tid <= pcb[1].tid_contador
  BY <1>2 DEF KP!IInv, KP!HilosEnOrden
<1>4. pcb[1].tid_contador \in Int
  BY CotasValidas DEF KP!IInv, KP!Tipos, KP!Proceso, KP!Pids
<1>5. ultima'.op = op
  BY DEF K!Syscall
<1> QED BY <1>2, <1>3, <1>4, <1>5

\* Most calls send memoria nothing and create no process.
LEMMA SinMensaje ==
  ASSUME KP!Fase, KP!IInv, MP!IFijas, IInv, AtenderSyscall,
         despacho'.fase \in {"escucha", "io", "fin_proceso"},
         UNCHANGED <<cola_new, lista_tcbs, kernel_a_memoria, memoria_a_kernel>>
  PROVE  IInv'
<1>1. lista_tcbs # << >>
  BY Atendida
<1>2. cola_new \in Seq(Pids \ {1})
  BY <1>1 DEF IInv, Procesos
<1> QED BY <1>1, <1>2, BastaAtendida

LEMMA ProcessCreatePaso ==
  ASSUME KP!Fase, KP!IInv, MP!IFijas, IInv, AtenderSyscall, NEW d \in Dirs, K!ProcessCreate(d)
  PROVE  IInv'
<1>1. /\ K!Syscall("PROCESS_CREATE", d, K!Nadie) /\ pid < MaxPid
      /\ cola_new' = Append(cola_new, pid + 1)
      /\ UNCHANGED <<lista_tcbs, kernel_a_memoria, memoria_a_kernel, despacho>>
  BY DEF K!ProcessCreate, K!hilos, K!canales
<1>2. lista_tcbs # << >>
  BY Atendida
<1>3. despacho.fase = "escucha"
  BY <1>1, Llama
<1>4. cola_new \in Seq(Pids \ {1})
  BY <1>2 DEF IInv, Procesos
<1>5. pid + 1 \in Pids \ {1}
  BY <1>1, Tipado, CotasValidas DEF Pids
<1>6. cola_new' \in Seq(Pids \ {1})
  BY <1>1, <1>4, <1>5
<1> QED BY <1>1, <1>2, <1>3, <1>6, BastaAtendida

LEMMA ThreadCreatePaso ==
  ASSUME KP!Fase, KP!IInv, MP!IFijas, IInv, AtenderSyscall, NEW d \in Dirs, K!ThreadCreate(d)
  PROVE  IInv'
<1> DEFINE t == pcb[1].tid_contador + 1
           m == K!Msg("HILO_READY", 1, t, -1)
<1>1. K!Syscall("THREAD_CREATE", d, K!Nadie)
  BY DEF K!ThreadCreate
<1>2. /\ tcb[d].pid = 1 /\ tcb[d].tid \in Nat /\ tcb[d].tid <= pcb[1].tid_contador
      /\ pcb[1].tid_contador \in Int /\ despacho.fase = "escucha"
  BY <1>1, Llama
<1>3. /\ t <= MaxTid /\ (\E e \in Dirs : lista_tcbs' = Append(lista_tcbs, e))
      /\ kernel_a_memoria' = Append(kernel_a_memoria, m)
      /\ UNCHANGED <<cola_new, memoria_a_kernel, despacho>>
  BY <1>2 DEF K!ThreadCreate, K!NuevoTid, K!AgregarHilo, K!Nadie
<1>4. t \in 1 .. MaxTid
  BY <1>2, <1>3, CotasValidas
<1>5. syscalls = 0 /\ lista_tcbs # << >>
  BY Atendida
<1> HIDE DEF t
<1>6. t \in Int /\ t \in 0 .. MaxTid /\ m_hilos[<<1, t>>] = "NO"
  BY <1>4, <1>5, CotasValidas DEF IInv, Contextos
<1>7. m \in KP!Mensaje /\ m.op = "HILO_READY" /\ m.pid = 1 /\ m.tid = t
  BY <1>6, MensajeTipo
<1> HIDE DEF m
<1>8. Agrega(m)
  BY <1>6, <1>7 DEF Agrega
<1>9. cola_new \in Seq(Pids \ {1})
  BY <1>5 DEF IInv, Procesos
<1>10. lista_tcbs' # << >>
  <2>1. lista_tcbs \in Seq(Dirs)
    BY Tipado
  <2>2. \E e \in Dirs : lista_tcbs' = Append(lista_tcbs, e)
    BY <1>3
  <2> QED BY ONLY <2>1, <2>2
<1> QED BY <1>2, <1>3, <1>7, <1>8, <1>9, <1>10, BastaAtendida

LEMMA ProcessExitPaso ==
  ASSUME KP!Fase, KP!IInv, MP!IFijas, IInv, AtenderSyscall, NEW d \in Dirs, K!ProcessExit(d)
  PROVE  IInv'
<1>1. K!Syscall("PROCESS_EXIT", d, K!Nadie)
  BY DEF K!ProcessExit
<1>2. /\ tcb[d].pid = 1 /\ despacho.fase = "escucha" /\ ultima'.op = "PROCESS_EXIT"
  BY <1>1, Llama
<1>3. UNCHANGED <<cola_new, lista_tcbs, memoria_a_kernel>>
  BY DEF K!ProcessExit, K!procesos, K!hilos
<1>4. CASE UNCHANGED <<kernel_a_memoria, despacho>>
  BY <1>2, <1>3, <1>4, SinMensaje
<1>5. CASE /\ kernel_a_memoria' =
                Append(kernel_a_memoria, K!Msg("FINALIZAR_PROCESO", tcb[d].pid, K!Nadie, K!Nadie))
           /\ despacho' = [K!Escucha EXCEPT !.fase = "fin_proceso", !.pid = tcb[d].pid]
  <2> DEFINE m == K!Msg("FINALIZAR_PROCESO", 1, -1, -1)
  <2>1. despacho'.fase = "fin_proceso" /\ kernel_a_memoria' = Append(kernel_a_memoria, m)
    BY <1>2, <1>5 DEF K!Escucha, K!Nadie
  <2>2. m \in KP!Mensaje /\ m.op = "FINALIZAR_PROCESO" /\ m.pid = 1
    BY MensajeTipo
  <2> HIDE DEF m
  <2>3. EsFin(cpu_a_kernel) /\ lista_tcbs # << >>
    BY <1>2, Atendida DEF EsFin
  <2>4. Agrega(m)
    BY <2>2, <2>3 DEF Agrega
  <2>5. cola_new \in Seq(Pids \ {1})
    BY <2>3 DEF IInv, Procesos
  <2> QED BY <1>3, <2>1, <2>2, <2>3, <2>4, <2>5, BastaAtendida
<1> QED BY <1>4, <1>5 DEF K!ProcessExit

LEMMA AtenderSyscallPaso ==
  ASSUME KP!Fase, KP!IInv, MP!IFijas, IInv, AtenderSyscall PROVE IInv'
<1>0. K!AtiendeSyscall /\ ultima'.op \in C!Syscalls \cup {"PROCESS_EXIT"}
  BY Atendida DEF AtenderSyscall
<1>1. PICK d \in Dirs :
        \/ K!ProcessCreate(d) \/ K!ProcessExit(d) \/ K!ThreadCreate(d) \/ K!ThreadExit(d)
        \/ K!DumpMemory(d) \/ K!IO(d)
        \/ \E x \in K!Tids : K!ThreadJoin(d, x) \/ K!ThreadCancel(d, x)
        \/ \E r \in Recursos :
             \/ K!MutexCreate(d, r) \/ K!MutexLock(d, r) \/ K!MutexUnlock(d, r)
             \/ K!MutexInexistente("MUTEX_LOCK", d, r) \/ K!MutexInexistente("MUTEX_UNLOCK", d, r)
  BY <1>0 DEF K!AtiendeSyscall
<1>2. CASE K!ProcessCreate(d) \/ K!ProcessExit(d) \/ K!ThreadCreate(d)
  BY <1>2, ProcessCreatePaso, ProcessExitPaso, ThreadCreatePaso
<1>3. CASE K!ThreadExit(d) \/ K!DumpMemory(d) \/ \E x \in K!Tids : K!ThreadCancel(d, x)
  <2>1. \E x : \/ K!Syscall("THREAD_EXIT", d, x) \/ K!Syscall("DUMP_MEMORY", d, x)
               \/ K!Syscall("THREAD_CANCEL", d, x)
    BY <1>3 DEF K!ThreadExit, K!DumpMemory, K!ThreadCancel
  <2>2. ultima'.op \in {"THREAD_EXIT", "DUMP_MEMORY", "THREAD_CANCEL"}
    BY <2>1, Llama
  <2> QED BY <1>0, <2>2 DEF C!Syscalls
<1>4. CASE K!IO(d)
  <2>1. /\ despacho'.fase = "io"
        /\ UNCHANGED <<cola_new, lista_tcbs, kernel_a_memoria, memoria_a_kernel>>
    BY <1>4 DEF K!IO, K!Escucha, K!procesos, K!canales
  <2> QED BY <2>1, SinMensaje
<1>5. ASSUME NEW op, NEW arg, K!Syscall(op, d, arg), UNCHANGED despacho,
             UNCHANGED <<cola_new, lista_tcbs, kernel_a_memoria, memoria_a_kernel>>
      PROVE  IInv'
  BY <1>5, Llama, SinMensaje
<1>6. CASE \E x \in K!Tids : K!ThreadJoin(d, x)
  BY <1>5, <1>6 DEF K!ThreadJoin, K!PasarAReady, K!Bloquear, K!procesos, K!canales
<1>7. CASE \E r \in Recursos :
             \/ K!MutexCreate(d, r) \/ K!MutexLock(d, r) \/ K!MutexUnlock(d, r)
             \/ K!MutexInexistente("MUTEX_LOCK", d, r) \/ K!MutexInexistente("MUTEX_UNLOCK", d, r)
  BY <1>5, <1>7 DEF K!MutexCreate, K!MutexLock, K!MutexUnlock, K!MutexInexistente, K!PasarAReady,
     K!Bloquear, K!procesos, K!canales, K!hilos
<1> QED BY <1>1, <1>2, <1>3, <1>4, <1>6, <1>7

\* A call is being served from the dispatch on, and it is the only one.
LEMMA Sirviendo ==
  ASSUME IInv, syscalls # 0 PROVE syscalls = 1 /\ a_cpu # << >> /\ lista_tcbs # << >>
<1>1. a_cpu # << >>
  BY SinCpu
<1>2. syscalls \in Nat /\ syscalls <= Len(cpu_a_kernel) /\ Len(cpu_a_kernel) <= 1
      /\ lista_tcbs # << >>
  BY <1>1 DEF IInv, LadoKernel, LadoCpu
<1>3. Len(cpu_a_kernel) \in Nat
  <2> DEFINE S == [op : C!Syscalls \cup {"PROCESS_EXIT"}, hilo : Hilos]
  <2>1. cpu_a_kernel \in Seq(S)
    BY DEF IInv, LadoCpu
  <2> HIDE DEF S
  <2> QED BY <2>1
<1> DEFINE n == Len(cpu_a_kernel)
<1> HIDE DEF n
<1>4. syscalls \in Nat /\ syscalls <= n /\ n <= 1 /\ n \in Nat
  BY <1>2, <1>3 DEF n
<1>5. syscalls = 1
  BY <1>4
<1> QED BY <1>1, <1>2, <1>5

\* The kernel never gets a MENSAJE: what it reads in its place only ends the call.
LEMMA SigueHace ==
  ASSUME KP!IInv, IInv, K!SigueSyscall
  PROVE  /\ syscalls # 0 /\ despacho' = K!Escucha
         /\ UNCHANGED <<oyente, sem_plani_largo_plazo, a_cpu, cola_new, lista_tcbs,
                        kernel_a_memoria, syscalls>>
         /\ UNCHANGED memoria_a_kernel
            \/ (memoria_a_kernel # << >> /\ memoria_a_kernel' = Tail(memoria_a_kernel))
<1>1. despacho.fase \in {"escucha", "io", "fin_proceso"}
      /\ (syscalls = 0 => despacho = K!Escucha)
  BY DEF IInv, LadoKernel
<1>2. K!Escucha.fase = "escucha"
  BY DEF K!Escucha
<1>3. CASE K!FinIO
  BY <1>1, <1>2, <1>3 DEF K!FinIO, K!planificacion, K!procesos, K!canales, K!historia
<1>4. CASE K!RespuestaFinProceso
  <2>1. PICK ok \in BOOLEAN :
          /\ K!LeerRespuesta(ok)
          /\ ~ok => despacho' = K!Escucha
    BY <1>4 DEF K!RespuestaFinProceso
  <2>2. /\ UNCHANGED memoria_a_kernel
           \/ (memoria_a_kernel # << >> /\ memoria_a_kernel' = Tail(memoria_a_kernel))
        /\ ok => memoria_a_kernel # << >> /\ Head(memoria_a_kernel).op = "MENSAJE"
    BY <2>1 DEF K!LeerRespuesta
  <2>3. ~ok
    <3> SUFFICES ASSUME ok PROVE FALSE
      OBVIOUS
    <3>1. memoria_a_kernel \in Seq(KP!Mensaje) /\ memoria_a_kernel # << >>
      BY <2>2, Tipado
    <3>2. Head(memoria_a_kernel) = memoria_a_kernel[1] /\ 1 \in DOMAIN memoria_a_kernel
      BY <3>1, Cabeza, Zenon
    <3> QED BY <2>2, <3>2 DEF IInv, LadoKernel
  <2>4. /\ despacho.fase = "fin_proceso"
        /\ UNCHANGED <<oyente, sem_plani_largo_plazo, a_cpu, cola_new, lista_tcbs,
                       kernel_a_memoria, syscalls>>
    BY <1>4 DEF K!RespuestaFinProceso, K!planificacion, K!procesos, K!hilos, K!historia
  <2> QED BY <1>1, <1>2, <2>1, <2>2, <2>3, <2>4
<1>5. CASE K!FinHilo \/ K!RecorrerHilos \/ K!FinProceso
  BY <1>1, <1>5 DEF K!FinHilo, K!RecorrerHilos, K!FinProceso
<1> QED BY <1>3, <1>4, <1>5 DEF K!SigueSyscall

LEMMA SeguirSyscallPaso == ASSUME KP!IInv, IInv, SeguirSyscall PROVE IInv'
<1>0. /\ syscalls # 0 /\ despacho' = K!Escucha
      /\ UNCHANGED <<oyente, sem_plani_largo_plazo, a_cpu, cola_new, lista_tcbs,
                     kernel_a_memoria, syscalls>>
      /\ UNCHANGED memoria_a_kernel
         \/ (memoria_a_kernel # << >> /\ memoria_a_kernel' = Tail(memoria_a_kernel))
      /\ UNCHANGED <<memoria, cpu, cpu_memoria, kernel_cpu, guion>>
  BY SigueHace DEF SeguirSyscall
<1>1. syscalls = 1 /\ a_cpu # << >> /\ lista_tcbs # << >>
  BY <1>0, Sirviendo
<1>2. /\ \A i \in DOMAIN memoria_a_kernel' :
           \E j \in DOMAIN memoria_a_kernel : memoria_a_kernel'[i] = memoria_a_kernel[j]
      /\ \A op : Hay(memoria_a_kernel', op) => Hay(memoria_a_kernel, op)
  <2>1. CASE UNCHANGED memoria_a_kernel
    BY <2>1
  <2>2. CASE memoria_a_kernel # << >> /\ memoria_a_kernel' = Tail(memoria_a_kernel)
    <3>1. memoria_a_kernel \in Seq(KP!Mensaje)
      BY Tipado
    <3> QED BY <2>2, <3>1, Recibido
  <2> QED BY <1>0, <2>1, <2>2
<1>3. Asignares' = Asignares /\ Otros' = Otros
  BY <1>0 DEF Asignares, Otros
<1>4. Turno'
  BY <1>0, <1>3 DEF IInv, Turno
<1>5. Procesos'
  BY <1>0, <1>1, <1>3 DEF IInv, Procesos, PorPedir, memoria
<1>6. Pedidos'
  BY <1>0, <1>1, <1>3 DEF IInv, Pedidos, memoria, kernel_cpu
<1>7. Contextos'
  BY <1>0, <1>1, <1>2 DEF IInv, Contextos, ContextoDe, M!EsDe, memoria
<1>8. LadoKernel'
  <2>1. despacho'.fase = "escucha"
    BY <1>0 DEF K!Escucha
  <2> QED BY <1>0, <1>1, <1>2, <2>1 DEF IInv, LadoKernel, kernel_cpu
<1>9. LadoCpu'
  BY <1>0 DEF IInv, LadoCpu, Quieta, SinAccesos, Hay, EsFin, cpu, cpu_memoria, kernel_cpu
<1> QED BY <1>4, <1>5, <1>6, <1>7, <1>8, <1>9 DEF IInv

-----------------------------------------------------------------------------
(* memoria, when it serves the kernel *)

LEMMA MandaKernel ==
  ASSUME memoria_a_kernel \in Seq(KP!Mensaje), NEW m \in KP!Mensaje,
         memoria_a_kernel' = Append(memoria_a_kernel, m)
  PROVE  /\ memoria_a_kernel' # << >>
         /\ \A i \in DOMAIN memoria_a_kernel' :
              (\E j \in DOMAIN memoria_a_kernel : memoria_a_kernel'[i] = memoria_a_kernel[j])
              \/ memoria_a_kernel'[i] = m
         /\ \E i \in DOMAIN memoria_a_kernel' : memoria_a_kernel'[i] = m
         /\ \A op : Hay(memoria_a_kernel', op) => Hay(memoria_a_kernel, op) \/ m.op = op
<1> DEFINE n == Len(memoria_a_kernel)
<1>1. /\ n \in Nat /\ DOMAIN memoria_a_kernel = 1 .. n /\ DOMAIN memoria_a_kernel' = 1 .. n + 1
      /\ \A i \in 1 .. n : memoria_a_kernel'[i] = memoria_a_kernel[i]
      /\ memoria_a_kernel'[n + 1] = m /\ memoria_a_kernel' # << >>
  OBVIOUS
<1> HIDE DEF n
<1>2. /\ \A i \in DOMAIN memoria_a_kernel' :
           (\E j \in DOMAIN memoria_a_kernel : memoria_a_kernel'[i] = memoria_a_kernel[j])
           \/ memoria_a_kernel'[i] = m
      /\ \E i \in DOMAIN memoria_a_kernel' : memoria_a_kernel'[i] = m
  BY <1>1
<1>3. \A op : Hay(memoria_a_kernel', op) => Hay(memoria_a_kernel, op) \/ m.op = op
  BY <1>2 DEF Hay
<1> QED BY <1>1, <1>2, <1>3

\* What memoria keeps of the first process and its size, and of the partitions.
LEMMA MemoriaTipada ==
  ASSUME MP!IFijas
  PROVE  /\ m_pcb \in [Pids -> [estado : {"NEW", "READY", "EXIT"}, tam : Tamanios]]
         /\ lista_particiones \in Seq(MP!Particion) /\ lista_contextos \in Seq(MP!Contexto)
         /\ m_hilos \in [Pids \X (0 .. MaxTid) -> {"NO", "VIVO", "FIN"}]
         /\ 1 \in Pids
<1>1. 1 \in Pids
  BY CotasValidas DEF Pids
<1>2. MP!TypeOK
  BY DEF MP!IFijas
<1> QED BY <1>1, <1>2 DEF MP!TypeOK

\* The search gives the first process the partition ParteInicial says.
LEMMA PrimeraParte ==
  ASSUME TamPrimero \in Nat, lista_particiones \in M!ParticionesIniciales,
         NEW i, M!EvaluarParticion(TamPrimero, i)
  PROVE  /\ lista_particiones[i].base = ParteInicial.base
         /\ lista_particiones[i].limite = ParteInicial.limite
<1>1. PICK basura :
        lista_particiones = [k \in 1 .. M!NFijas |->
            [base    |-> M!Inicio[k],
             limite  |-> M!Limite(M!Inicio[k], ParticionesFijas[k]),
             tamanio |-> ParticionesFijas[k],
             libre   |-> TRUE,
             pid     |-> basura[k]]]
  BY DEF M!ParticionesIniciales
<1>2. /\ DOMAIN lista_particiones = 1 .. M!NFijas
      /\ \A k \in 1 .. M!NFijas :
           /\ lista_particiones[k].libre /\ lista_particiones[k].tamanio = ParticionesFijas[k]
           /\ lista_particiones[k].base = M!Inicio[k]
           /\ lista_particiones[k].limite = M!Limite(M!Inicio[k], ParticionesFijas[k])
  BY <1>1
<1>3. /\ M!NFijas \in Nat
      /\ \A k \in 1 .. M!NFijas : ParticionesFijas[k] \in Nat
  BY MemoriaValida DEF M!NFijas
<1>4. i \in 1 .. M!NFijas /\ ParticionesFijas[i] >= TamPrimero
  BY <1>2 DEF M!EvaluarParticion, M!Candidatas
<1>5. ASSUME NEW j \in 1 .. i - 1 PROVE ParticionesFijas[j] < TamPrimero
  <2>1. j \in 1 .. M!NFijas /\ ~(i <= j)
    BY <1>3, <1>4
  <2>2. ASSUME ParticionesFijas[j] >= TamPrimero PROVE FALSE
    <3>1. j \in M!Candidatas(TamPrimero)
      BY <1>2, <2>1, <2>2 DEF M!Candidatas
    <3>2. M!AntesEnBusqueda(i, j)
      BY <3>1 DEF M!EvaluarParticion
    <3>3. i <= j
      BY <3>2 DEF M!AntesEnBusqueda
    <3> QED BY <2>1, <3>3
  <2>3. ParticionesFijas[j] \in Nat
    BY <1>3, <2>1
  <2> QED BY <2>2, <2>3
<1>6. ParteInicial = [base   |-> M!Inicio[i],
                      limite |-> M!Limite(M!Inicio[i], ParticionesFijas[i])]
  BY <1>4, <1>5, ParteDelPrimero
<1> QED BY <1>2, <1>4, <1>6

\* ASIGNAR_MEMORIA for p: refused, and then memoria is dead and nothing else changes, or
\* given the partition the search finds.
LEMMA Asigna ==
  ASSUME MP!IFijas, NEW p, NEW tam, M!CrearProceso(p, tam)
  PROVE  /\ ~m_viva' => UNCHANGED <<lista_particiones, m_pcb>>
         /\ UNCHANGED <<m_hilos, lista_contextos, m_espera>>
         /\ m_viva' => \E i \in DOMAIN lista_particiones :
              /\ M!EvaluarParticion(tam, i) /\ lista_particiones[i].libre
              /\ lista_particiones' = [lista_particiones EXCEPT ![i].libre = FALSE, ![i].pid = p]
              /\ m_pcb' = IF p \in Pids THEN [m_pcb EXCEPT ![p].estado = "READY"] ELSE m_pcb
<1>1. m_viva /\ UNCHANGED <<m_hilos, lista_contextos>>
  BY DEF M!CrearProceso
<1>2. CASE M!AsignarParticionesFijas(p, tam)
  <2>1. PICK i \in DOMAIN lista_particiones :
              /\ M!EvaluarParticion(tam, i)
              /\ lista_particiones' = M!Ocupar(i, p)
    BY <1>2 DEF M!AsignarParticionesFijas
  <2>2. lista_particiones[i].libre
    BY <2>1 DEF M!EvaluarParticion, M!Candidatas
  <2>3. /\ m_pcb' = IF p \in Pids THEN [m_pcb EXCEPT ![p].estado = "READY"] ELSE m_pcb
        /\ UNCHANGED <<m_viva, m_espera>>
    BY <1>2 DEF M!AsignarParticionesFijas, M!Responder
  <2> QED BY <1>1, <2>1, <2>2, <2>3 DEF M!Ocupar
<1>3. CASE M!AsignarFijasSinLugar(tam)
  BY <1>1, <1>3 DEF M!AsignarFijasSinLugar
<1> QED BY <1>2, <1>3 DEF M!CrearProceso, M!AsignarParticionesDinamicas, M!AsignarDinamicasSinLugar

\* What the request is for, and what becomes of the sockets.
LEMMA AsignarHace ==
  ASSUME KP!Fase, KP!IInv, MP!IFijas, IInv, AsignarMemoria, m_viva'
  PROVE  \E p, tam :
           /\ M!CrearProceso(p, tam)
           /\ \/ p \in Pids /\ m_pcb[p].estado = "NEW" /\ tam = m_pcb[p].tam
              \/ p \notin Pids
           /\ lista_tcbs = << >> => p = 1
           /\ 1 \in Asignares /\ Asignares' = {}
           /\ \A i \in Otros' : i + 1 \in Otros /\ kernel_a_memoria'[i] = kernel_a_memoria[i + 1]
           /\ memoria_a_kernel' # << >>
           /\ \A i \in DOMAIN memoria_a_kernel' :
                /\ memoria_a_kernel'[i].op \in {"CONFIRMAR_ESPACIO_PROCESO", "CONFIRMAR_CREACION_HILO"}
                /\ memoria_a_kernel'[i].bit = 1
           /\ Hay(memoria_a_kernel', "CONFIRMAR_CREACION_HILO") =>
                Hay(memoria_a_kernel, "CONFIRMAR_CREACION_HILO")
<1> DEFINE h == Head(kernel_a_memoria)
           m == K!Msg("CONFIRMAR_ESPACIO_PROCESO", h.pid, K!Nadie, 1)
<1>1. /\ kernel_a_memoria # << >> /\ h.op = "ASIGNAR_MEMORIA"
      /\ kernel_a_memoria' = Tail(kernel_a_memoria)
      /\ memoria_a_kernel' = Append(memoria_a_kernel, m)
      /\ \/ h.pid # K!Basura /\ M!PedirProceso(h.pid)
         \/ h.pid = K!Basura /\ M!PedirBasura
  BY DEF AsignarMemoria, Pide, Responder
<1>2. kernel_a_memoria \in Seq(KP!Mensaje) /\ memoria_a_kernel \in Seq(KP!Mensaje)
  BY Tipado
<1>3. h \in KP!Mensaje
  BY <1>1, <1>2, Cabeza, Zenon
<1>4. m \in KP!Mensaje /\ m.op = "CONFIRMAR_ESPACIO_PROCESO" /\ m.bit = 1
  <2>1. h.pid \in Int
    BY <1>3 DEF KP!Mensaje
  <2> HIDE DEF h
  <2> QED BY <2>1, MensajeTipo DEF K!Nadie
<1>5. /\ h = kernel_a_memoria[1] /\ 1 \in Asignares /\ Asignares' = {}
      /\ \A i \in Otros' : i + 1 \in Otros /\ kernel_a_memoria'[i] = kernel_a_memoria[i + 1]
  <2>1. \A i, j \in Asignares : i = j
    BY DEF IInv, Turno
  <2> QED BY <1>1, <1>2, <2>1, Saca
<1> HIDE DEF m
<1>6. /\ memoria_a_kernel' # << >>
      /\ \A i \in DOMAIN memoria_a_kernel' :
           (\E j \in DOMAIN memoria_a_kernel : memoria_a_kernel'[i] = memoria_a_kernel[j])
           \/ memoria_a_kernel'[i] = m
      /\ \A op : Hay(memoria_a_kernel', op) => Hay(memoria_a_kernel, op) \/ m.op = op
  BY <1>1, <1>2, <1>4, MandaKernel
<1>7. \A i \in DOMAIN memoria_a_kernel' :
        /\ memoria_a_kernel'[i].op \in {"CONFIRMAR_ESPACIO_PROCESO", "CONFIRMAR_CREACION_HILO"}
        /\ memoria_a_kernel'[i].bit = 1
  BY <1>4, <1>6 DEF IInv, LadoKernel
<1>8. Hay(memoria_a_kernel', "CONFIRMAR_CREACION_HILO") =>
        Hay(memoria_a_kernel, "CONFIRMAR_CREACION_HILO")
  BY <1>4, <1>6
<1>9. ASSUME lista_tcbs = << >> PROVE h.pid = 1
  <2>1. sem_plani_largo_plazo = 0 /\ Asignares # {}
    BY <1>5 DEF IInv, Turno
  <2>2. Pidiendo
    BY <1>9, Donde DEF Creando, Listo, Despachado, IInv, LadoKernel
  <2>3. kernel_a_memoria = <<K!Msg("ASIGNAR_MEMORIA", 1, -1, -1)>>
    BY <1>1, <2>1, <2>2 DEF Pidiendo
  <2> QED BY <1>5, <2>3 DEF K!Msg
<1>10. CASE h.pid # K!Basura
  <2>1. h.pid \in Pids /\ m_pcb[h.pid].estado = "NEW"
    BY <1>5, <1>10 DEF IInv, Procesos
  <2>2. M!CrearProceso(h.pid, m_pcb[h.pid].tam)
    BY <1>1, <1>10 DEF M!PedirProceso
  <2> QED BY <1>5, <1>6, <1>7, <1>8, <1>9, <2>1, <2>2
<1>11. CASE h.pid = K!Basura
  <2>1. PICK g \in PidBasura \ Pids, tam \in Tamanios : M!CrearProceso(g, tam)
    BY <1>1, <1>11 DEF M!PedirBasura
  <2>2. lista_tcbs # << >>
    BY <1>9, <1>11 DEF K!Basura
  <2> QED BY <1>5, <1>6, <1>7, <1>8, <2>1, <2>2
<1> QED BY <1>10, <1>11

LEMMA AsignarMemoriaPaso ==
  ASSUME KP!Fase, KP!IInv, MP!IFijas, IInv, AsignarMemoria PROVE IInv'
<1>0. UNCHANGED Ajeno
  BY DEF AsignarMemoria
<1>1. UNCHANGED <<a_cpu, cola_new, tcb, lista_tcbs, oyente, sem_plani_largo_plazo, syscalls,
                  despacho, cpu_a_kernel, guion>>
  BY <1>0 DEF Ajeno, kernel, kernel_cpu
<1>2. LadoCpu'
  BY <1>0, <1>1 DEF IInv, LadoCpu, Quieta, SinAccesos, Hay, EsFin, Ajeno, cpu, cpu_memoria, kernel_cpu
<1>3. CASE ~m_viva'
  <2>1. \E p, tam : M!CrearProceso(p, tam)
    BY DEF AsignarMemoria, M!PedirProceso, M!PedirBasura
  <2>2. /\ UNCHANGED <<lista_particiones, m_pcb, m_hilos, lista_contextos>>
        /\ UNCHANGED kernel_memoria
    BY <1>3, <2>1, Asigna DEF AsignarMemoria
  <2>3. UNCHANGED <<kernel_a_memoria, memoria_a_kernel>>
    BY <2>2 DEF kernel_memoria
  <2>4. Asignares' = Asignares /\ Otros' = Otros
    BY <2>3 DEF Asignares, Otros
  <2>5. Turno' /\ Procesos'
    BY <1>1, <2>2, <2>3, <2>4 DEF IInv, Turno, Procesos, PorPedir
  <2>6. Pedidos'
    BY <1>1, <2>2, <2>3, <2>4 DEF IInv, Pedidos
  <2>7. Contextos'
    BY <1>1, <2>2, <2>3 DEF IInv, Contextos, ContextoDe, Hay, M!EsDe
  <2>8. LadoKernel'
    BY <1>1, <2>3 DEF IInv, LadoKernel
  <2> QED BY <1>2, <2>5, <2>6, <2>7, <2>8 DEF IInv
<1>4. CASE m_viva'
  <2>1. PICK p, tam :
           /\ M!CrearProceso(p, tam)
           /\ \/ p \in Pids /\ m_pcb[p].estado = "NEW" /\ tam = m_pcb[p].tam
              \/ p \notin Pids
           /\ lista_tcbs = << >> => p = 1
           /\ 1 \in Asignares /\ Asignares' = {}
           /\ \A i \in Otros' : i + 1 \in Otros /\ kernel_a_memoria'[i] = kernel_a_memoria[i + 1]
           /\ memoria_a_kernel' # << >>
           /\ \A i \in DOMAIN memoria_a_kernel' :
                /\ memoria_a_kernel'[i].op \in {"CONFIRMAR_ESPACIO_PROCESO", "CONFIRMAR_CREACION_HILO"}
                /\ memoria_a_kernel'[i].bit = 1
           /\ Hay(memoria_a_kernel', "CONFIRMAR_CREACION_HILO") =>
                Hay(memoria_a_kernel, "CONFIRMAR_CREACION_HILO")
    BY <1>4, AsignarHace
  <2>2. PICK i \in DOMAIN lista_particiones :
          /\ M!EvaluarParticion(tam, i) /\ lista_particiones[i].libre
          /\ lista_particiones' = [lista_particiones EXCEPT ![i].libre = FALSE, ![i].pid = p]
          /\ m_pcb' = IF p \in Pids THEN [m_pcb EXCEPT ![p].estado = "READY"] ELSE m_pcb
    BY <1>4, <2>1, Asigna
  <2>3. UNCHANGED <<m_hilos, lista_contextos>>
    BY <2>1, Asigna
  <2>4. /\ m_pcb \in [Pids -> [estado : {"NEW", "READY", "EXIT"}, tam : Tamanios]]
        /\ lista_particiones \in Seq(MP!Particion) /\ 1 \in Pids
    BY MemoriaTipada
  <2>5. /\ \A q \in Pids \ {p} : m_pcb'[q] = m_pcb[q]
        /\ m_pcb'[1].tam = m_pcb[1].tam
        /\ p = 1 => m_pcb'[1].estado = "READY"
    BY <2>2, <2>4
  <2>6. m_pcb[1].tam = TamPrimero /\ TamPrimero \in Nat
    <3>1. m_pcb[1].tam \in Tamanios
      BY <2>4
    <3> QED BY <3>1, MemoriaValida DEF IInv, Procesos
  <2>7. Turno'
    BY <1>1, <2>1 DEF IInv, Turno
  <2>8. sem_plani_largo_plazo = 0 /\ oyente # "post" /\ PorPedir
    BY <2>1 DEF IInv, Turno, PorPedir
  <2>9. /\ DOMAIN lista_particiones' = DOMAIN lista_particiones
        /\ \A j \in DOMAIN lista_particiones \ {i} : lista_particiones'[j] = lista_particiones[j]
        /\ lista_particiones'[i].base = lista_particiones[i].base
        /\ lista_particiones'[i].limite = lista_particiones[i].limite
        /\ lista_particiones'[i].pid = p /\ ~lista_particiones'[i].libre
    <3>1. lista_particiones[i] \in MP!Particion
      BY <2>4
    <3>2. lista_particiones[i] = [base |-> lista_particiones[i].base,
            limite |-> lista_particiones[i].limite, tamanio |-> lista_particiones[i].tamanio,
            libre |-> lista_particiones[i].libre, pid |-> lista_particiones[i].pid]
      BY <3>1 DEF MP!Particion
    <3> QED BY <2>2, <2>4, <3>2
  <2>10. LadoKernel'
    BY <1>1, <2>1 DEF IInv, LadoKernel
  <2>11. CASE lista_tcbs = << >>
    <3>1. p = 1 /\ tam = TamPrimero
      BY <2>1, <2>4, <2>6, <2>11
    <3>2. Pidiendo
      BY <2>11, Donde DEF Creando, Listo, Despachado, IInv, LadoKernel
    <3>3. memoria_a_kernel = << >> /\ a_cpu = << >> /\ oyente = "escucha"
      BY <2>1, <2>8, <3>2 DEF Pidiendo, Asignares
    <3>4. lista_particiones \in M!ParticionesIniciales
      BY <2>11, <3>3 DEF IInv, Procesos
    <3>5. lista_particiones[i].base = ParteInicial.base /\ lista_particiones[i].limite = ParteInicial.limite
      BY <2>2, <2>6, <3>1, <3>4, PrimeraParte
    <3>6. syscalls = 0
      BY <3>3, SinCpu
    <3>7. Otros' = {}
      <4>1. Pidiendo /\ sem_plani_largo_plazo = 0 /\ kernel_a_memoria # << >>
        BY <2>1, <2>8, <3>2 DEF Asignares
      <4>2. kernel_a_memoria = <<K!Msg("ASIGNAR_MEMORIA", 1, -1, -1)>>
        BY <4>1 DEF Pidiendo
      <4>3. K!Msg("ASIGNAR_MEMORIA", 1, -1, -1).op = "ASIGNAR_MEMORIA"
        BY DEF K!Msg
      <4>4. Otros = {}
        BY <4>2, <4>3 DEF Otros
      <4> QED BY <2>1, <4>4
    <3>8. Procesos'
      BY <1>1, <2>1, <2>5, <2>8, <2>11, <3>1 DEF IInv, Procesos
    <3>9. Pedidos'
      BY <1>1, <2>5, <3>1, <3>7 DEF Pedidos
    <3>10. Contextos'
      <4>1. Hay(memoria_a_kernel, "CONFIRMAR_CREACION_HILO") = FALSE
        <5>1. DOMAIN << >> = {}
          OBVIOUS
        <5> QED BY <3>3, <5>1, Zenon DEF Hay
      <4>2. (\E k \in DOMAIN lista_particiones :
               /\ M!EsDe(k, 1) /\ lista_particiones[k].base = ParteInicial.base
               /\ lista_particiones[k].limite = ParteInicial.limite)'
        BY <2>9, <3>1, <3>5 DEF M!EsDe
      <4> QED BY <1>1, <2>1, <2>3, <3>3, <4>1, <4>2 DEF IInv, Contextos, ContextoDe
    <3> QED BY <1>2, <2>7, <2>10, <3>8, <3>9, <3>10 DEF IInv
  <2>12. CASE lista_tcbs # << >>
    <3>1. m_pcb[1].estado # "NEW"
      BY <2>12 DEF IInv, Procesos
    <3>2. p # 1 /\ m_pcb'[1] = m_pcb[1]
      BY <2>1, <2>4, <2>5, <3>1
    <3>3. ~PorPedir'
      BY <1>1, <2>1, <2>8, <2>12 DEF PorPedir
    <3>4. Procesos'
      BY <1>1, <2>1, <2>12, <3>1, <3>2, <3>3 DEF IInv, Procesos
    <3>5. ASSUME Otros' # {} PROVE syscalls = 1
      <4>1. Otros # {}
        BY <2>1, <3>5
      <4>2. SUFFICES ASSUME memoria_a_kernel = << >>, oyente # "corto" PROVE FALSE
        BY <4>1 DEF IInv, Pedidos
      <4>3. kernel_a_memoria # << >> /\ Head(kernel_a_memoria).op = "ASIGNAR_MEMORIA"
        BY DEF AsignarMemoria, Pide
      <4> QED BY <2>12, <4>2, <4>3, Donde DEF Pidiendo, Creando, Listo, Despachado
    <3>6. Pedidos'
      <4>1. ASSUME NEW k \in Otros'
            PROVE  LET q == kernel_a_memoria'[k]
                   IN /\ q.pid = 1 /\ m_pcb'[1].estado = "READY"
                      /\ \/ /\ q.op = "HILO_READY" /\ q.tid \in 0 .. MaxTid
                            /\ m_hilos'[<<1, q.tid>>] = "NO"
                            /\ syscalls' = 0 => q.tid = 0
                         \/ q.op = "FINALIZAR_PROCESO" /\ syscalls' = 1 /\ EsFin(cpu_a_kernel')
        BY <1>1, <2>1, <2>3, <3>2 DEF IInv, Pedidos
      <4>2. \A k, j \in Otros' : k = j
        <5>1. \A k \in Otros' : k \in Int
          <6>1. kernel_a_memoria \in Seq(KP!Mensaje) /\ kernel_a_memoria # << >>
                /\ kernel_a_memoria' = Tail(kernel_a_memoria)
            BY <1>4, Tipado DEF AsignarMemoria, Pide, Responder
          <6> QED BY <6>1, Saca
        <5>2. \A k, j \in Otros' : k + 1 = j + 1
          BY <2>1 DEF IInv, Pedidos
        <5> QED BY <5>1, <5>2
      <4>3. m_pcb'[1].estado = "EXIT" => syscalls' = 1 /\ EsFin(cpu_a_kernel')
        BY <1>1, <3>2 DEF IInv, Pedidos
      <4> QED BY <1>1, <3>5, <4>1, <4>2, <4>3 DEF Pedidos
    <3>7. Contextos'
      <4>1. m_pcb'[1].estado = "READY" =>
              (\E k \in DOMAIN lista_particiones :
                 /\ M!EsDe(k, 1) /\ lista_particiones[k].base = ParteInicial.base
                 /\ lista_particiones[k].limite = ParteInicial.limite)'
        BY <2>2, <2>9, <3>2 DEF IInv, Contextos, M!EsDe
      <4> QED BY <1>1, <2>1, <2>3, <2>12, <4>1 DEF IInv, Contextos, ContextoDe
    <3> QED BY <1>2, <2>7, <2>10, <3>4, <3>6, <3>7 DEF IInv
  <2> QED BY <2>11, <2>12
<1> QED BY <1>3, <1>4

\* A request that is not ASIGNAR_MEMORIA is for the first process, and the only one.
LEMMA Otro ==
  ASSUME KP!IInv, MP!IFijas, IInv, kernel_a_memoria # << >>,
         Head(kernel_a_memoria).op # "ASIGNAR_MEMORIA",
         kernel_a_memoria' = Tail(kernel_a_memoria)
  PROVE  /\ Head(kernel_a_memoria) = kernel_a_memoria[1] /\ 1 \in Otros /\ Otros' = {}
         /\ \A i \in Asignares' :
              i \in Int /\ i + 1 \in Asignares /\ kernel_a_memoria'[i] = kernel_a_memoria[i + 1]
         /\ \A i, j \in Asignares' : i = j
         /\ Head(kernel_a_memoria).pid = 1 /\ m_pcb[1].estado = "READY"
         /\ Head(kernel_a_memoria).op \in {"HILO_READY", "FINALIZAR_PROCESO"}
<1>1. kernel_a_memoria \in Seq(KP!Mensaje)
  BY Tipado
<1>2. (\A i, j \in Otros : i = j) /\ (\A i, j \in Asignares : i = j)
  BY DEF IInv, Pedidos, Turno
<1>3. /\ Head(kernel_a_memoria) = kernel_a_memoria[1] /\ 1 \in Otros /\ Otros' = {}
      /\ \A i \in Asignares' :
           i \in Int /\ i + 1 \in Asignares /\ kernel_a_memoria'[i] = kernel_a_memoria[i + 1]
  BY <1>1, <1>2, Saca
<1>4. \A i, j \in Asignares' : i = j
  <2>1. \A i, j \in Asignares' : i + 1 = j + 1 /\ i \in Int /\ j \in Int
    BY <1>2, <1>3
  <2> QED BY <2>1
<1>5. /\ kernel_a_memoria[1].pid = 1 /\ m_pcb[1].estado = "READY"
      /\ kernel_a_memoria[1].op \in {"HILO_READY", "FINALIZAR_PROCESO"}
  BY <1>3 DEF IInv, Pedidos
<1> QED BY <1>3, <1>4, <1>5

\* The context HILO_READY makes is that of the partition the process was given.
LEMMA Crea ==
  ASSUME MP!IFijas, IInv, NEW t \in 0 .. MaxTid, M!CrearHilo(1, t), m_pcb[1].estado = "READY"
  PROVE  /\ m_viva' = m_viva /\ UNCHANGED <<lista_particiones, m_pcb>>
         /\ m_hilos' = [m_hilos EXCEPT ![<<1, t>>] = "VIVO"]
         /\ lista_contextos' = Append(lista_contextos,
              [pid |-> 1, tid |-> t, base |-> ParteInicial.base, limite |-> ParteInicial.limite])
<1>1. 1 \in Pids /\ lista_particiones \in Seq(MP!Particion)
  BY MemoriaTipada
<1>2. PICK i \in DOMAIN lista_particiones :
        /\ M!EsDe(i, 1)
        /\ lista_particiones[i].base = ParteInicial.base
        /\ lista_particiones[i].limite = ParteInicial.limite
  BY DEF IInv, Contextos
<1>3. ASSUME NEW j \in DOMAIN lista_particiones, lista_particiones[j].pid = 1 PROVE j = i
  <2>1. ~lista_particiones[j].libre
    BY <1>1, <1>3 DEF MP!IFijas, MP!LibreSinProceso
  <2>2. MP!EsDe(j, 1) /\ MP!EsDe(i, 1)
    BY <1>2, <1>3, <2>1 DEF MP!EsDe, M!EsDe
  <2> QED BY <1>1, <2>2, <1>2 DEF MP!IFijas, MP!UnaParticionPorProceso
<1>4. M!BuscarParticionPorPid(1, i)
  <2>1. \A j \in 1 .. i - 1 : j \in DOMAIN lista_particiones /\ j # i
    BY <1>1
  <2> QED BY <1>2, <1>3, <2>1 DEF M!BuscarParticionPorPid, M!EsDe
<1>5. \A j \in DOMAIN lista_particiones : M!BuscarParticionPorPid(1, j) => j = i
  BY <1>3 DEF M!BuscarParticionPorPid
<1> QED BY <1>2, <1>4, <1>5 DEF M!CrearHilo

LEMMA CrearHiloPaso ==
  ASSUME KP!Fase, KP!IInv, MP!IFijas, IInv, CrearHilo PROVE IInv'
<1> DEFINE h == Head(kernel_a_memoria)
           t == h.tid
           m == K!Msg("CONFIRMAR_CREACION_HILO", h.pid, t, 1)
           c == [pid |-> 1, tid |-> t, base |-> ParteInicial.base, limite |-> ParteInicial.limite]
<1>0. /\ m_viva /\ kernel_a_memoria # << >> /\ h.op = "HILO_READY" /\ M!CrearHilo(h.pid, t)
      /\ m_viva' => Responder("CONFIRMAR_CREACION_HILO", t, 1)
      /\ UNCHANGED Ajeno
  BY DEF CrearHilo, Pide
<1>1. UNCHANGED <<a_cpu, cola_new, tcb, lista_tcbs, oyente, sem_plani_largo_plazo, syscalls,
                  despacho, cpu_a_kernel, guion>>
  BY <1>0 DEF Ajeno, kernel, kernel_cpu
<1>2. LadoCpu'
  BY <1>0, <1>1 DEF IInv, LadoCpu, Quieta, SinAccesos, Hay, EsFin, Ajeno, cpu, cpu_memoria, kernel_cpu
<1>3. kernel_a_memoria \in Seq(KP!Mensaje) /\ memoria_a_kernel \in Seq(KP!Mensaje)
  BY Tipado
<1>4. h = kernel_a_memoria[1] /\ 1 \in Otros
  <2>1. 1 \in DOMAIN kernel_a_memoria /\ h = kernel_a_memoria[1]
    BY <1>0, <1>3, Cabeza, Zenon
  <2> QED BY <1>0, <2>1 DEF Otros
<1>5. /\ h.pid = 1 /\ m_pcb[1].estado = "READY" /\ t \in 0 .. MaxTid
      /\ syscalls = 0 => t = 0
  BY <1>0, <1>4 DEF IInv, Pedidos
<1>6. /\ m_viva' /\ UNCHANGED <<lista_particiones, m_pcb>>
      /\ m_hilos' = [m_hilos EXCEPT ![<<1, t>>] = "VIVO"]
      /\ lista_contextos' = Append(lista_contextos, c)
  <2> HIDE DEF t
  <2> QED BY <1>0, <1>5, Crea
<1>7. /\ kernel_a_memoria' = Tail(kernel_a_memoria)
      /\ memoria_a_kernel' = Append(memoria_a_kernel, m)
  BY <1>0, <1>6 DEF Responder
<1>8. /\ Otros' = {} /\ \A i, j \in Asignares' : i = j
      /\ \A i \in Asignares' :
           i + 1 \in Asignares /\ kernel_a_memoria'[i] = kernel_a_memoria[i + 1]
  BY <1>0, <1>7, Otro
<1> HIDE DEF c, t
<1>9. m \in KP!Mensaje /\ m.op = "CONFIRMAR_CREACION_HILO" /\ m.bit = 1
  <2>1. h.pid \in Int /\ t \in Int
    BY <1>5, CotasValidas
  <2> HIDE DEF h
  <2> QED BY <2>1, MensajeTipo
<1> HIDE DEF m, h
<1>10. /\ memoria_a_kernel' # << >>
       /\ \A i \in DOMAIN memoria_a_kernel' :
            (\E j \in DOMAIN memoria_a_kernel : memoria_a_kernel'[i] = memoria_a_kernel[j])
            \/ memoria_a_kernel'[i] = m
  BY <1>3, <1>7, <1>9, MandaKernel
<1>11. LadoKernel'
  BY <1>1, <1>9, <1>10 DEF IInv, LadoKernel
<1>12. Turno'
  BY <1>1, <1>8 DEF IInv, Turno
<1>13. lista_tcbs # << >>
  <2> SUFFICES ASSUME lista_tcbs = << >> PROVE FALSE
    OBVIOUS
  <2>1. Pidiendo
    BY Donde DEF Creando, Listo, Despachado, IInv, LadoKernel
  <2>2. kernel_a_memoria = <<K!Msg("ASIGNAR_MEMORIA", 1, -1, -1)>>
    BY <1>0, <2>1 DEF Pidiendo
  <2> QED BY <1>0, <1>4, <2>2 DEF K!Msg
<1>14. Procesos'
  <2>1. PorPedir' => PorPedir
    BY <1>1, <1>8 DEF PorPedir
  <2> QED BY <1>1, <1>5, <1>6, <1>8, <1>10, <1>13, <2>1 DEF IInv, Procesos
<1>15. Pedidos'
  BY <1>5, <1>6, <1>8 DEF Pedidos
<1>16. Contextos'
  <2>1. /\ m_hilos \in [Pids \X (0 .. MaxTid) -> {"NO", "VIVO", "FIN"}] /\ 1 \in Pids
        /\ lista_contextos \in Seq(MP!Contexto)
    BY MemoriaTipada
  <2>2. /\ m_hilos'[<<1, t>>] = "VIVO"
        /\ \A k \in 0 .. MaxTid : k # t => m_hilos'[<<1, k>>] = m_hilos[<<1, k>>]
    <3>1. \A k \in 0 .. MaxTid : <<1, k>> \in Pids \X (0 .. MaxTid)
      BY <2>1
    <3>2. \A k \in 0 .. MaxTid : k # t => <<1, k>> # <<1, t>>
      OBVIOUS
    <3> QED BY <1>5, <1>6, <2>1, <3>1, <3>2
  <2>3. syscalls = 0 => \A k \in 1 .. MaxTid : m_hilos'[<<1, k>>] = "NO"
    <3> SUFFICES ASSUME syscalls = 0, NEW k \in 1 .. MaxTid PROVE m_hilos'[<<1, k>>] = "NO"
      OBVIOUS
    <3>1. k # t /\ k \in 0 .. MaxTid
      BY <1>5, CotasValidas
    <3> QED BY <2>2, <3>1 DEF IInv, Contextos
  <2>4. 0 \in 0 .. MaxTid
    BY CotasValidas
  <2>5. m_hilos'[<<1, 0>>] = "VIVO"
    <3>1. CASE t = 0
      BY <2>2, <3>1
    <3>2. CASE t # 0
      <4>1. oyente = "corto"
        BY <1>5, <3>2, Sirviendo, Donde DEF Pidiendo, Creando, Listo, Despachado
      <4> QED BY <2>2, <2>4, <3>2, <4>1 DEF IInv, Contextos
    <3> QED BY <3>1, <3>2
  <2>6. /\ \A k \in DOMAIN lista_contextos :
             k \in DOMAIN lista_contextos' /\ lista_contextos'[k] = lista_contextos[k]
        /\ \E k \in DOMAIN lista_contextos' : lista_contextos'[k] = c
    <3> DEFINE S == MP!Contexto \cup {c}
               n == Len(lista_contextos)
    <3>1. lista_contextos \in Seq(S) /\ c \in S
      BY <2>1
    <3> HIDE DEF S
    <3>2. /\ n \in Nat /\ DOMAIN lista_contextos = 1 .. n /\ DOMAIN lista_contextos' = 1 .. n + 1
          /\ \A k \in 1 .. n : lista_contextos'[k] = lista_contextos[k]
          /\ lista_contextos'[n + 1] = c
      BY <1>6, <3>1
    <3> HIDE DEF n
    <3> QED BY <3>2
  <2>7. ContextoDe(<<1, 0>>)'
    <3>1. CASE t = 0
      <4>0. /\ ParteInicial \in [base : 0 .. Modulo - 1, limite : 0 .. Modulo - 1]
            /\ [base |-> ParteInicial.base, limite |-> ParteInicial.limite] = ParteInicial
        BY CpuValida
      <4>1. /\ c.pid = 1 /\ c.tid = 0
            /\ [base |-> c.base, limite |-> c.limite] = ParteInicial
        BY <3>1, <4>0 DEF c
      <4>2. PICK k \in DOMAIN lista_contextos' : lista_contextos'[k] = c
        BY <2>6
      <4> QED BY <4>1, <4>2 DEF ContextoDe
    <3>2. CASE t # 0
      <4>1. ContextoDe(<<1, 0>>)
        <5>1. m_hilos[<<1, 0>>] = "VIVO"
          BY <2>2, <2>4, <2>5, <3>2
        <5> QED BY <5>1 DEF IInv, Contextos
      <4>2. PICK k \in DOMAIN lista_contextos :
              /\ lista_contextos[k].pid = <<1, 0>>[1] /\ lista_contextos[k].tid = <<1, 0>>[2]
              /\ [base |-> lista_contextos[k].base, limite |-> lista_contextos[k].limite] = ParteInicial
        BY <4>1 DEF ContextoDe
      <4> QED BY <2>6, <4>2 DEF ContextoDe
    <3> QED BY <3>1, <3>2
  <2>8. m_pcb'[1].estado = "READY" =>
          (\E k \in DOMAIN lista_particiones :
             /\ M!EsDe(k, 1) /\ lista_particiones[k].base = ParteInicial.base
             /\ lista_particiones[k].limite = ParteInicial.limite)'
    BY <1>6 DEF IInv, Contextos, M!EsDe
  <2> QED BY <1>1, <1>13, <2>3, <2>5, <2>7, <2>8 DEF Contextos
<1> QED BY <1>2, <1>11, <1>12, <1>14, <1>15, <1>16 DEF IInv

LEMMA FinalizarProcesoPaso ==
  ASSUME KP!Fase, KP!IInv, MP!IFijas, IInv, FinalizarProceso PROVE IInv'
<1> DEFINE h == Head(kernel_a_memoria)
<1>0. /\ kernel_a_memoria # << >> /\ h.op = "FINALIZAR_PROCESO" /\ M!FinalizarProceso(h.pid)
      /\ kernel_a_memoria' = Tail(kernel_a_memoria)
      /\ UNCHANGED <<Ajeno, memoria_a_kernel>>
  BY DEF FinalizarProceso, Pide
<1>1. UNCHANGED <<a_cpu, cola_new, tcb, lista_tcbs, oyente, sem_plani_largo_plazo, syscalls,
                  despacho, cpu_a_kernel, guion>>
  BY <1>0 DEF Ajeno, kernel, kernel_cpu
<1>2. LadoCpu'
  BY <1>0, <1>1 DEF IInv, LadoCpu, Quieta, SinAccesos, Hay, EsFin, Ajeno, cpu, cpu_memoria, kernel_cpu
<1>3. /\ h = kernel_a_memoria[1] /\ 1 \in Otros
      /\ Otros' = {} /\ h.pid = 1 /\ m_pcb[1].estado = "READY"
      /\ \A i, j \in Asignares' : i = j
      /\ \A i \in Asignares' :
           i + 1 \in Asignares /\ kernel_a_memoria'[i] = kernel_a_memoria[i + 1]
  BY <1>0, Otro
<1>4. syscalls = 1 /\ EsFin(cpu_a_kernel)
  BY <1>0, <1>3 DEF IInv, Pedidos
<1>5. lista_tcbs # << >>
  BY <1>4, Sirviendo
<1>6. /\ m_pcb' = [m_pcb EXCEPT ![1].estado = "EXIT"]
      /\ UNCHANGED <<m_hilos, lista_contextos>>
  BY <1>0, <1>3 DEF M!FinalizarProceso
<1>7. /\ m_pcb'[1].estado = "EXIT" /\ m_pcb'[1].tam = m_pcb[1].tam
      /\ \A p \in Pids \ {1} : m_pcb'[p] = m_pcb[p]
  <2>1. m_pcb \in [Pids -> [estado : {"NEW", "READY", "EXIT"}, tam : Tamanios]] /\ 1 \in Pids
    BY MemoriaTipada
  <2> QED BY <1>6, <2>1
<1>8. Turno'
  BY <1>1, <1>3 DEF IInv, Turno
<1>9. Procesos'
  <2>1. PorPedir' => PorPedir
    BY <1>1, <1>3 DEF PorPedir
  <2>2. ASSUME NEW i \in Asignares'
        PROVE  \/ kernel_a_memoria'[i].pid = K!Basura
               \/ /\ kernel_a_memoria'[i].pid \in Pids
                  /\ m_pcb'[kernel_a_memoria'[i].pid].estado = "NEW"
    <3> DEFINE p == kernel_a_memoria[i + 1].pid
    <3>1. p = K!Basura \/ (p \in Pids /\ m_pcb[p].estado = "NEW")
      BY <1>3 DEF IInv, Procesos
    <3>2. kernel_a_memoria'[i].pid = p
      BY <1>3
    <3> HIDE DEF p
    <3> QED BY <1>3, <1>7, <3>1, <3>2
  <2>3. PorPedir' => \A p \in Pids \ {1} : m_pcb'[p].estado = "NEW"
    BY <1>7, <2>1 DEF IInv, Procesos
  <2> QED BY <1>0, <1>1, <1>5, <1>7, <2>2, <2>3 DEF IInv, Procesos
<1>10. Pedidos'
  BY <1>1, <1>3, <1>4 DEF Pedidos
<1>11. Contextos'
  BY <1>0, <1>1, <1>4, <1>5, <1>6, <1>7 DEF IInv, Contextos, ContextoDe, Hay
<1>12. LadoKernel'
  BY <1>0, <1>1 DEF IInv, LadoKernel
<1> QED BY <1>2, <1>8, <1>9, <1>10, <1>11, <1>12 DEF IInv

-----------------------------------------------------------------------------
(* What the step is for memoria and for the CPU *)

LEMMA PasoDeM ==
  ASSUME KP!IInv, MP!IFijas, IInv, [Next]_vars PROVE [M!Next]_M!vars
<1>1. ASSUME UNCHANGED memoria PROVE UNCHANGED M!vars
  BY <1>1 DEF memoria, M!vars
<1>2. CASE AsignarMemoria
  <2>1. CASE Head(kernel_a_memoria).pid # K!Basura
    <3>1. kernel_a_memoria \in Seq(KP!Mensaje) /\ kernel_a_memoria # << >>
          /\ Head(kernel_a_memoria).op = "ASIGNAR_MEMORIA"
      BY <1>2, Tipado DEF AsignarMemoria, Pide
    <3>2. Head(kernel_a_memoria) = kernel_a_memoria[1] /\ 1 \in DOMAIN kernel_a_memoria
      BY <3>1, Cabeza, Zenon
    <3>3. Head(kernel_a_memoria).pid \in Pids
      BY <2>1, <3>1, <3>2 DEF IInv, Procesos, Asignares
    <3> QED BY <1>2, <2>1, <3>3 DEF AsignarMemoria, M!Next
  <2>2. CASE Head(kernel_a_memoria).pid = K!Basura
    BY <1>2, <2>2 DEF AsignarMemoria, M!Next
  <2> QED BY <2>1, <2>2
<1>3. CASE CrearHilo \/ FinalizarProceso
  <2>1. /\ kernel_a_memoria \in Seq(KP!Mensaje) /\ kernel_a_memoria # << >>
        /\ Head(kernel_a_memoria).op # "ASIGNAR_MEMORIA"
    BY <1>3, Tipado DEF CrearHilo, FinalizarProceso, Pide
  <2>2. Head(kernel_a_memoria) = kernel_a_memoria[1] /\ 1 \in DOMAIN kernel_a_memoria
    BY <2>1, Cabeza, Zenon
  <2>3. 1 \in Otros /\ 1 \in Pids
    BY <2>1, <2>2, MemoriaTipada DEF Otros
  <2>4. CASE CrearHilo
    <3>1. Head(kernel_a_memoria).op = "HILO_READY"
      BY <2>4 DEF CrearHilo, Pide
    <3>2. Head(kernel_a_memoria).pid = 1 /\ Head(kernel_a_memoria).tid \in 0 .. MaxTid
      BY <2>2, <2>3, <3>1 DEF IInv, Pedidos
    <3> QED BY <2>3, <2>4, <3>2 DEF CrearHilo, M!Next
  <2>5. CASE FinalizarProceso
    <3>1. Head(kernel_a_memoria).pid = 1
      BY <2>2, <2>3 DEF IInv, Pedidos
    <3> QED BY <2>3, <2>5, <3>1 DEF FinalizarProceso, M!Next
  <2> QED BY <1>3, <2>4, <2>5
<1>4. CASE Planificar \/ EscucharMemoria \/ Despachar \/ AtenderSyscall \/ SeguirSyscall
  BY <1>1, <1>4 DEF Planificar, EscucharMemoria, Despachar, AtenderSyscall, SeguirSyscall
<1>5. CASE EscucharCpu \/ CpuEscuchaKernel \/ CpuEscuchaMemoria \/ Ciclo
  BY <1>1, <1>5 DEF EscucharCpu, CpuEscuchaKernel, CpuEscuchaMemoria, Ciclo
<1>6. CASE UNCHANGED vars
  BY <1>1, <1>6 DEF vars
<1> QED BY <1>2, <1>3, <1>4, <1>5, <1>6 DEF Next, EscucharKernel

\* From the dispatch on the socket CR has is the one the kernel writes.
LEMMA MismoPaso ==
  ASSUME a_cpu # << >>, a_cpu' = a_cpu
  PROVE  /\ C!RecibirTid => CR!RecibirTid
         /\ C!EscuchaMemoria => CR!EscuchaMemoria
         /\ C!CicloDeInstruccion => CR!CicloDeInstruccion
         /\ C!Memoria => CR!Memoria
<1>1. C!RecibirTid => CR!RecibirTid
  BY DEF C!RecibirTid, CR!RecibirTid, C!Msg, CR!Msg
<1>2. ASSUME NEW op PROVE C!Recibe(op) => CR!Recibe(op)
  BY DEF C!Recibe, CR!Recibe
<1>3. C!EscuchaMemoria => CR!EscuchaMemoria
  BY <1>2 DEF C!ReciboContexto, C!RecibirInstruccionDeMemoria, C!ConfirmarContexto,
              C!Descartar, C!EscuchaMemoria, CR!ReciboContexto, CR!RecibirInstruccionDeMemoria,
              CR!ConfirmarContexto, CR!Descartar, CR!EscuchaMemoria
<1>4. C!Fetch => CR!Fetch
  BY DEF C!Fetch, CR!Fetch, C!compartido, CR!compartido, C!Msg, CR!Msg, C!En, CR!En
<1>5. C!Decode => CR!Decode
  BY DEF C!Decode, CR!Decode, C!Decodificar, CR!Decodificar, C!compartido, CR!compartido, C!En, CR!En
<1>6. C!ExecuteSyscall => CR!ExecuteSyscall
  BY DEF C!ExecuteSyscall, CR!ExecuteSyscall, C!compartido, CR!compartido, C!Msg, CR!Msg,
         C!Ejecuta, CR!Ejecuta, C!En, CR!En, C!Syscalls, CR!Syscalls, C!Avanzar, CR!Avanzar,
         C!ActualizarContexto, CR!ActualizarContexto
<1>7. C!EnviarSyscall => CR!EnviarSyscall
  BY DEF C!EnviarSyscall, CR!EnviarSyscall, C!EnviarYParar, CR!EnviarYParar, C!EnviarAlKernel,
         CR!EnviarAlKernel, C!compartido, CR!compartido, C!En, CR!En
<1>8. /\ C!ExecuteRegistros => CR!ExecuteRegistros
      /\ C!ExecuteDesconocida => CR!ExecuteDesconocida
      /\ C!ExecuteJnz => CR!ExecuteJnz
  BY DEF C!ExecuteRegistros, CR!ExecuteRegistros, C!ExecuteJnz, CR!ExecuteJnz,
         C!ExecuteDesconocida, CR!ExecuteDesconocida, C!compartido, CR!compartido, C!Ejecuta,
         CR!Ejecuta, C!En, CR!En, C!Avanzar, CR!Avanzar, C!Syscalls, CR!Syscalls, C!Olvidadas,
         CR!Olvidadas
<1>9. /\ C!AccedeAMemoria = CR!AccedeAMemoria
      /\ C!DentroDeLimites = CR!DentroDeLimites
      /\ C!DireccionFisica = CR!DireccionFisica
  BY Zenon DEF C!AccedeAMemoria, CR!AccedeAMemoria, C!DentroDeLimites, CR!DentroDeLimites,
         C!DireccionFisica, CR!DireccionFisica, C!Ejecuta, CR!Ejecuta, C!En, CR!En
<1>10. C!SegmentationFault => CR!SegmentationFault
  BY <1>9 DEF C!SegmentationFault, CR!SegmentationFault, C!compartido, CR!compartido, C!Msg, CR!Msg,
         C!ActualizarContexto, CR!ActualizarContexto, C!EnviarAlKernel, CR!EnviarAlKernel
<1>11. /\ C!WriteMem => CR!WriteMem
       /\ C!ReadMem => CR!ReadMem
  BY <1>9 DEF C!WriteMem, CR!WriteMem, C!ReadMem, CR!ReadMem, C!compartido, CR!compartido,
         C!Msg, CR!Msg, C!Ejecuta, CR!Ejecuta, C!En, CR!En, C!Avanzar, CR!Avanzar
<1>12. C!LeerDesdeMemoria => CR!LeerDesdeMemoria
  BY DEF C!LeerDesdeMemoria, CR!LeerDesdeMemoria, C!compartido, CR!compartido, C!En, CR!En,
         C!Avanzar, CR!Avanzar
<1>13. C!CicloDeInstruccion => CR!CicloDeInstruccion
  BY <1>4, <1>5, <1>6, <1>7, <1>8, <1>10, <1>11, <1>12 DEF C!CicloDeInstruccion, CR!CicloDeInstruccion
<1>14. ASSUME NEW op PROVE C!EscucharCpu(op) => CR!EscucharCpu(op)
  BY DEF C!EscucharCpu, CR!EscucharCpu, C!compartido, CR!compartido
<1>15. C!Memoria => CR!Memoria
  BY <1>14 DEF C!Msg, CR!Msg, C!EntraEnMemoria, CR!EntraEnMemoria, C!HayInstruccion,
         CR!HayInstruccion, C!DevolverContextoEjecucion, CR!DevolverContextoEjecucion,
         C!ActualizarContextoDeEjecucion, CR!ActualizarContextoDeEjecucion, C!Responde,
         CR!Responde, C!ObtenerInstruccion, CR!ObtenerInstruccion, C!AccesoAMemoria,
         CR!AccesoAMemoria, C!Memoria, CR!Memoria
<1> QED BY <1>1, <1>3, <1>13, <1>15

LEMMA Inicial == ASSUME Init PROVE IInv
<1>1. /\ sem_plani_largo_plazo = 1 /\ kernel_a_memoria = << >> /\ memoria_a_kernel = << >>
      /\ oyente = "escucha" /\ a_cpu = << >> /\ lista_tcbs = << >> /\ despacho = K!Escucha
      /\ syscalls = 0
  BY DEF Init, K!Init
<1>2. /\ lista_particiones \in M!ParticionesIniciales /\ lista_contextos = << >>
      /\ m_pcb \in [Pids -> {[estado |-> "NEW", tam |-> t] : t \in Tamanios}]
      /\ m_hilos = [h \in Pids \X (0 .. MaxTid) |-> "NO"] /\ m_pcb[1].tam = TamPrimero
  BY DEF Init, M!Init
<1>3. /\ ciclo.fase = "sin hilo" /\ cpu_a_memoria = << >> /\ memoria_a_cpu = << >>
      /\ kernel_a_cpu = << >> /\ cpu_a_kernel = << >>
  BY DEF Init
<1>4. /\ \A p \in Pids : m_pcb[p].estado = "NEW"
      /\ 1 \in Pids /\ \A t \in 0 .. MaxTid : m_hilos[<<1, t>>] = "NO"
  <2>1. 1 \in Pids
    BY CotasValidas DEF Pids
  <2> QED BY <1>2, <2>1
<1>5. DOMAIN << >> = {}
  OBVIOUS
<1>6. Asignares = {} /\ Otros = {}
  BY <1>1, <1>5 DEF Asignares, Otros
<1>7. Turno /\ Procesos /\ Pedidos
  BY <1>1, <1>2, <1>4, <1>6 DEF Turno, Procesos, Pedidos
<1>8. Contextos
  <2>1. ~Hay(memoria_a_kernel, "CONFIRMAR_CREACION_HILO")
    BY <1>1, <1>5, Zenon DEF Hay
  <2>2. /\ m_hilos[<<1, 0>>] = "NO"
        /\ \A t \in 1 .. MaxTid : m_hilos[<<1, t>>] = "NO"
    BY <1>4, CotasValidas
  <2> QED BY <1>1, <1>4, <2>1, <2>2 DEF Contextos
<1>9. LadoKernel
  <2>1. Len(cpu_a_kernel) = 0
    BY <1>3
  <2> DEFINE n == Len(cpu_a_kernel)
  <2> HIDE DEF n
  <2>2. syscalls \in Nat /\ syscalls <= n
    BY <1>1, <2>1 DEF n
  <2>3. despacho.fase = "escucha"
    BY <1>1 DEF K!Escucha
  <2>4. \A i : i \notin DOMAIN memoria_a_kernel
    BY <1>1, <1>5
  <2> QED BY <1>1, <2>2, <2>3, <2>4 DEF LadoKernel, n
<1>10. LadoCpu
  <2>0. ASSUME NEW S PROVE << >> \in Seq(S)
    OBVIOUS
  <2>2. Len(<< >>) <= 1
    OBVIOUS
  <2>1. /\ cpu_a_kernel \in Seq([op : C!Syscalls \cup {"PROCESS_EXIT"}, hilo : Hilos])
        /\ Len(cpu_a_kernel) <= 1
    <3>1. << >> \in Seq([op : C!Syscalls \cup {"PROCESS_EXIT"}, hilo : Hilos])
      BY <2>0
    <3> QED BY <1>3, <2>2, <3>1, Zenon
  <2> QED BY <1>3, <2>1 DEF LadoCpu, Quieta, EsFin
<1> QED BY <1>7, <1>8, <1>9, <1>10 DEF IInv

LEMMA Quieto == ASSUME IInv, UNCHANGED vars PROVE IInv'
<1>0. UNCHANGED <<kernel, memoria, cpu, kernel_memoria, cpu_memoria, kernel_cpu, guion>>
  BY DEF vars
<1>1. UNCHANGED <<a_cpu, kernel_a_cpu, cpu_a_kernel, cpu_a_memoria, memoria_a_cpu, actual, ciclo,
                  control_key, c_viva>>
  BY <1>0 DEF kernel, cpu, cpu_memoria, kernel_cpu
<1>2. LadoCpu'
  BY <1>1 DEF IInv, LadoCpu, Quieta, SinAccesos, Hay, EsFin
<1> QED BY <1>0, <1>1, <1>2, BastaLadoCpu

\* The invariant of what joins the three is kept by every step.
LEMMA Paso ==
  ASSUME KP!Fase, KP!IInv, CP!IInv, MP!IFijas, IInv, [Next]_vars PROVE IInv'
<1>1. CASE Planificar
  BY <1>1, PlanificarPaso
<1>2. CASE EscucharMemoria
  BY <1>2, EspacioPaso, PostPaso, CreacionPaso DEF EscucharMemoria
<1>3. CASE Despachar
  BY <1>3, DespacharPaso
<1>4. CASE AtenderSyscall
  BY <1>4, AtenderSyscallPaso
<1>5. CASE SeguirSyscall
  BY <1>5, SeguirSyscallPaso
<1>6. CASE EscucharKernel
  BY <1>6, AsignarMemoriaPaso, CrearHiloPaso, FinalizarProcesoPaso DEF EscucharKernel
<1>7. CASE EscucharCpu
  BY <1>7, EscucharCpuPaso
<1>8. CASE CpuEscuchaKernel
  BY <1>8, CpuEscuchaKernelPaso
<1>9. CASE CpuEscuchaMemoria
  BY <1>9, CpuEscuchaMemoriaPaso
<1>10. CASE Ciclo
  BY <1>10, CicloPaso
<1>11. CASE UNCHANGED vars
  BY <1>11, Quieto
<1> QED BY <1>1, <1>2, <1>3, <1>4, <1>5, <1>6, <1>7, <1>8, <1>9, <1>10, <1>11 DEF Next

LEMMA PasoDeCpu ==
  ASSUME KP!Fase, KP!IInv, MP!IFijas, CP!IInv, IInv, [Next]_vars PROVE [CR!Next]_CR!vars
<1>1. ASSUME UNCHANGED <<cpu, cpu_memoria, kernel_cpu, guion, a_cpu>> PROVE UNCHANGED CR!vars
  BY <1>1 DEF cpu, cpu_memoria, kernel_cpu, CR!vars, CR!compartido
<1>2. CASE Planificar \/ EscucharMemoria
  BY <1>1, <1>2 DEF Planificar, EscucharMemoria, K!LargoPlazo, K!ConfirmarEspacioProceso,
     K!PostLargoPlazo, K!ConfirmarCreacionHilo
<1>3. CASE Despachar
  <2>1. /\ a_cpu = << >> /\ a_cpu' = << <<1, 0>> >> /\ kernel_a_cpu' = << <<1, 0, guion>> >>
        /\ UNCHANGED <<cpu, cpu_memoria, cpu_a_kernel>>
    BY <1>3, DespacharHace DEF Despachar
  <2>2. a_cpu' # << >>
    BY <2>1
  <2> QED BY <2>1, <2>2 DEF cpu, cpu_memoria, CR!vars, CR!compartido
<1>4. CASE AtenderSyscall
  <2>1. UNCHANGED <<a_cpu, cpu, cpu_memoria, kernel_cpu, guion>>
    BY <1>4, Atendida
  <2> QED BY <1>1, <2>1
<1>5. CASE SeguirSyscall
  <2>1. UNCHANGED <<a_cpu, cpu, cpu_memoria, kernel_cpu, guion>>
    BY <1>5, SigueHace DEF SeguirSyscall
  <2> QED BY <1>1, <2>1
<1>6. CASE EscucharKernel
  BY <1>1, <1>6 DEF EscucharKernel, AsignarMemoria, CrearHilo, FinalizarProceso, Ajeno, kernel
<1>7. CASE EscucharCpu \/ CpuEscuchaKernel \/ CpuEscuchaMemoria \/ Ciclo
  <2>1. UNCHANGED a_cpu
    BY <1>7 DEF EscucharCpu, CpuEscuchaKernel, CpuEscuchaMemoria, Ciclo, kernel
  <2>2. a_cpu # << >>
    <3>1. CASE EscucharCpu
      <4>1. cpu_a_memoria # << >>
        BY <3>1 DEF EscucharCpu, C!Memoria, C!DevolverContextoEjecucion,
           C!ActualizarContextoDeEjecucion, C!ObtenerInstruccion, C!AccesoAMemoria, C!EscucharCpu
      <4> QED BY <4>1 DEF IInv, LadoCpu, Quieta
    <3>2. CASE CpuEscuchaKernel
      BY <3>2 DEF CpuEscuchaKernel, C!RecibirTid, IInv, LadoCpu
    <3>3. CASE CpuEscuchaMemoria
      <4>1. memoria_a_cpu # << >>
        BY <3>3 DEF CpuEscuchaMemoria, C!EscuchaMemoria, C!ReciboContexto,
           C!RecibirInstruccionDeMemoria, C!ConfirmarContexto, C!Descartar, C!Recibe
      <4> QED BY <4>1 DEF IInv, LadoCpu, Quieta
    <3>4. CASE Ciclo
      <4>1. ciclo.fase # "sin hilo"
        BY <3>4 DEF Ciclo, C!CicloDeInstruccion, C!Fetch, C!Decode, C!Decodificar,
           C!ExecuteSyscall, C!EnviarSyscall, C!EnviarYParar, C!ExecuteRegistros, C!ExecuteJnz,
           C!ExecuteDesconocida, C!SegmentationFault, C!AccedeAMemoria, C!WriteMem, C!ReadMem,
           C!LeerDesdeMemoria, C!Ejecuta, C!En
      <4> QED BY <4>1 DEF IInv, LadoCpu, Quieta
    <3> QED BY <1>7, <3>1, <3>2, <3>3, <3>4
  <2> QED BY <1>7, <2>1, <2>2, MismoPaso DEF EscucharCpu, CpuEscuchaKernel, CpuEscuchaMemoria,
      Ciclo, CR!Next
<1>8. CASE UNCHANGED vars
  BY <1>1, <1>8 DEF vars, kernel
<1> QED BY <1>2, <1>3, <1>4, <1>5, <1>6, <1>7, <1>8 DEF Next

-----------------------------------------------------------------------------
(* Theorems *)

Junto == IInv /\ CP!IInv /\ MP!IFijas

\* The three invariants hold together: each side's proof uses what the others keep.
LEMMA EnConjunto == ASSUME PidsLimpios PROVE Spec => [](Junto /\ KP!Fase /\ KP!IInv)
<1>1. Init => Junto
  BY Inicial, MemoriaInicial, CpuInicial DEF Junto
<1>2. Junto /\ KP!Fase /\ KP!IInv /\ [Next]_vars => Junto'
  <2> SUFFICES ASSUME IInv, CP!IInv, MP!IFijas, KP!Fase, KP!IInv, [Next]_vars PROVE Junto'
    BY DEF Junto
  <2>1. IInv'
    BY Paso
  <2>2. CP!IInv'
    BY PasoDeCpu, CpuPaso
  <2>3. MP!IFijas'
    BY PasoDeM, MemoriaPaso
  <2> QED BY <2>1, <2>2, <2>3 DEF Junto
<1> QED BY <1>1, <1>2, KernelEnOrden, PTL DEF Spec

\* The kernel dispatches to the CPU what Cpu takes it to, one thread and never a second
\* one, so what CpuProofs proves of Cpu holds of the system (planificadores.c:18-45).
THEOREM Cpu_en_Sistema == ASSUME PidsLimpios PROVE Spec => ImplementaCpu
<1>1. Init => CR!Init
  BY CpuInicial
<1>2. Junto /\ KP!Fase /\ KP!IInv /\ [Next]_vars => [CR!Next]_CR!vars
  BY PasoDeCpu DEF Junto
<1> QED BY <1>1, <1>2, EnConjunto, PTL DEF Spec, ImplementaCpu, CR!Spec

\* What the kernel asks of memoria is what Memoria lets its kernel ask, in its order: a
\* process once, its threads after its partition, its end after both
\* (k_conexiones.c:246, 297, 406).
THEOREM Memoria_en_Sistema == ASSUME PidsLimpios PROVE Spec => M!Spec
<1>1. Init => M!Init
  BY DEF Init
<1>2. Junto /\ KP!Fase /\ KP!IInv /\ [Next]_vars => [M!Next]_M!vars
  BY PasoDeM DEF Junto
<1> QED BY <1>1, <1>2, EnConjunto, PTL DEF Spec, M!Spec

\* No request the kernel has sent is repeated, early or late, although iniciar_proceso
\* asks again before the first answer is taken (k_conexiones.c:297, 406).
THEOREM EnProtocolo == ASSUME PidsLimpios PROVE Spec => []PedidosEnProtocolo
<1>1. IInv => PedidosEnProtocolo
  <2> SUFFICES ASSUME IInv, NEW i \in DOMAIN kernel_a_memoria,
                      kernel_a_memoria[i].pid # K!Basura
               PROVE  LET m == kernel_a_memoria[i]
                          otro(j) == j # i /\ kernel_a_memoria[j].op = m.op
                                     /\ kernel_a_memoria[j].pid = m.pid
                                     /\ kernel_a_memoria[j].tid = m.tid
                      IN /\ \A j \in DOMAIN kernel_a_memoria : ~otro(j)
                         /\ m.op = "ASIGNAR_MEMORIA" => m_pcb[m.pid].estado = "NEW"
                         /\ m.op = "HILO_READY" =>
                              m_pcb[m.pid].estado = "READY" /\ m_hilos[<<m.pid, m.tid>>] = "NO"
                         /\ m.op = "FINALIZAR_PROCESO" => m_pcb[m.pid].estado = "READY"
    BY DEF PedidosEnProtocolo
  <2>1. CASE i \in Asignares
    <3>1. \A j \in Asignares : i = j
      BY <2>1 DEF IInv, Turno
    <3>2. m_pcb[kernel_a_memoria[i].pid].estado = "NEW"
      BY <2>1 DEF IInv, Procesos
    <3> QED BY <2>1, <3>1, <3>2 DEF Asignares
  <2>2. CASE i \in Otros
    <3>1. \A j \in Otros : i = j
      BY <2>2 DEF IInv, Pedidos
    <3>2. /\ kernel_a_memoria[i].pid = 1 /\ m_pcb[1].estado = "READY"
          /\ kernel_a_memoria[i].op = "HILO_READY" => m_hilos[<<1, kernel_a_memoria[i].tid>>] = "NO"
      BY <2>2 DEF IInv, Pedidos
    <3> QED BY <2>2, <3>1, <3>2 DEF Otros
  <2> QED BY <2>1, <2>2 DEF Asignares, Otros
<1> QED BY <1>1, EnConjunto, PTL DEF Junto

LEMMA ConPedido ==
  ASSUME KP!Fase, IInv, a_cpu # << >>
  PROVE  ContextoDe(<<1, 0>>) /\ m_pcb[1].estado # "NEW"
<1>1. oyente = "corto" /\ lista_tcbs # << >>
  BY Donde DEF Pidiendo, Creando, Listo, Despachado, IInv, LadoKernel
<1> QED BY <1>1 DEF IInv, Contextos, Procesos

\* Every request of the CPU finds in memoria the context of its thread, and every access
\* the partition of its process, whatever the kernel's socket has brought meanwhile
\* (escuchar_cpu.c:79, 120, 283).
THEOREM PedidosConContexto == ASSUME PidsLimpios PROVE Spec => []LoPedidoExiste
<1>1. Junto /\ KP!Fase /\ KP!IInv => LoPedidoExiste
  <2> SUFFICES ASSUME IInv, CP!IInv, MP!IFijas, KP!Fase, NEW i \in DOMAIN cpu_a_memoria
               PROVE  /\ ContextoDe(cpu_a_memoria[i].hilo)
                      /\ cpu_a_memoria[i].op \in {"WRITE_MEM", "READ_MEM"} =>
                           \E q \in M!ParticionesDe(cpu_a_memoria[i].hilo[1]) :
                             q.base = ParteInicial.base /\ q.limite = ParteInicial.limite
    BY DEF Junto, LoPedidoExiste, ContextoAlPedir, AccedeElDuenio
  <2>1. cpu_a_memoria # << >> /\ cpu_a_memoria[i].hilo \in Hilos
    <3>1. cpu_a_memoria \in Seq(CP!Mensaje)
      BY CpuTipada
    <3>2. cpu_a_memoria[i] \in CP!Mensaje
      BY <3>1
    <3> QED BY <3>1, <3>2 DEF CP!Mensaje
  <2>2. cpu_a_memoria[i].hilo[1] = 1 /\ cpu_a_memoria[i].hilo[2] = 0
    BY <2>1 DEF Hilos
  <2>3. a_cpu # << >>
    BY <2>1 DEF IInv, LadoCpu, Quieta
  <2>4. ContextoDe(<<1, 0>>) /\ m_pcb[1].estado # "NEW"
    BY <2>3, ConPedido
  <2>5. ContextoDe(cpu_a_memoria[i].hilo)
    BY <2>2, <2>4 DEF ContextoDe
  <2>6. ASSUME cpu_a_memoria[i].op \in {"WRITE_MEM", "READ_MEM"}
        PROVE  \E q \in M!ParticionesDe(1) :
                 q.base = ParteInicial.base /\ q.limite = ParteInicial.limite
    <3>1. ~SinAccesos
      BY <2>6 DEF SinAccesos, Hay
    <3>2. m_pcb[1].estado # "EXIT"
      BY <3>1 DEF IInv, Pedidos, LadoCpu
    <3>3. m_pcb[1].estado = "READY"
      <4>1. m_pcb[1].estado \in {"NEW", "READY", "EXIT"}
        BY MemoriaTipada
      <4> QED BY <2>4, <3>2, <4>1
    <3>4. PICK k \in DOMAIN lista_particiones :
            /\ M!EsDe(k, 1)
            /\ lista_particiones[k].base = ParteInicial.base
            /\ lista_particiones[k].limite = ParteInicial.limite
      BY <3>3 DEF IInv, Contextos
    <3>5. lista_particiones[k] \in M!ParticionesDe(1)
      BY <3>4 DEF M!ParticionesDe
    <3> QED BY <3>4, <3>5
  <2> QED BY <2>2, <2>5, <2>6
<1> QED BY <1>1, EnConjunto, PTL

\* The kernel sends memoria no FINALIZAR_HILO and no DUMP_MEMORY: nothing frees a context
\* while escuchar_cpu uses the pointer it took without the mutex (escuchar_cpu.c:58,
\* escuchar_kernel.c:302).
THEOREM SinCarreraDeContextos == ASSUME PidsLimpios PROVE Spec => []ContextosSinCarrera
<1>1. IInv => ContextosSinCarrera
  <2> SUFFICES ASSUME IInv, NEW i \in DOMAIN kernel_a_memoria
               PROVE  kernel_a_memoria[i].op \notin {"FINALIZAR_HILO", "DUMP_MEMORY"}
    BY DEF ContextosSinCarrera
  <2>1. CASE i \in Asignares
    BY <2>1 DEF Asignares
  <2>2. CASE i \in Otros
    BY <2>2 DEF IInv, Pedidos
  <2> QED BY <2>1, <2>2 DEF Asignares, Otros
<1> QED BY <1>1, EnConjunto, PTL DEF Junto

\* The thread of the call the kernel is about to serve is still in EXEC
\* (ciclo_de_instruccion.c:126-129).
THEOREM LlamadorSigue == ASSUME PidsLimpios PROVE Spec => []LlamadorEnExec
<1>1. IInv => LlamadorEnExec
  <2> SUFFICES ASSUME IInv, syscalls < Len(cpu_a_kernel)
               PROVE  \E d \in Dirs : /\ tcb[d].pid = Llamada.hilo[1]
                                      /\ tcb[d].tid = Llamada.hilo[2]
                                      /\ tcb[d].estado = "EXEC"
    BY DEF LlamadorEnExec
  <2> DEFINE S == [op : C!Syscalls \cup {"PROCESS_EXIT"}, hilo : Hilos]
             n == Len(cpu_a_kernel)
  <2>1. cpu_a_kernel \in Seq(S) /\ n <= 1 /\ syscalls \in Nat /\ syscalls < n
    BY DEF IInv, LadoCpu, LadoKernel
  <2> HIDE DEF S
  <2>2. n \in Nat
    BY <2>1
  <2> HIDE DEF n
  <2>3. n = 1 /\ syscalls = 0
    BY <2>1, <2>2
  <2>4. Len(cpu_a_kernel) = 1
    BY <2>3 DEF n
  <2>5. cpu_a_kernel[1] \in S /\ cpu_a_kernel # << >>
    BY <2>1, <2>4
  <2>6. Llamada = cpu_a_kernel[1]
    BY <2>3 DEF Llamada
  <2>7. Llamada.hilo[1] = 1 /\ Llamada.hilo[2] = 0
    BY <2>5, <2>6 DEF S, Hilos
  <2>8. a_cpu # << >>
    BY <2>5 DEF IInv, LadoCpu, Quieta
  <2> QED BY <2>3, <2>7, <2>8 DEF IInv, LadoKernel
<1> QED BY <1>1, EnConjunto, PTL DEF Junto
=============================================================================
