------------------------------- MODULE Kernel -------------------------------
(***************************************************************************)
(* The kernel process: its lists of processes and threads, its semaphores  *)
(* and its three threads,                                                  *)
(*   planificador_de_largo_plazo    (planificadores.c)                     *)
(*   kernel_escucha_memoria         (kernel_escucha_memoria.c), which ends *)
(*                                  up inside planificador_corto_plazo     *)
(*   kernel_escucha_cpu_dispatch    (kernel_escucha_cpu_dispatch.c)        *)
(* main has created the first process and waits in pthread_join for the    *)
(* long-term planner (kernel.c:33), which never returns.                   *)
(*                                                                         *)
(* The peers are the environment.  memoria serves its socket in order.     *)
(* The CPU is the most general one that follows the protocol: once a       *)
(* thread has been dispatched, any thread that is not blocked and has not  *)
(* ended may be the caller of the next system call.                        *)
(*                                                                         *)
(* lista_exit, cola_exec and each PCB's lista_tid are written and never    *)
(* read by the code; they are left out.                                    *)
(***************************************************************************)
EXTENDS Integers, Sequences, FiniteSets, SequencesExt

CONSTANTS
  Dirs,              \* addresses malloc may return for a TCB
  NULL,
  Recursos,          \* names of mutexes
  MaxPid,            \* bound: processes created
  MaxTid,            \* bound: tids handed out in a process
  MaxSyscalls,       \* bound: system calls served
  MemoriaResponde    \* what memoria may do with the two FINALIZAR requests: TRUE,
                     \* answer, as the kernel expects; FALSE, nothing, as src/memoria

ASSUME CotasValidas ==
  /\ MaxPid \in Nat \ {0} /\ MaxTid \in Nat /\ MaxSyscalls \in Nat
  /\ NULL \notin Dirs
  /\ MemoriaResponde \subseteq BOOLEAN

Pids   == 1 .. MaxPid
Nadie  == -1            \* (uint32_t) -1: no owner, no blocker
Basura == 0             \* the pid read from an uninitialised PCB: no process has it
Tids   == 0 .. MaxTid

VARIABLES
  pid,               \* last pid given out
  pcb,               \* pid -> [estado, tid_contador, mutex]
  cola_new,          \* pids, head first
  tcb,               \* address -> TCB, or Liberado
  lista_tcbs, lista_ready, lista_blocked,    \* sequences of addresses
  mutex, sem_plani_largo_plazo, TCBaPlanificar,   \* semaphore values
  oyente,            \* where kernel_escucha_memoria is
  despacho,          \* where kernel_escucha_cpu_dispatch is
  a_memoria, de_memoria, a_cpu,    \* what was sent and not yet read
  desfasado,         \* a packet of memoria has been read in part
  viva,              \* FALSE once the kernel has dereferenced a bad pointer
  ultima,            \* the last system call received, for the properties
  syscalls           \* how many were received, for the bound

planificacion == <<oyente, sem_plani_largo_plazo, TCBaPlanificar, a_cpu>>
procesos      == <<pid, pcb, cola_new>>
hilos         == <<tcb, lista_tcbs, lista_ready, lista_blocked>>
canales       == <<a_memoria, de_memoria, desfasado>>
historia      == <<ultima, syscalls>>
vars == <<planificacion, procesos, hilos, canales, historia, mutex, despacho, viva>>

Liberado == [pid |-> Basura, tid |-> Nadie, estado |-> "LIBRE",
             bloqueo |-> Nadie, join |-> Nadie]
Escucha  == [fase |-> "escucha", dir |-> NULL, i |-> 0, pid |-> Basura]

Msg(op, p, t, bit) == [op |-> op, pid |-> p, tid |-> t, bit |-> bit]

SinCrear == [estado |-> "NO", tid_contador |-> 0, mutex |-> << >>]
ProcesoNuevo == [SinCrear EXCEPT !.estado = "NEW"]

Init ==
  /\ pid = 1
  /\ pcb = [p \in Pids |-> IF p = 1 THEN ProcesoNuevo ELSE SinCrear]
  /\ cola_new = <<1>>
  /\ tcb = [d \in Dirs |-> Liberado]
  /\ lista_tcbs = << >> /\ lista_ready = << >> /\ lista_blocked = << >>
  /\ mutex = 1 /\ sem_plani_largo_plazo = 1 /\ TCBaPlanificar = 0
  /\ oyente = "escucha"
  /\ despacho = Escucha
  /\ a_memoria = << >> /\ de_memoria = << >> /\ a_cpu = << >>
  /\ desfasado = FALSE /\ viva = TRUE
  /\ ultima = [op |-> "NINGUNA", dir |-> NULL, arg |-> Nadie]
  /\ syscalls = 0

-----------------------------------------------------------------------------
(* Helpers *)

\* buscar_tcbs.  free overwrites the first words of a TCB, pid and tid among them,
\* so a freed entry of the list matches nothing.
Posiciones(t, p) ==
  {i \in DOMAIN lista_tcbs : tcb[lista_tcbs[i]].pid = p /\ tcb[lista_tcbs[i]].tid = t}

BuscarTcbs(t, p) ==
  IF Posiciones(t, p) = {} THEN NULL
  ELSE lista_tcbs[CHOOSE i \in Posiciones(t, p) : \A j \in Posiciones(t, p) : i <= j]

\* The message iniciar_proceso sends: the head of cola_new, or an unwritten PCB.
PedidoDeMemoria ==
  Msg("ASIGNAR_MEMORIA", IF cola_new = << >> THEN Basura ELSE Head(cola_new), Nadie, Nadie)

AgregarHilo_EsperaYPost(d, p, t) ==
  /\ tcb[d] = Liberado
  /\ tcb' = [tcb EXCEPT ![d] = [Liberado EXCEPT !.pid = p, !.tid = t, !.estado = "READY"]]
  /\ lista_tcbs' = Append(lista_tcbs, d)
  /\ mutex' = mutex

\* iniciar_hilo, and the two posts around list_add(lista_tcbs, ...).
AgregarHilo(d, p, t) ==
  /\ tcb[d] = Liberado
  /\ tcb' = [tcb EXCEPT ![d] = [Liberado EXCEPT !.pid = p, !.tid = t, !.estado = "READY"]]
  /\ lista_tcbs' = Append(lista_tcbs, d)
  /\ mutex' = mutex + 2

-----------------------------------------------------------------------------
(* planificador_de_largo_plazo *)

LargoPlazo_SinWait ==
  /\ viva
  /\ Len(a_memoria) < 3
  /\ a_memoria' = Append(a_memoria, PedidoDeMemoria)
  /\ UNCHANGED <<planificacion, procesos, hilos, de_memoria, desfasado, historia, mutex,
                 despacho, viva>>

LargoPlazo ==
  /\ viva
  /\ sem_plani_largo_plazo > 0
  /\ sem_plani_largo_plazo' = sem_plani_largo_plazo - 1
  /\ a_memoria' = Append(a_memoria, PedidoDeMemoria)
  /\ UNCHANGED <<oyente, TCBaPlanificar, a_cpu, procesos, hilos, de_memoria, desfasado,
                 historia, mutex, despacho, viva>>

-----------------------------------------------------------------------------
(* kernel_escucha_memoria *)

Recibe(op) ==
  /\ viva /\ oyente = "escucha"
  /\ de_memoria # << >> /\ Head(de_memoria).op = op
  /\ de_memoria' = Tail(de_memoria)

CrearHiloMain_Peek(confirmado) ==
  IF \/ confirmado \notin Pids \/ pcb[confirmado].estado = "NO" \/ cola_new = << >>
  THEN /\ viva' = FALSE
       /\ UNCHANGED <<oyente, cola_new, tcb, lista_tcbs, mutex, a_memoria>>
  ELSE LET p == Head(cola_new)
           t == pcb[p].tid_contador
       IN /\ \E d \in Dirs : AgregarHilo(d, p, t)
          /\ a_memoria' = Append(a_memoria, Msg("HILO_READY", p, t, Nadie))
          /\ oyente' = "post"
          /\ UNCHANGED <<cola_new, viva>>

\* crear_hilo: looks the process up by the pid confirmed, but takes the PCB at the
\* head of cola_new; the main thread's tid is the counter, left as it is.
CrearHiloMain(confirmado) ==
  IF \/ confirmado \notin Pids \/ pcb[confirmado].estado = "NO" \/ cola_new = << >>
  THEN /\ viva' = FALSE      \* reads a field of NULL
       /\ UNCHANGED <<oyente, cola_new, tcb, lista_tcbs, mutex, a_memoria>>
  ELSE LET p == Head(cola_new)
           t == pcb[p].tid_contador
       IN /\ cola_new' = Tail(cola_new)
          /\ \E d \in Dirs : AgregarHilo(d, p, t)
          /\ a_memoria' = Append(a_memoria, Msg("HILO_READY", p, t, Nadie))
          /\ oyente' = "post"
          /\ UNCHANGED viva

ConfirmarEspacioProceso ==
  /\ Recibe("CONFIRMAR_ESPACIO_PROCESO")
  /\ IF Head(de_memoria).bit = 1
     THEN /\ CrearHiloMain(Head(de_memoria).pid)
          /\ UNCHANGED sem_plani_largo_plazo
     ELSE /\ sem_plani_largo_plazo' = sem_plani_largo_plazo + 1
          /\ UNCHANGED <<oyente, cola_new, tcb, lista_tcbs, mutex, a_memoria, viva>>
  /\ UNCHANGED <<TCBaPlanificar, a_cpu, pid, pcb, lista_ready, lista_blocked,
                 desfasado, historia, despacho>>

\* The post that follows crear_hilo.
PostLargoPlazo ==
  /\ viva /\ oyente = "post"
  /\ sem_plani_largo_plazo' = sem_plani_largo_plazo + 1
  /\ oyente' = "escucha"
  /\ UNCHANGED <<TCBaPlanificar, a_cpu, procesos, hilos, canales, historia, mutex,
                 despacho, viva>>

ConfirmarCreacionHilo_SinPost ==
  /\ Recibe("CONFIRMAR_CREACION_HILO")
  /\ LET d == BuscarTcbs(Head(de_memoria).tid, Head(de_memoria).pid)
     IN lista_ready' = IF d = NULL THEN lista_ready ELSE Append(lista_ready, d)
  /\ oyente' = "corto"
  /\ UNCHANGED <<sem_plani_largo_plazo, TCBaPlanificar, a_cpu, procesos, tcb, lista_tcbs,
                 lista_blocked, a_memoria, desfasado, historia, mutex, despacho, viva>>

\* confirmacion_crear_hilo, and the call of planificador_corto_plazo, which loops
\* for ever: from here on this thread reads nothing more from memoria.
ConfirmarCreacionHilo ==
  /\ Recibe("CONFIRMAR_CREACION_HILO")
  /\ LET d == BuscarTcbs(Head(de_memoria).tid, Head(de_memoria).pid)
     IN lista_ready' = IF d = NULL THEN lista_ready ELSE Append(lista_ready, d)
  /\ TCBaPlanificar' = TCBaPlanificar + 1
  /\ oyente' = "corto"
  /\ UNCHANGED <<sem_plani_largo_plazo, a_cpu, procesos, tcb, lista_tcbs, lista_blocked,
                 a_memoria, desfasado, historia, mutex, despacho, viva>>

CortoPlazo_Vuelve ==
  /\ viva /\ oyente = "corto"
  /\ TCBaPlanificar > 0
  /\ TCBaPlanificar' = TCBaPlanificar - 1
  /\ oyente' = "escucha"
  /\ IF lista_ready = << >> \/ tcb[Head(lista_ready)] = Liberado
     THEN viva' = FALSE /\ UNCHANGED <<lista_ready, tcb, a_cpu>>
     ELSE LET d == Head(lista_ready)
          IN /\ lista_ready' = Tail(lista_ready)
             /\ tcb' = [tcb EXCEPT ![d].estado = "EXEC"]
             /\ a_cpu' = Append(a_cpu, <<tcb[d].pid, tcb[d].tid>>)
             /\ UNCHANGED viva
  /\ UNCHANGED <<sem_plani_largo_plazo, procesos, lista_tcbs, lista_blocked, canales,
                 historia, mutex, despacho>>

\* planificador_corto_plazo with ALGORITMO_PLANIFICACION=FIFO.
CortoPlazo ==
  /\ viva /\ oyente = "corto"
  /\ TCBaPlanificar > 0
  /\ TCBaPlanificar' = TCBaPlanificar - 1
  /\ IF lista_ready = << >> \/ tcb[Head(lista_ready)] = Liberado
     THEN viva' = FALSE /\ UNCHANGED <<lista_ready, tcb, a_cpu>>
     ELSE LET d == Head(lista_ready)
          IN /\ lista_ready' = Tail(lista_ready)
             /\ tcb' = [tcb EXCEPT ![d].estado = "EXEC"]
             /\ a_cpu' = Append(a_cpu, <<tcb[d].pid, tcb[d].tid>>)
             /\ UNCHANGED viva
  /\ UNCHANGED <<oyente, sem_plani_largo_plazo, procesos, lista_tcbs, lista_blocked,
                 canales, historia, mutex, despacho>>
-----------------------------------------------------------------------------
(* kernel_escucha_cpu_dispatch: one action per case of its switch *)

\* A packet in which d's thread asks for op.  The handlers take and release the
\* semaphore mutex around each look-up.
Syscall(op, d, arg) ==
  /\ viva /\ despacho = Escucha
  /\ a_cpu # << >>
  /\ tcb[d].estado \in {"READY", "EXEC"}
  /\ mutex > 0
  /\ syscalls < MaxSyscalls
  /\ syscalls' = syscalls + 1
  /\ ultima' = [op |-> op, dir |-> d, arg |-> arg]
  /\ UNCHANGED planificacion

\* The TCB the handler finds for the caller named in the packet.
Invocador(d) == BuscarTcbs(tcb[d].tid, tcb[d].pid)

ProcessCreate(d) ==
  /\ Syscall("PROCESS_CREATE", d, Nadie)
  /\ pid < MaxPid
  /\ pid' = pid + 1
  /\ pcb' = [pcb EXCEPT ![pid + 1] = ProcesoNuevo]
  /\ cola_new' = Append(cola_new, pid + 1)
  /\ UNCHANGED <<hilos, canales, mutex, despacho, viva>>

NuevoTid_Actual(p) == pcb[p].tid_contador

\* The tid of a new thread: ++tid_contador, which is incremented again once it is read.
NuevoTid(p) == pcb[p].tid_contador + 1

ThreadCreate(d) ==
  LET p     == tcb[d].pid
      nuevo == NuevoTid(p)
  IN /\ Syscall("THREAD_CREATE", d, Nadie)
     /\ nuevo <= MaxTid
     /\ pcb' = [pcb EXCEPT ![p].tid_contador = nuevo + 1]
     /\ \E e \in Dirs : AgregarHilo(e, p, nuevo)
     /\ a_memoria' = Append(a_memoria, Msg("HILO_READY", p, nuevo, Nadie))
     /\ UNCHANGED <<pid, cola_new, lista_ready, lista_blocked, de_memoria, desfasado,
                    despacho, viva>>

PasarAReady(d) ==
  /\ tcb' = [tcb EXCEPT ![d].estado = "READY", ![d].join = Nadie]
  /\ lista_ready' = Append(lista_ready, d)
  /\ UNCHANGED <<lista_tcbs, lista_blocked>>

Bloquear_SinEstado(d, objetivo) ==
  /\ tcb' = [tcb EXCEPT ![d].bloqueo = tcb[d].tid, ![d].join = objetivo]
  /\ lista_blocked' = Append(lista_blocked, d)
  /\ UNCHANGED <<lista_tcbs, lista_ready>>

Bloquear_SinLista(d, objetivo) ==
  /\ tcb' = [tcb EXCEPT ![d].estado = "BLOCKED", ![d].bloqueo = tcb[d].tid,
                        ![d].join = objetivo]
  /\ UNCHANGED <<lista_tcbs, lista_ready, lista_blocked>>

\* Both THREAD_JOIN and MUTEX_LOCK store the caller's own tid in tid_que_lo_bloqueo.
\* join is not in the code: it records what the thread waits for.
Bloquear(d, objetivo) ==
  /\ tcb' = [tcb EXCEPT ![d].estado = "BLOCKED", ![d].bloqueo = tcb[d].tid,
                        ![d].join = objetivo]
  /\ lista_blocked' = Append(lista_blocked, d)
  /\ UNCHANGED <<lista_tcbs, lista_ready>>

ThreadJoin(d, x) ==
  LET buscado == BuscarTcbs(x, tcb[d].pid)
  IN /\ Syscall("THREAD_JOIN", d, x)
     /\ \/ /\ buscado = NULL
           /\ PasarAReady(Invocador(d))
        \/ /\ buscado # NULL
           /\ Bloquear(Invocador(d), x)
     /\ UNCHANGED <<procesos, canales, mutex, despacho, viva>>

-----------------------------------------------------------------------------
(* Mutexes *)

\* buscar_mutex: the first of the process's list with that name.
BuscarMutex(p, r, k) ==
  /\ k \in DOMAIN pcb[p].mutex /\ pcb[p].mutex[k].recurso = r
  /\ \A j \in 1 .. k - 1 : pcb[p].mutex[j].recurso # r

NoExisteMutex(p, r) == \A k \in DOMAIN pcb[p].mutex : pcb[p].mutex[k].recurso # r

MutexCreate(d, r) ==
  /\ Syscall("MUTEX_CREATE", d, Nadie)
  /\ pcb' = [pcb EXCEPT ![tcb[d].pid].mutex =
               Append(@, [recurso |-> r, tid |-> Nadie, bloqueados |-> << >>])]
  /\ UNCHANGED <<pid, cola_new, hilos, canales, mutex, despacho, viva>>

\* The error is logged and the NULL mutex used all the same.
MutexInexistente(op, d, r) ==
  /\ Syscall(op, d, Nadie)
  /\ NoExisteMutex(tcb[d].pid, r)
  /\ viva' = FALSE
  /\ UNCHANGED <<procesos, hilos, canales, mutex, despacho>>

MutexLock(d, r) ==
  LET p == tcb[d].pid
      t == tcb[d].tid
  IN /\ Syscall("MUTEX_LOCK", d, Nadie)
     /\ \E k \in DOMAIN pcb[p].mutex :
          /\ BuscarMutex(p, r, k)
          /\ \/ /\ pcb[p].mutex[k].tid = Nadie
                /\ pcb' = [pcb EXCEPT ![p].mutex[k].tid = t]
                /\ UNCHANGED hilos
             \/ /\ pcb[p].mutex[k].tid # Nadie
                /\ pcb' = [pcb EXCEPT ![p].mutex[k].bloqueados = Append(@, t)]
                /\ Bloquear(Invocador(d), Nadie)
     /\ UNCHANGED <<pid, cola_new, canales, mutex, despacho, viva>>

\* Hands the mutex to the first waiter, which stays in lista_blocked as well; the
\* caller is not moved.
MutexUnlock(d, r) ==
  LET p == tcb[d].pid
      t == tcb[d].tid
  IN /\ Syscall("MUTEX_UNLOCK", d, Nadie)
     /\ \E k \in DOMAIN pcb[p].mutex :
          LET m == pcb[p].mutex[k]
          IN /\ BuscarMutex(p, r, k)
             /\ \/ m.tid # t /\ UNCHANGED <<pcb, hilos>>
                \/ /\ m.tid = t /\ m.bloqueados = << >>
                   /\ pcb' = [pcb EXCEPT ![p].mutex[k].tid = Nadie]
                   /\ UNCHANGED hilos
                \/ /\ m.tid = t /\ m.bloqueados # << >>
                   /\ LET h == BuscarTcbs(Head(m.bloqueados), p)
                      IN IF h = NULL
                         THEN /\ pcb' = [pcb EXCEPT ![p].mutex[k].bloqueados = Tail(@)]
                              /\ UNCHANGED hilos
                         ELSE /\ pcb' = [pcb EXCEPT ![p].mutex[k].bloqueados = Tail(@),
                                                    ![p].mutex[k].tid = tcb[h].tid]
                              /\ PasarAReady(h)
     /\ UNCHANGED <<pid, cola_new, canales, mutex, despacho, viva>>

-----------------------------------------------------------------------------
(* DUMP_MEMORY and IO *)

DumpMemory(d) ==
  /\ Syscall("DUMP_MEMORY", d, Nadie)
  /\ a_memoria' = Append(a_memoria, Msg("DUMP_MEMORY", tcb[d].pid, tcb[d].tid, Nadie))
  /\ tcb' = [tcb EXCEPT ![Invocador(d)].estado = "BLOCKED"]
  /\ lista_blocked' = Append(lista_blocked, Invocador(d))
  /\ UNCHANGED <<lista_tcbs, lista_ready, procesos, de_memoria, desfasado, mutex,
                 despacho, viva>>

\* The listener itself sleeps for the time of the operation: nothing else is served.
IO(d) ==
  /\ Syscall("IO", d, Nadie)
  /\ tcb' = [tcb EXCEPT ![Invocador(d)].estado = "BLOCKED"]
  /\ lista_blocked' = Append(lista_blocked, Invocador(d))
  /\ despacho' = [Escucha EXCEPT !.fase = "io", !.dir = Invocador(d)]
  /\ UNCHANGED <<lista_tcbs, lista_ready, procesos, canales, mutex, viva>>

FinIO ==
  /\ viva /\ despacho.fase = "io"
  /\ lista_blocked' = RemoveFirst(lista_blocked, despacho.dir)
  /\ tcb' = [tcb EXCEPT ![despacho.dir].estado = "READY"]
  /\ lista_ready' = Append(lista_ready, despacho.dir)
  /\ despacho' = Escucha
  /\ UNCHANGED <<planificacion, procesos, lista_tcbs, canales, historia, mutex, viva>>

-----------------------------------------------------------------------------
(* finalizar_hilo, up to the reply of memoria and after it *)

\* The mutexes of the process the thread holds become free; one with waiters is
\* fatal, a tid of its queue being used as a TCB pointer.  The message carries the
\* pid in the place of the tid too (serializar_finalizar_hilo).
FinalizarHilo(d, i) ==
  LET p == tcb[d].pid
      suyos == {k \in DOMAIN pcb[p].mutex : pcb[p].mutex[k].tid = tcb[d].tid}
  IN IF \E k \in suyos : pcb[p].mutex[k].bloqueados # << >>
     THEN viva' = FALSE /\ UNCHANGED <<pcb, tcb, a_memoria, despacho>>
     ELSE /\ pcb' = [pcb EXCEPT ![p].mutex =
                       [k \in DOMAIN @ |-> IF k \in suyos THEN [@[k] EXCEPT !.tid = Nadie]
                                                          ELSE @[k]]]
          /\ tcb' = [tcb EXCEPT ![d].estado = "EXIT"]
          /\ a_memoria' = Append(a_memoria, Msg("FINALIZAR_HILO", p, p, Nadie))
          /\ despacho' = [fase |-> "fin_hilo", dir |-> d, i |-> i, pid |-> p]
          /\ UNCHANGED viva

SinTocar == <<pid, cola_new, lista_tcbs, lista_ready, lista_blocked, de_memoria,
              desfasado, mutex>>

\* The look-up uses the TID of the caller, not the victim's.
ThreadCancel(d, x) ==
  /\ Syscall("THREAD_CANCEL", d, x)
  /\ FinalizarHilo(Invocador(d), 0)
  /\ UNCHANGED SinTocar

ThreadExit(d) ==
  /\ Syscall("THREAD_EXIT", d, Nadie)
  /\ FinalizarHilo(Invocador(d), 0)
  /\ UNCHANGED SinTocar

\* recibir_mensajeV2 on memoria's socket.  A packet that is not the reply is taken
\* for one, in part, and nothing read after it makes sense.
LeerRespuesta(ok) ==
  \/ /\ ~desfasado /\ de_memoria # << >>
     /\ de_memoria' = Tail(de_memoria)
     /\ desfasado' = (Head(de_memoria).op # "MENSAJE")
     /\ ok = (Head(de_memoria).op = "MENSAJE" /\ Head(de_memoria).bit = 1)
  \/ desfasado /\ ~ok /\ UNCHANGED <<de_memoria, desfasado>>

\* desbloquear_hilos_por_tid: the entries of lista_blocked whose thread it unblocks.
\* The first one found clears tid_que_lo_bloqueo, so a repeated entry stays.
Desbloqueables(d) ==
  {i \in DOMAIN lista_blocked :
     LET h == tcb[lista_blocked[i]]
     IN /\ h.pid = tcb[d].pid /\ h.bloqueo = tcb[d].tid
        /\ \A j \in 1 .. i - 1 : lista_blocked[j] # lista_blocked[i]}

\* The entries of s at the positions I, in their order.
EnPosiciones(s, I) ==
  [k \in 1 .. Cardinality(I) |-> s[CHOOSE i \in I : Cardinality({j \in I : j <= i}) = k]]

\* Whatever the reply says; the TCB is freed but stays in lista_tcbs.
FinHilo ==
  LET d == despacho.dir
      I == Desbloqueables(d)
  IN /\ viva /\ despacho.fase = "fin_hilo"
     /\ \E ok \in BOOLEAN : LeerRespuesta(ok)
     /\ lista_ready' = lista_ready \o EnPosiciones(lista_blocked, I)
     /\ lista_blocked' = EnPosiciones(lista_blocked, DOMAIN lista_blocked \ I)
     /\ tcb' = [e \in Dirs |->
                  IF e = d THEN Liberado
                  ELSE IF \E i \in I : lista_blocked[i] = e
                  THEN [tcb[e] EXCEPT !.estado = "READY", !.bloqueo = Nadie, !.join = Nadie]
                  ELSE tcb[e]]
     /\ despacho' = IF despacho.i = 0 THEN Escucha
                    ELSE [despacho EXCEPT !.fase = "recorre", !.dir = NULL, !.i = @ + 1]
     /\ UNCHANGED <<planificacion, procesos, lista_tcbs, a_memoria, historia, mutex, viva>>

-----------------------------------------------------------------------------
(* PROCESS_EXIT and finalizar_proceso *)

ProcessExit(d) ==
  /\ Syscall("PROCESS_EXIT", d, Nadie)
  /\ \/ tcb[d].tid # 0 /\ UNCHANGED <<a_memoria, despacho>>
     \/ /\ tcb[d].tid = 0
        /\ a_memoria' = Append(a_memoria,
                               Msg("FINALIZAR_PROCESO", tcb[d].pid, Nadie, Nadie))
        /\ despacho' = [Escucha EXCEPT !.fase = "fin_proceso", !.pid = tcb[d].pid]
  /\ UNCHANGED <<procesos, hilos, de_memoria, desfasado, mutex, viva>>

\* strcmp not looked at: any reply starts the loop.
RespuestaFinProceso_SinMirar ==
  /\ viva /\ despacho.fase = "fin_proceso"
  /\ mutex > 0
  /\ \E ok \in BOOLEAN : LeerRespuesta(ok)
  /\ mutex' = mutex - 1
  /\ despacho' = [despacho EXCEPT !.fase = "recorre", !.i = 1]
  /\ UNCHANGED <<planificacion, procesos, hilos, a_memoria, historia, viva>>

\* Only "OK" starts the loop over lista_tcbs, which runs with mutex taken.
RespuestaFinProceso ==
  /\ viva /\ despacho.fase = "fin_proceso"
  /\ mutex > 0
  /\ \E ok \in BOOLEAN :
       /\ LeerRespuesta(ok)
       /\ IF ok THEN /\ mutex' = mutex - 1
                     /\ despacho' = [despacho EXCEPT !.fase = "recorre", !.i = 1]
                ELSE despacho' = Escucha /\ UNCHANGED mutex
  /\ UNCHANGED <<planificacion, procesos, hilos, a_memoria, historia, viva>>

DelProceso(p, i) ==
  {j \in DOMAIN lista_tcbs : j >= i /\ tcb[lista_tcbs[j]].pid = p}

\* finalizar_hilo for the next thread of the process: it waits for mutex again.
RecorrerHilos ==
  /\ viva /\ despacho.fase = "recorre"
  /\ mutex > 0
  /\ \E j \in DelProceso(despacho.pid, despacho.i) :
       /\ \A k \in DelProceso(despacho.pid, despacho.i) : j <= k
       /\ FinalizarHilo(lista_tcbs[j], j)
  /\ UNCHANGED <<SinTocar, planificacion, historia>>

\* The loop is over; iniciar_proceso asks memoria again, without the semaphore.
FinProceso ==
  /\ viva /\ despacho.fase = "recorre"
  /\ DelProceso(despacho.pid, despacho.i) = {}
  /\ mutex' = mutex + 1
  /\ pcb' = [pcb EXCEPT ![despacho.pid].estado = "EXIT",
                        ![despacho.pid].tid_contador = Nadie]
  /\ a_memoria' = Append(a_memoria, PedidoDeMemoria)
  /\ despacho' = Escucha
  /\ UNCHANGED <<planificacion, pid, cola_new, hilos, de_memoria, desfasado, historia, viva>>
-----------------------------------------------------------------------------
(* memoria, as the kernel sees it: one reply, or none, per message, in order.  It  *)
(* never gets past a DUMP_MEMORY, for which it waits for the file system.          *)

MemoriaAtiende ==
  /\ a_memoria # << >>
  /\ LET m == Head(a_memoria)
     IN /\ m.op # "DUMP_MEMORY"
        /\ \/ /\ m.op = "ASIGNAR_MEMORIA"
              /\ \E bit \in {1, Nadie} :
                   de_memoria' = Append(de_memoria,
                     Msg("CONFIRMAR_ESPACIO_PROCESO", m.pid, Nadie, bit))
           \/ /\ m.op = "HILO_READY"
              /\ de_memoria' = Append(de_memoria,
                   Msg("CONFIRMAR_CREACION_HILO", m.pid, m.tid, 1))
           \/ /\ m.op \in {"FINALIZAR_HILO", "FINALIZAR_PROCESO"}
              /\ \/ /\ TRUE \in MemoriaResponde
                    /\ \E bit \in {1, Nadie} :
                         de_memoria' = Append(de_memoria, Msg("MENSAJE", m.pid, Nadie, bit))
                 \/ /\ FALSE \in MemoriaResponde
                    /\ UNCHANGED de_memoria
  /\ a_memoria' = Tail(a_memoria)
  /\ UNCHANGED <<planificacion, procesos, hilos, desfasado, historia, mutex, despacho, viva>>

-----------------------------------------------------------------------------
(* The kernel and its peers *)

EscuchaMemoria ==
  \/ ConfirmarEspacioProceso \/ PostLargoPlazo \/ ConfirmarCreacionHilo \/ CortoPlazo

AtiendeSyscall ==
  \E d \in Dirs :
    \/ ProcessCreate(d) \/ ProcessExit(d) \/ ThreadCreate(d) \/ ThreadExit(d)
    \/ DumpMemory(d) \/ IO(d)
    \/ \E x \in Tids : ThreadJoin(d, x) \/ ThreadCancel(d, x)
    \/ \E r \in Recursos :
         \/ MutexCreate(d, r) \/ MutexLock(d, r) \/ MutexUnlock(d, r)
         \/ MutexInexistente("MUTEX_LOCK", d, r) \/ MutexInexistente("MUTEX_UNLOCK", d, r)

SigueSyscall ==
  FinIO \/ FinHilo \/ RespuestaFinProceso \/ RecorrerHilos \/ FinProceso

Next ==
  \/ LargoPlazo \/ EscuchaMemoria
  \/ AtiendeSyscall \/ SigueSyscall
  \/ MemoriaAtiende

Spec == Init /\ [][Next]_vars

\* After a partial read the next one takes payload for a size, and may wait for ever.
SigueSinDesfase ==
  SigueSyscall /\ (desfasado => despacho.fase \notin {"fin_hilo", "fin_proceso"})

\* Every thread of the kernel that can go on does, and memoria serves its socket; the
\* CPU owes nothing.
FairSpec ==
  /\ Spec
  /\ WF_vars(LargoPlazo) /\ WF_vars(EscuchaMemoria) /\ WF_vars(SigueSinDesfase)
  /\ WF_vars(MemoriaAtiende)

-----------------------------------------------------------------------------
(* Properties *)

Vivos == {d \in Dirs : tcb[d] # Liberado}

\* buscar_tcbs can only mean one thread: no two TCBs in use share pid and tid, however
\* crear_hilo and THREAD_CREATE interleave with the reuse of freed addresses
\* (kernel_escucha_cpu_dispatch.c:60-62, k_conexiones.c:220).
TidsUnicos ==
  \A d, e \in Vivos : tcb[d].pid = tcb[e].pid /\ tcb[d].tid = tcb[e].tid => d = e

\* A mutex nobody owns has nobody waiting, its waiters are blocked threads of the
\* process and its owner has not ended: no unlock, exit or cancel loses a wake-up
\* (kernel_escucha_cpu_dispatch.c:189-240, k_conexiones.c:458-472).
MutexCoherente ==
  viva => \A p \in Pids : \A k \in DOMAIN pcb[p].mutex :
    LET m == pcb[p].mutex[k]
    IN /\ m.tid = Nadie => m.bloqueados = << >>
       /\ \A i \in DOMAIN m.bloqueados :
            \E d \in Vivos : tcb[d].pid = p /\ tcb[d].tid = m.bloqueados[i]
                             /\ tcb[d].estado = "BLOCKED"
       /\ m.tid # Nadie => \E d \in Vivos : tcb[d].pid = p /\ tcb[d].tid = m.tid

\* A blocked thread is in lista_blocked, the only list that can bring it back
\* (k_conexiones.c:502).
BloqueadoEnLista ==
  \A d \in Vivos : tcb[d].estado = "BLOCKED" =>
    \E i \in DOMAIN lista_blocked : lista_blocked[i] = d

\* The lists are shared and the semaphore mutex does not protect them (it is posted
\* twice around list_add, k_conexiones.c:242-244).  What keeps the two listeners
\* apart is that the first dispatch is also the last thing kernel_escucha_memoria
\* does: nothing can be served for the CPU before it is inside the short-term planner.
SinCarreras ==
  a_cpu # << >> \/ despacho # Escucha => oyente = "corto"

\* The planner asks for an uninitialised PCB as soon as cola_new is empty
\* (k_conexiones.c:300-312), and the confirmation of that would make crear_hilo use a
\* NULL PCB; HILO_READY leaves before the planner is let go on, so the listener is
\* gone from the socket when it arrives.
ArranqueVivo == a_cpu = << >> => viva

\* The nested sem_wait of finalizar_hilo inside finalizar_proceso never finds mutex at
\* 0 (k_conexiones.c:376-384, 433): the two posts of every TCB created have left it
\* above 1.
MutexNoSeAgota == mutex > 0

-----------------------------------------------------------------------------
(* What comments and scripts of the repository say *)

\* k_conexiones.c:457, a thread that ends gives up its mutexes: the kernel survives it.
FinDelDuenio ==
  [][ultima'.op = "THREAD_EXIT" /\ syscalls' # syscalls => viva']_vars

EnReady(d) == \E i \in DOMAIN lista_ready : lista_ready[i] = d

\* planificadores.c:20, the short-term planner goes round "mientras haya tcbs en la
\* lista_ready": a thread that gets there is taken out, unless the kernel dies first.
ListoSeDespacha == \A d \in Dirs : EnReady(d) ~> ~EnReady(d) \/ ~viva
=============================================================================
