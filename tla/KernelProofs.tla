---------------------------- MODULE KernelProofs ----------------------------
(***************************************************************************)
(* Proofs about the kernel's start-up and its semaphores, and then about   *)
(* its threads and mutexes, for every number of addresses, processes, tids *)
(* and system calls.                                                       *)
(*                                                                         *)
(* The start-up goes through four phases, told apart by where the request  *)
(* for the first process is.  Until the fourth nothing is served for the   *)
(* CPU, and in the fourth kernel_escucha_memoria never leaves the          *)
(* short-term planner: the phase is what keeps the two listeners apart.    *)
(*                                                                         *)
(* So only the first process ever has threads: the listener that makes the *)
(* main thread of a process makes the first one and enters the short-term  *)
(* planner.                                                                *)
(***************************************************************************)
EXTENDS Kernel, FiniteSetTheorems, WellFoundedInduction, TLAPS

\* Nothing has been sent to the CPU: the dispatch listener has had nothing to do.
Quieto == viva /\ a_cpu = << >> /\ despacho = Escucha

ConPedidoInicial ==
  \/ sem_plani_largo_plazo = 1 /\ a_memoria = << >> /\ de_memoria = << >>
  \/ /\ sem_plani_largo_plazo = 0 /\ de_memoria = << >>
     /\ a_memoria = <<Msg("ASIGNAR_MEMORIA", 1, Nadie, Nadie)>>
  \/ /\ sem_plani_largo_plazo = 0 /\ a_memoria = << >>
     /\ \E bit \in {1, Nadie} :
          de_memoria = <<Msg("CONFIRMAR_ESPACIO_PROCESO", 1, Nadie, bit)>>

\* The first process is in NEW, and one token is in the semaphore of the planner, in
\* the request or in the confirmation.
EnNew ==
  /\ Quieto /\ oyente = "escucha" /\ TCBaPlanificar = 0 /\ mutex = 1
  /\ cola_new = <<1>> /\ pcb[1] = ProcesoNuevo
  /\ tcb = [d \in Dirs |-> Liberado] /\ lista_tcbs = << >> /\ lista_ready = << >>
  /\ ConPedidoInicial

\* The main thread has its TCB, and no other has.
HiloCreado ==
  \E d \in Dirs :
    /\ lista_tcbs = <<d>>
    /\ tcb[d] = [Liberado EXCEPT !.pid = 1, !.tid = 0, !.estado = "READY"]
    /\ tcb = [e \in Dirs |-> tcb[e]]

Ops == {"ASIGNAR_MEMORIA", "HILO_READY", "FINALIZAR_HILO", "FINALIZAR_PROCESO", "DUMP_MEMORY",
        "CONFIRMAR_ESPACIO_PROCESO", "CONFIRMAR_CREACION_HILO", "MENSAJE"}

Mensaje == [op : Ops, pid : Int, tid : Int, bit : Int]
Alta    == Msg("HILO_READY", 1, 0, Nadie)
AltaOk  == Msg("CONFIRMAR_CREACION_HILO", 1, 0, 1)

\* Before anything else memoria has the HILO_READY of that thread to answer, or the
\* kernel that answer to read.
AltaPrimero ==
  /\ a_memoria \in Seq(Mensaje) /\ de_memoria \in Seq(Mensaje)
  /\ \/ de_memoria = << >> /\ a_memoria # << >> /\ Head(a_memoria) = Alta
     \/ de_memoria # << >> /\ Head(de_memoria) = AltaOk

Creando ==
  /\ Quieto /\ oyente \in {"post", "escucha"} /\ TCBaPlanificar = 0 /\ mutex = 3
  /\ cola_new = << >> /\ HiloCreado /\ lista_ready = << >>
  /\ AltaPrimero

\* The main thread is ready, and the planner has its post.
Listo ==
  /\ Quieto /\ oyente = "corto" /\ TCBaPlanificar = 1 /\ mutex = 3
  /\ HiloCreado /\ lista_ready = lista_tcbs

\* finalizar_proceso holds mutex while it goes through lista_tcbs.
Tomado ==
  IF despacho.fase = "recorre" \/ (despacho.fase = "fin_hilo" /\ despacho.i # 0)
  THEN 1 ELSE 0

\* Two posts for every TCB created, and at most one wait not yet answered.
Cuenta ==
  /\ lista_tcbs \in Seq(Dirs)
  /\ despacho = [fase |-> despacho.fase, dir |-> despacho.dir,
                 i |-> despacho.i, pid |-> despacho.pid]
  /\ despacho.i \in Nat
  /\ mutex \in Int /\ mutex + Tomado >= 3

\* The only dispatch has been made.
Despachado ==
  /\ oyente = "corto" /\ TCBaPlanificar = 0 /\ (\E x : a_cpu = <<x>>)
  /\ Cuenta

Fase == EnNew \/ Creando \/ Listo \/ Despachado

-----------------------------------------------------------------------------

LEMMA FaseInicial == Init => Fase
<1> SUFFICES ASSUME Init PROVE EnNew
  BY DEF Fase
<1>1. 1 \in Pids
  BY CotasValidas DEF Pids
<1>2. pcb[1] = ProcesoNuevo
  BY <1>1 DEF Init
<1>3. QED
  BY <1>2 DEF Init, EnNew, Quieto, ConPedidoInicial

\* A packet of the CPU is served by a listener with nothing else to do, after a
\* dispatch, and leaves the planner's state alone.
LEMMA AtencionAjena ==
  AtiendeSyscall => UNCHANGED planificacion /\ a_cpu # << >> /\ despacho = Escucha
<1> DEFINE Ajena == UNCHANGED planificacion /\ a_cpu # << >> /\ despacho = Escucha
<1>1. \A op, d, arg : Syscall(op, d, arg) => Ajena
  BY DEF Syscall
<1> HIDE DEF Ajena
<1> SUFFICES ASSUME AtiendeSyscall PROVE Ajena
  BY DEF Ajena
<1>2. PICK d \in Dirs :
        \/ ProcessCreate(d) \/ ProcessExit(d) \/ ThreadCreate(d) \/ ThreadExit(d)
        \/ DumpMemory(d) \/ IO(d)
        \/ \E x \in Tids : ThreadJoin(d, x) \/ ThreadCancel(d, x)
        \/ \E r \in Recursos :
             \/ MutexCreate(d, r) \/ MutexLock(d, r) \/ MutexUnlock(d, r)
             \/ MutexInexistente("MUTEX_LOCK", d, r) \/ MutexInexistente("MUTEX_UNLOCK", d, r)
  BY DEF AtiendeSyscall
<1>3. ASSUME ProcessCreate(d) \/ ProcessExit(d) \/ ThreadCreate(d) PROVE Ajena
  BY <1>1, <1>3, Zenon DEF ProcessCreate, ProcessExit, ThreadCreate
<1>4. ASSUME ThreadExit(d) \/ DumpMemory(d) \/ IO(d) PROVE Ajena
  BY <1>1, <1>4, Zenon DEF ThreadExit, DumpMemory, IO
<1>5. ASSUME NEW x, ThreadJoin(d, x) \/ ThreadCancel(d, x) PROVE Ajena
  BY <1>1, <1>5, Zenon DEF ThreadJoin, ThreadCancel
<1>6. ASSUME NEW r, MutexCreate(d, r) \/ MutexLock(d, r) \/ MutexUnlock(d, r) PROVE Ajena
  BY <1>1, <1>6, Zenon DEF MutexCreate, MutexLock, MutexUnlock
<1>7. ASSUME NEW op, NEW r, MutexInexistente(op, d, r) PROVE Ajena
  BY <1>1, <1>7, Zenon DEF MutexInexistente
<1>8. QED BY <1>2, <1>3, <1>4, <1>5, <1>6, <1>7

LEMMA PlanificacionAjena == AtiendeSyscall \/ SigueSyscall => UNCHANGED planificacion
<1>1. SigueSyscall => UNCHANGED planificacion
  BY Zenon DEF SigueSyscall, FinIO, FinHilo, RespuestaFinProceso, RecorrerHilos, FinProceso
<1>2. QED BY <1>1, AtencionAjena

\* Before the first dispatch the dispatch listener does nothing.
LEMMA DespachoQuieto == Quieto => ~AtiendeSyscall /\ ~SigueSyscall
<1> SUFFICES ASSUME Quieto PROVE ~SigueSyscall
  BY AtencionAjena DEF Quieto
<1>1. despacho.fase = "escucha"
  BY DEF Quieto, Escucha
<1>2. QED
  BY <1>1 DEF SigueSyscall, FinIO, FinHilo, RespuestaFinProceso, RecorrerHilos, FinProceso

\* The request leaves, is answered, and is refused or becomes the main thread.
LEMMA EnNewPaso == EnNew /\ Next => Fase'
<1> SUFFICES ASSUME EnNew, Next PROVE Fase'
  OBVIOUS
<1>0. ~AtiendeSyscall /\ ~SigueSyscall
  BY DespachoQuieto DEF EnNew
<1>1. CASE LargoPlazo
  <2>1. PedidoDeMemoria = Msg("ASIGNAR_MEMORIA", 1, Nadie, Nadie)
    BY DEF PedidoDeMemoria, EnNew
  <2>2. a_memoria = << >> /\ de_memoria = << >> /\ sem_plani_largo_plazo = 1
    BY <1>1 DEF EnNew, ConPedidoInicial, LargoPlazo
  <2>3. ConPedidoInicial'
    BY <1>1, <2>1, <2>2 DEF LargoPlazo, ConPedidoInicial
  <2>4. EnNew'
    BY <1>1, <2>3 DEF EnNew, Quieto, LargoPlazo, procesos, hilos
  <2>5. QED BY <2>4 DEF Fase
<1>2. CASE ConfirmarEspacioProceso
  <2>1. PICK bit \in {1, Nadie} :
          /\ de_memoria = <<Msg("CONFIRMAR_ESPACIO_PROCESO", 1, Nadie, bit)>>
          /\ a_memoria = << >> /\ sem_plani_largo_plazo = 0
    BY <1>2 DEF EnNew, ConPedidoInicial, ConfirmarEspacioProceso, Recibe
  <2>2. Head(de_memoria).pid = 1 /\ Head(de_memoria).bit = bit /\ de_memoria' = << >>
    BY <1>2, <2>1 DEF ConfirmarEspacioProceso, Recibe, Msg
  <2>3. CASE bit = 1
    <3>1. CrearHiloMain(1)
      BY <1>2, <2>2, <2>3 DEF ConfirmarEspacioProceso
    <3>2. 1 \in Pids /\ pcb[1].estado # "NO" /\ cola_new # << >> /\ Head(cola_new) = 1
          /\ Tail(cola_new) = << >> /\ pcb[1].tid_contador = 0
      BY CotasValidas DEF Pids, EnNew, ProcesoNuevo, SinCrear
    <3>3. /\ cola_new' = << >>
          /\ \E d \in Dirs : AgregarHilo(d, 1, 0)
          /\ a_memoria' = Append(a_memoria, Alta)
          /\ oyente' = "post" /\ viva' = viva
      BY <3>1, <3>2 DEF CrearHiloMain, Alta
    <3>4. PICK d \in Dirs : AgregarHilo(d, 1, 0)
      BY <3>3
    <3>5. lista_tcbs' = <<d>> /\ mutex' = 3
      BY <3>4 DEF AgregarHilo, EnNew
    <3>6. /\ tcb'[d] = [Liberado EXCEPT !.pid = 1, !.tid = 0, !.estado = "READY"]
          /\ tcb' = [e \in Dirs |-> tcb'[e]]
      BY <3>4 DEF AgregarHilo, EnNew
    <3>7. HiloCreado'
      BY <3>5, <3>6 DEF HiloCreado
    <3>8. AltaPrimero'
      <4>1. Alta \in Mensaje
        <5>1. Nadie \in Int BY DEF Nadie
        <5>2. QED BY <5>1 DEF Alta, Msg, Mensaje, Ops
      <4>2. a_memoria' = <<Alta>>
        BY <2>1, <3>3
      <4>3. QED BY <4>1, <4>2, <2>2 DEF AltaPrimero
    <3>9. /\ TCBaPlanificar' = 0 /\ a_cpu' = << >> /\ lista_ready' = << >>
          /\ despacho' = Escucha /\ viva'
      BY <1>2, <3>3 DEF ConfirmarEspacioProceso, EnNew, Quieto
    <3>10. Creando'
      BY <3>3, <3>5, <3>7, <3>8, <3>9 DEF Creando, Quieto
    <3>11. QED BY <3>10 DEF Fase
  <2>4. CASE bit # 1
    <3>1. /\ sem_plani_largo_plazo' = 1
          /\ UNCHANGED <<oyente, cola_new, tcb, lista_tcbs, mutex, a_memoria, viva>>
          /\ UNCHANGED <<TCBaPlanificar, a_cpu, pcb, lista_ready, despacho>>
      BY <1>2, <2>1, <2>2, <2>4 DEF ConfirmarEspacioProceso
    <3>2. EnNew'
      BY <3>1, <2>1, <2>2 DEF EnNew, Quieto, ConPedidoInicial
    <3>3. QED BY <3>2 DEF Fase
  <2>5. QED BY <2>3, <2>4
<1>3. ~PostLargoPlazo /\ ~CortoPlazo
  BY DEF EnNew, PostLargoPlazo, CortoPlazo
<1>4. ~ConfirmarCreacionHilo
  BY DEF EnNew, ConPedidoInicial, ConfirmarCreacionHilo, Recibe, Msg
<1>5. CASE MemoriaAtiende
  <2>1. /\ a_memoria = <<Msg("ASIGNAR_MEMORIA", 1, Nadie, Nadie)>>
        /\ de_memoria = << >> /\ sem_plani_largo_plazo = 0
    BY <1>5 DEF EnNew, ConPedidoInicial, MemoriaAtiende
  <2>2. Head(a_memoria).op = "ASIGNAR_MEMORIA" /\ Head(a_memoria).pid = 1
    BY <2>1 DEF Msg
  <2>3. /\ \E bit \in {1, Nadie} :
             de_memoria' = <<Msg("CONFIRMAR_ESPACIO_PROCESO", 1, Nadie, bit)>>
        /\ a_memoria' = << >>
    <3>1. \E bit \in {1, Nadie} :
             de_memoria' = Append(de_memoria,
               Msg("CONFIRMAR_ESPACIO_PROCESO", Head(a_memoria).pid, Nadie, bit))
      BY <1>5, <2>2 DEF MemoriaAtiende
    <3>2. a_memoria' = Tail(a_memoria)
      BY <1>5 DEF MemoriaAtiende
    <3>3. QED BY <3>1, <3>2, <2>1, <2>2
  <2>4. EnNew'
    BY <1>5, <2>1, <2>3 DEF EnNew, Quieto, ConPedidoInicial, MemoriaAtiende,
       planificacion, procesos, hilos
  <2>5. QED BY <2>4 DEF Fase
<1>6. QED BY <1>0, <1>1, <1>2, <1>3, <1>4, <1>5 DEF Next, EscuchaMemoria

LEMMA MsgTipo ==
  ASSUME NEW op \in Ops, NEW p \in Int, NEW t \in Int, NEW b \in Int
  PROVE  Msg(op, p, t, b) \in Mensaje
BY DEF Msg, Mensaje

\* What is sent to memoria after HILO_READY stays behind it, and its replies behind
\* the confirmation of the thread.
LEMMA AltaPrimeroPaso ==
  ASSUME AltaPrimero, LargoPlazo, cola_new = << >> PROVE AltaPrimero'
<1>1. PedidoDeMemoria \in Mensaje
  BY MsgTipo DEF PedidoDeMemoria, Ops, Nadie, Basura
<1>2. a_memoria' = Append(a_memoria, PedidoDeMemoria) /\ de_memoria' = de_memoria
  BY DEF LargoPlazo
<1>3. QED
  BY <1>1, <1>2 DEF AltaPrimero

LEMMA AltaPrimeroMemoria ==
  ASSUME AltaPrimero, MemoriaAtiende PROVE AltaPrimero'
<1>1. a_memoria # << >> /\ a_memoria' = Tail(a_memoria) /\ a_memoria' \in Seq(Mensaje)
  BY DEF MemoriaAtiende, AltaPrimero
<1>2. Head(a_memoria) \in Mensaje
  BY <1>1 DEF AltaPrimero
<1>3. Head(a_memoria).pid \in Int /\ Head(a_memoria).tid \in Int
  BY <1>2 DEF Mensaje
<1>4. \/ UNCHANGED de_memoria
      \/ \E x \in Mensaje : de_memoria' = Append(de_memoria, x)
  <2> DEFINE m == Head(a_memoria)
  <2>1. \A bit \in {1, Nadie} :
          /\ Msg("CONFIRMAR_ESPACIO_PROCESO", m.pid, Nadie, bit) \in Mensaje
          /\ Msg("MENSAJE", m.pid, Nadie, bit) \in Mensaje
    BY <1>3, MsgTipo DEF Ops, Nadie
  <2>2. Msg("CONFIRMAR_CREACION_HILO", m.pid, m.tid, 1) \in Mensaje
    BY <1>3, MsgTipo DEF Ops
  <2>3. QED BY <2>1, <2>2, Zenon DEF MemoriaAtiende
<1>5. CASE de_memoria # << >> /\ Head(de_memoria) = AltaOk
  <2>1. de_memoria' # << >> /\ Head(de_memoria') = AltaOk /\ de_memoria' \in Seq(Mensaje)
    BY <1>4, <1>5 DEF AltaPrimero
  <2>2. QED BY <1>1, <2>1 DEF AltaPrimero
<1>6. CASE de_memoria = << >> /\ Head(a_memoria) = Alta
  <2>1. /\ Head(a_memoria).op = "HILO_READY"
        /\ Head(a_memoria).pid = 1 /\ Head(a_memoria).tid = 0
    BY <1>6 DEF Alta, Msg
  <2>2. de_memoria' = Append(de_memoria, AltaOk)
    BY <2>1 DEF MemoriaAtiende, AltaOk
  <2>3. AltaOk \in Mensaje
    BY MsgTipo DEF AltaOk, Ops
  <2>4. QED BY <1>1, <1>6, <2>2, <2>3 DEF AltaPrimero
<1>7. QED BY <1>5, <1>6 DEF AltaPrimero

\* The thread is found by the pid and tid confirmed, and becomes the only one ready.
LEMMA CreandoPaso == Creando /\ Next => Fase'
<1> SUFFICES ASSUME Creando, Next PROVE Fase'
  OBVIOUS
<1>0. ~AtiendeSyscall /\ ~SigueSyscall
  BY DespachoQuieto DEF Creando
<1>1. CASE LargoPlazo
  <2>1. AltaPrimero'
    BY <1>1, AltaPrimeroPaso DEF Creando
  <2>2. Creando'
    BY <1>1, <2>1 DEF Creando, Quieto, HiloCreado, LargoPlazo, procesos, hilos
  <2>3. QED BY <2>2 DEF Fase
<1>2. ~ConfirmarEspacioProceso
  BY DEF Creando, AltaPrimero, AltaOk, Msg, ConfirmarEspacioProceso, Recibe
<1>3. CASE PostLargoPlazo
  <2>1. Creando'
    BY <1>3 DEF Creando, Quieto, HiloCreado, AltaPrimero, PostLargoPlazo, procesos, hilos,
       canales
  <2>2. QED BY <2>1 DEF Fase
<1>4. CASE ConfirmarCreacionHilo
  <2>1. PICK d \in Dirs :
          /\ lista_tcbs = <<d>>
          /\ tcb[d] = [Liberado EXCEPT !.pid = 1, !.tid = 0, !.estado = "READY"]
    BY DEF Creando, HiloCreado
  <2>2. Head(de_memoria).tid = 0 /\ Head(de_memoria).pid = 1
    BY <1>4 DEF Creando, AltaPrimero, AltaOk, Msg, ConfirmarCreacionHilo, Recibe
  <2>3. BuscarTcbs(0, 1) = d
    <3>1. tcb[d].pid = 1 /\ tcb[d].tid = 0
      BY <2>1 DEF Liberado
    <3>2. DOMAIN lista_tcbs = {1} /\ lista_tcbs[1] = d
      BY <2>1
    <3>3. Posiciones(0, 1) = {1}
      BY <3>1, <3>2 DEF Posiciones
    <3>4. (CHOOSE i \in Posiciones(0, 1) : \A j \in Posiciones(0, 1) : i <= j) = 1
      BY <3>3
    <3>5. QED BY <3>2, <3>3, <3>4 DEF BuscarTcbs
  <2>4. d # NULL
    BY CotasValidas
  <2>5. lista_ready' = Append(lista_ready, d) /\ lista_tcbs' = lista_tcbs
    BY <1>4, <2>2, <2>3, <2>4 DEF ConfirmarCreacionHilo
  <2>6. lista_ready' = lista_tcbs'
    BY <2>1, <2>5 DEF Creando
  <2>7. tcb' = tcb /\ HiloCreado
    BY <1>4 DEF Creando, ConfirmarCreacionHilo
  <2>8. HiloCreado'
    BY <2>5, <2>7 DEF HiloCreado
  <2>9. oyente' = "corto" /\ TCBaPlanificar' = 1 /\ mutex' = 3 /\ Quieto'
    BY <1>4 DEF Creando, Quieto, ConfirmarCreacionHilo
  <2>10. Listo'
    BY <2>6, <2>8, <2>9 DEF Listo
  <2>11. QED BY <2>10 DEF Fase
<1>5. ~CortoPlazo
  BY DEF Creando, CortoPlazo
<1>6. CASE MemoriaAtiende
  <2>1. AltaPrimero'
    BY <1>6, AltaPrimeroMemoria DEF Creando
  <2>2. Creando'
    BY <1>6, <2>1 DEF Creando, Quieto, HiloCreado, MemoriaAtiende, planificacion, procesos,
       hilos
  <2>3. QED BY <2>2 DEF Fase
<1>7. QED BY <1>0, <1>1, <1>2, <1>3, <1>4, <1>5, <1>6 DEF Next, EscuchaMemoria

\* The planner sends it to the CPU.
LEMMA ListoPaso == Listo /\ Next => Fase'
<1> SUFFICES ASSUME Listo, Next PROVE Fase'
  OBVIOUS
<1>0. ~AtiendeSyscall /\ ~SigueSyscall
  BY DespachoQuieto DEF Listo
<1>1. CASE LargoPlazo \/ MemoriaAtiende
  <2>1. Listo'
    BY <1>1 DEF Listo, Quieto, HiloCreado, LargoPlazo, MemoriaAtiende, planificacion,
       procesos, hilos
  <2>2. QED BY <2>1 DEF Fase
<1>2. ~ConfirmarEspacioProceso /\ ~ConfirmarCreacionHilo /\ ~PostLargoPlazo
  BY DEF Listo, ConfirmarEspacioProceso, ConfirmarCreacionHilo, PostLargoPlazo, Recibe
<1>3. CASE CortoPlazo
  <2>1. PICK d \in Dirs :
          /\ lista_tcbs = <<d>>
          /\ tcb[d] = [Liberado EXCEPT !.pid = 1, !.tid = 0, !.estado = "READY"]
    BY DEF Listo, HiloCreado
  <2>2. tcb[d].estado = "READY" /\ Liberado.estado = "LIBRE"
    BY <2>1 DEF Liberado
  <2>3. lista_ready = <<d>> /\ lista_ready # << >> /\ Head(lista_ready) = d
    BY <2>1 DEF Listo
  <2>9. tcb[Head(lista_ready)] # Liberado
    BY <2>2, <2>3
  <2>10. a_cpu' = Append(a_cpu, <<tcb[d].pid, tcb[d].tid>>) /\ a_cpu = << >>
    BY <1>3, <2>3, <2>9 DEF CortoPlazo, Listo, Quieto
  <2>4. /\ a_cpu' = <<<<tcb[d].pid, tcb[d].tid>>>>
        /\ TCBaPlanificar' = 0 /\ oyente' = "corto"
        /\ lista_tcbs' = <<d>> /\ despacho' = Escucha /\ mutex' = 3
    BY <1>3, <2>1, <2>10 DEF CortoPlazo, Listo, Quieto
  <2>5. Tomado' = 0
    BY <2>4 DEF Tomado, Escucha
  <2>6. /\ despacho' = [fase |-> despacho'.fase, dir |-> despacho'.dir,
                        i |-> despacho'.i, pid |-> despacho'.pid]
        /\ despacho'.i \in Nat
    BY <2>4 DEF Escucha
  <2>7. Despachado'
    BY <2>1, <2>4, <2>5, <2>6 DEF Despachado, Cuenta
  <2>8. QED BY <2>7 DEF Fase
<1>4. QED BY <1>0, <1>1, <1>2, <1>3 DEF Next, EscuchaMemoria

LEMMA CuentaNueva ==
  ASSUME NEW f, NEW x, NEW n \in Nat, NEW p, f # "recorre", f = "fin_hilo" => n = 0,
         despacho' = [fase |-> f, dir |-> x, i |-> n, pid |-> p],
         lista_tcbs' \in Seq(Dirs), mutex' \in Int, mutex' >= 3
  PROVE  Cuenta'
<1>1. /\ despacho'.fase = f /\ despacho'.dir = x /\ despacho'.i = n /\ despacho'.pid = p
  OBVIOUS
<1>2. Tomado' = 0
  BY <1>1 DEF Tomado
<1>3. despacho' = [fase |-> despacho'.fase, dir |-> despacho'.dir,
                  i |-> despacho'.i, pid |-> despacho'.pid]
  BY <1>1
<1>4. mutex' + Tomado' >= 3
  <2>1. \A m \in Int : m >= 3 => m + 0 >= 3
    OBVIOUS
  <2>2. QED BY <1>2, <2>1, Zenon
<1>5. despacho'.i \in Nat
  BY <1>1
<1>6. QED BY <1>3, <1>4, <1>5, Zenon DEF Cuenta

LEMMA CuentaIgual ==
  ASSUME Cuenta, UNCHANGED <<despacho, mutex, lista_tcbs>> PROVE Cuenta'
BY DEF Cuenta, Tomado

\* finalizar_hilo called for a system call, and not from finalizar_proceso.
LEMMA CuentaFinalizar ==
  ASSUME Cuenta, NEW d, FinalizarHilo(d, 0), despacho = Escucha,
         UNCHANGED <<lista_tcbs, mutex>>
  PROVE  Cuenta'
<1>1. CASE UNCHANGED despacho
  BY <1>1, CuentaIgual
<1>2. CASE despacho' = [fase |-> "fin_hilo", dir |-> d, i |-> 0, pid |-> tcb[d].pid]
  <2>1. Tomado = 0
    BY DEF Tomado, Escucha
  <2>2. lista_tcbs' \in Seq(Dirs) /\ mutex' \in Int /\ mutex' >= 3
    BY <2>1 DEF Cuenta
  <2>3. QED BY <1>2, <2>2, CuentaNueva
<1>3. QED BY <1>1, <1>2 DEF FinalizarHilo

LEMMA CuentaAtiende ==
  ASSUME Cuenta, AtiendeSyscall PROVE Cuenta'
<1>1. despacho = Escucha
  BY AtencionAjena
<1>2. Escucha.fase = "escucha" /\ Tomado = 0
  BY <1>1 DEF Tomado, Escucha
<1>3. lista_tcbs \in Seq(Dirs) /\ mutex \in Int /\ mutex >= 3
  BY <1>2 DEF Cuenta
<1>4. PICK d \in Dirs :
        \/ ProcessCreate(d) \/ ProcessExit(d) \/ ThreadCreate(d) \/ ThreadExit(d)
        \/ DumpMemory(d) \/ IO(d)
        \/ \E x \in Tids : ThreadJoin(d, x) \/ ThreadCancel(d, x)
        \/ \E r \in Recursos :
             \/ MutexCreate(d, r) \/ MutexLock(d, r) \/ MutexUnlock(d, r)
             \/ MutexInexistente("MUTEX_LOCK", d, r) \/ MutexInexistente("MUTEX_UNLOCK", d, r)
  BY DEF AtiendeSyscall
<1>5. CASE ProcessCreate(d)
  BY <1>5, CuentaIgual DEF ProcessCreate, hilos
<1>6. CASE ProcessExit(d)
  <2>1. UNCHANGED <<lista_tcbs, mutex>>
    BY <1>6 DEF ProcessExit, hilos
  <2>2. \/ UNCHANGED despacho
        \/ despacho' = [fase |-> "fin_proceso", dir |-> NULL, i |-> 0, pid |-> tcb[d].pid]
    BY <1>6 DEF ProcessExit, Escucha
  <2>3. QED BY <1>3, <2>1, <2>2, CuentaIgual, CuentaNueva
<1>7. CASE ThreadCreate(d)
  <2>1. PICK e \in Dirs : \E p, t : AgregarHilo(e, p, t)
    BY <1>7 DEF ThreadCreate
  <2>2. lista_tcbs' = Append(lista_tcbs, e) /\ mutex' = mutex + 2
    BY <2>1 DEF AgregarHilo
  <2>3. despacho' = [fase |-> "escucha", dir |-> NULL, i |-> 0, pid |-> Basura]
    BY <1>1, <1>7 DEF ThreadCreate, Escucha
  <2>4. lista_tcbs' \in Seq(Dirs) /\ mutex' \in Int /\ mutex' >= 3
    BY <1>3, <2>2
  <2>5. QED BY <2>3, <2>4, CuentaNueva
<1>8. CASE ThreadExit(d)
  BY <1>1, <1>8, CuentaFinalizar DEF ThreadExit, SinTocar
<1>9. CASE DumpMemory(d)
  BY <1>9, CuentaIgual DEF DumpMemory
<1>10. CASE IO(d)
  <2>1. despacho' = [fase |-> "io", dir |-> Invocador(d), i |-> 0, pid |-> Basura]
    BY <1>10 DEF IO, Escucha
  <2>2. UNCHANGED <<lista_tcbs, mutex>>
    BY <1>10 DEF IO
  <2>3. QED BY <1>3, <2>1, <2>2, CuentaNueva
<1>11. ASSUME NEW x \in Tids, ThreadJoin(d, x) PROVE Cuenta'
  <2>1. UNCHANGED <<despacho, mutex>>
    BY <1>11 DEF ThreadJoin
  <2>2. UNCHANGED lista_tcbs
    BY <1>11 DEF ThreadJoin, PasarAReady, Bloquear
  <2>3. QED BY <2>1, <2>2, CuentaIgual
<1>12. ASSUME NEW x \in Tids, ThreadCancel(d, x) PROVE Cuenta'
  BY <1>1, <1>12, CuentaFinalizar DEF ThreadCancel, SinTocar
<1>13. ASSUME NEW r \in Recursos, MutexCreate(d, r) PROVE Cuenta'
  BY <1>13, CuentaIgual DEF MutexCreate, hilos
<1>14. ASSUME NEW r \in Recursos, MutexLock(d, r) PROVE Cuenta'
  <2>1. UNCHANGED <<despacho, mutex>>
    BY <1>14 DEF MutexLock
  <2>2. UNCHANGED lista_tcbs
    BY <1>14 DEF MutexLock, Bloquear, hilos
  <2>3. QED BY <2>1, <2>2, CuentaIgual
<1>15. ASSUME NEW r \in Recursos, MutexUnlock(d, r) PROVE Cuenta'
  <2>1. UNCHANGED <<despacho, mutex>>
    BY <1>15 DEF MutexUnlock
  <2>2. UNCHANGED lista_tcbs
    BY <1>15 DEF MutexUnlock, PasarAReady, hilos
  <2>3. QED BY <2>1, <2>2, CuentaIgual
<1>16. ASSUME NEW op, NEW r \in Recursos, MutexInexistente(op, d, r) PROVE Cuenta'
  BY <1>16, CuentaIgual DEF MutexInexistente, hilos
<1>17. QED
  BY <1>4, <1>5, <1>6, <1>7, <1>8, <1>9, <1>10, <1>11, <1>12, <1>13, <1>14, <1>15, <1>16

\* The wait of finalizar_proceso is answered by the post after its loop.
LEMMA CuentaSigue ==
  ASSUME Cuenta, SigueSyscall PROVE Cuenta'
<1>0. /\ lista_tcbs \in Seq(Dirs) /\ despacho.i \in Nat
      /\ mutex \in Int /\ mutex + Tomado >= 3
      /\ despacho = [fase |-> despacho.fase, dir |-> despacho.dir,
                     i |-> despacho.i, pid |-> despacho.pid]
  BY DEF Cuenta
<1>1. CASE FinIO
  <2>1. Tomado = 0 /\ lista_tcbs' = lista_tcbs /\ mutex' = mutex
    BY <1>1 DEF FinIO, Tomado
  <2>2. despacho' = [fase |-> "escucha", dir |-> NULL, i |-> 0, pid |-> Basura]
    BY <1>1 DEF FinIO, Escucha
  <2>3. QED BY <1>0, <2>1, <2>2, CuentaNueva
<1>2. CASE FinHilo
  <2>1. lista_tcbs' = lista_tcbs /\ mutex' = mutex /\ despacho.fase = "fin_hilo"
    BY <1>2 DEF FinHilo
  <2>2. CASE despacho.i = 0
    <3>1. despacho' = [fase |-> "escucha", dir |-> NULL, i |-> 0, pid |-> Basura]
      BY <1>2, <2>2 DEF FinHilo, Escucha
    <3>2. Tomado = 0
      BY <2>1, <2>2 DEF Tomado
    <3>3. QED BY <1>0, <2>1, <3>1, <3>2, CuentaNueva
  <2>3. CASE despacho.i # 0
    <3>1. despacho' = [despacho EXCEPT !.fase = "recorre", !.dir = NULL,
                                      !.i = despacho.i + 1]
      BY <1>2, <2>3 DEF FinHilo
    <3>2. despacho' = [fase |-> "recorre", dir |-> NULL, i |-> despacho.i + 1,
                       pid |-> despacho.pid]
      BY <1>0, <3>1
    <3>3. despacho'.fase = "recorre" /\ despacho'.i \in Nat
          /\ despacho' = [fase |-> despacho'.fase, dir |-> despacho'.dir,
                          i |-> despacho'.i, pid |-> despacho'.pid]
      BY <1>0, <3>2
    <3>4. Tomado = 1 /\ Tomado' = 1
      BY <2>1, <2>3, <3>3 DEF Tomado
    <3>5. QED BY <1>0, <2>1, <3>3, <3>4 DEF Cuenta
  <2>4. QED BY <2>2, <2>3
<1>3. CASE RespuestaFinProceso
  <2>1. lista_tcbs' = lista_tcbs /\ despacho.fase = "fin_proceso" /\ Tomado = 0
    BY <1>3 DEF RespuestaFinProceso, hilos, Tomado
  <2>2. CASE mutex' = mutex - 1 /\ despacho' = [despacho EXCEPT !.fase = "recorre", !.i = 1]
    <3>1. despacho' = [fase |-> "recorre", dir |-> despacho.dir, i |-> 1,
                       pid |-> despacho.pid]
      BY <1>0, <2>2
    <3>2. despacho'.fase = "recorre" /\ despacho'.i \in Nat
          /\ despacho' = [fase |-> despacho'.fase, dir |-> despacho'.dir,
                          i |-> despacho'.i, pid |-> despacho'.pid]
      BY <3>1
    <3>3. Tomado' = 1
      BY <3>2 DEF Tomado
    <3>4. QED BY <1>0, <2>1, <2>2, <3>2, <3>3 DEF Cuenta
  <2>3. CASE despacho' = Escucha /\ mutex' = mutex
    <3>1. despacho' = [fase |-> "escucha", dir |-> NULL, i |-> 0, pid |-> Basura]
      BY <2>3 DEF Escucha
    <3>2. QED BY <1>0, <2>1, <2>3, <3>1, CuentaNueva
  <2>4. QED BY <1>3, <2>2, <2>3 DEF RespuestaFinProceso
<1>4. CASE RecorrerHilos
  <2>1. lista_tcbs' = lista_tcbs /\ mutex' = mutex /\ Tomado = 1
    BY <1>4 DEF RecorrerHilos, SinTocar, Tomado
  <2>2. PICK j \in DelProceso(despacho.pid, despacho.i) : FinalizarHilo(lista_tcbs[j], j)
    BY <1>4 DEF RecorrerHilos
  <2>3. j \in Nat /\ j # 0
    BY <1>0 DEF DelProceso
  <2>4. CASE UNCHANGED despacho
    BY <2>1, <2>4, CuentaIgual
  <2>5. CASE despacho' = [fase |-> "fin_hilo", dir |-> lista_tcbs[j], i |-> j,
                         pid |-> tcb[lista_tcbs[j]].pid]
    <3>1. despacho'.fase = "fin_hilo" /\ despacho'.i = j
          /\ despacho' = [fase |-> despacho'.fase, dir |-> despacho'.dir,
                          i |-> despacho'.i, pid |-> despacho'.pid]
      BY <2>5
    <3>2. Tomado' = 1
      BY <2>3, <3>1 DEF Tomado
    <3>3. QED BY <1>0, <2>1, <2>3, <3>1, <3>2 DEF Cuenta
  <2>6. QED BY <2>2, <2>4, <2>5 DEF FinalizarHilo
<1>5. CASE FinProceso
  <2>1. lista_tcbs' = lista_tcbs /\ mutex' = mutex + 1 /\ Tomado = 1
    BY <1>5 DEF FinProceso, hilos, Tomado
  <2>2. despacho' = [fase |-> "escucha", dir |-> NULL, i |-> 0, pid |-> Basura]
    BY <1>5 DEF FinProceso, Escucha
  <2>3. QED BY <1>0, <2>1, <2>2, CuentaNueva
<1>6. QED BY <1>1, <1>2, <1>3, <1>4, <1>5 DEF SigueSyscall

\* Once the dispatch is made kernel_escucha_memoria can do nothing more.
LEMMA DespachadoPaso == Despachado /\ Next => Fase'
<1> SUFFICES ASSUME Despachado, Next PROVE Despachado'
  BY DEF Fase
<1>0. Cuenta
  BY DEF Despachado
<1>1. CASE LargoPlazo \/ MemoriaAtiende
  <2>1. UNCHANGED <<oyente, TCBaPlanificar, a_cpu, despacho, mutex, lista_tcbs>>
    BY <1>1 DEF LargoPlazo, MemoriaAtiende, planificacion, hilos
  <2>2. QED BY <1>0, <2>1, CuentaIgual DEF Despachado
<1>2. ~EscuchaMemoria
  BY DEF Despachado, EscuchaMemoria, ConfirmarEspacioProceso, ConfirmarCreacionHilo,
     PostLargoPlazo, CortoPlazo, Recibe
<1>3. CASE AtiendeSyscall \/ SigueSyscall
  <2>1. UNCHANGED <<oyente, TCBaPlanificar, a_cpu>>
    BY <1>3, PlanificacionAjena DEF planificacion
  <2>2. Cuenta'
    BY <1>0, <1>3, CuentaAtiende, CuentaSigue
  <2>3. QED BY <2>1, <2>2 DEF Despachado
<1>4. QED BY <1>1, <1>2, <1>3 DEF Next

LEMMA FaseInductiva == Fase /\ [Next]_vars => Fase'
<1>1. CASE Next
  BY <1>1, EnNewPaso, CreandoPaso, ListoPaso, DespachadoPaso DEF Fase
<1>2. CASE UNCHANGED vars
  BY <1>2 DEF vars, Fase, EnNew, Creando, Listo, Despachado, Quieto, ConPedidoInicial,
     HiloCreado, AltaPrimero, Cuenta, Tomado, planificacion, procesos, hilos, canales
<1>3. QED BY <1>1, <1>2

\* Every behaviour of the kernel goes through the four phases.
THEOREM Fases == Spec => []Fase
<1>1. Init => Fase
  BY FaseInicial
<1>2. Fase /\ [Next]_vars => Fase'
  BY FaseInductiva
<1>3. QED BY <1>1, <1>2, PTL DEF Spec

\* The two listeners never work on the lists at the same time: nothing is served for
\* the CPU while kernel_escucha_memoria is not in the short-term planner.
THEOREM ListasSinCarrera == Spec => []SinCarreras
<1>1. Fase => SinCarreras
  BY DEF Fase, EnNew, Creando, Listo, Despachado, Quieto, SinCarreras
<1>2. QED BY <1>1, Fases, PTL

\* TCBaPlanificar is posted once in the life of the kernel.
UnSoloDespacho == Len(a_cpu) <= 1

\* planificador_corto_plazo sends one thread to the CPU, and never another, whatever
\* comes to lista_ready: the listener that posts TCBaPlanificar is the one inside the
\* planner (kernel_escucha_memoria.c:61-62).
THEOREM Despacho == Spec => []UnSoloDespacho
<1>1. Fase => UnSoloDespacho
  <2>1. Fase => a_cpu = << >> \/ \E x : a_cpu = <<x>>
    BY DEF Fase, EnNew, Creando, Listo, Despachado, Quieto
  <2>2. a_cpu = << >> => UnSoloDespacho
    BY DEF UnSoloDespacho
  <2>3. ASSUME NEW x, a_cpu = <<x>> PROVE UnSoloDespacho
    <3>1. Len(a_cpu) = 1
      BY <2>3
    <3>2. QED BY <3>1 DEF UnSoloDespacho
  <2>4. QED BY <2>1, <2>2, <2>3
<1>2. QED BY <1>1, Fases, PTL

\* The start-up never uses a NULL PCB nor an empty lista_ready, whatever memoria
\* answers.
THEOREM Arranque == Spec => []ArranqueVivo
<1>1. Fase => ArranqueVivo
  BY DEF Fase, EnNew, Creando, Listo, Despachado, Quieto, ArranqueVivo
<1>2. QED BY <1>1, Fases, PTL

\* No sem_wait(&mutex) ever finds 0, the nested one of finalizar_proceso included.
THEOREM MutexDisponible == Spec => []MutexNoSeAgota
<1>1. Fase => MutexNoSeAgota
  BY DEF Fase, EnNew, Creando, Listo, Despachado, Cuenta, Tomado, MutexNoSeAgota
<1>2. QED BY <1>1, Fases, PTL

-----------------------------------------------------------------------------
(* Threads and mutexes *)

Estados == {"READY", "EXEC", "BLOCKED", "EXIT"}

Hilo  == [pid : {1}, tid : Nat, estado : Estados,
          bloqueo : Int, join : Int]

Mutex == [recurso : Recursos, tid : Nat \cup {Nadie}, bloqueados : Seq(Nat)]

Proceso == [estado : {"NO", "NEW", "EXIT"}, tid_contador : Int, mutex : Seq(Mutex)]

Atencion == [fase : {"escucha", "io", "fin_hilo", "fin_proceso", "recorre"},
             dir : Dirs \cup {NULL}, i : Nat, pid : Int]

-----------------------------------------------------------------------------
(* The inductive invariant *)

Tipos ==
  /\ tcb \in [Dirs -> Hilo \cup {Liberado}]
  /\ pid \in Nat \ {0}
  /\ pcb \in [Pids -> Proceso]
  /\ \A p \in Pids \ {1} : pcb[p].mutex = << >>
  /\ cola_new \in Seq(Int)
  /\ lista_tcbs \in Seq(Dirs)
  /\ \E S : lista_blocked \in Seq(S)
  /\ a_memoria \in Seq(Mensaje) /\ de_memoria \in Seq(Mensaje)
  /\ desfasado \in BOOLEAN
  /\ despacho \in Atencion

\* Every thread is in lista_tcbs, its tid was handed out, and it is blocked by itself.
HilosEnOrden ==
  \A d \in Vivos :
    /\ tcb[d].tid <= pcb[1].tid_contador
    /\ \E i \in DOMAIN lista_tcbs : lista_tcbs[i] = d
    /\ tcb[d].bloqueo \in {Nadie, tcb[d].tid}

Mutexes == DOMAIN pcb[1].mutex
Duenio(k) == pcb[1].mutex[k].tid
Cola(k) == pcb[1].mutex[k].bloqueados

\* The thread of tid t is in no queue.
NoEspera(t) == \A k \in Mutexes : \A i \in DOMAIN Cola(k) : Cola(k)[i] # t

\* The mutexes of the first process, and no thread waits twice.
MutexesEnOrden ==
  /\ \A k \in Mutexes :
       /\ Duenio(k) = Nadie => Cola(k) = << >>
       /\ Duenio(k) # Nadie => \E d \in Vivos : tcb[d].tid = Duenio(k)
       /\ \A i \in DOMAIN Cola(k) :
            \E d \in Vivos : tcb[d].tid = Cola(k)[i] /\ tcb[d].estado = "BLOCKED"
  /\ \A k, l \in Mutexes : \A i \in DOMAIN Cola(k), j \in DOMAIN Cola(l) :
       Cola(k)[i] = Cola(l)[j] => k = l /\ i = j

Finales == {"FINALIZAR_HILO", "FINALIZAR_PROCESO"}

\* The next thing the dispatch listener reads as a reply is none, and after it nothing is.
Envenenado ==
  \/ desfasado
  \/ de_memoria # << >> /\ Head(de_memoria).op # "MENSAJE"
  \/ /\ de_memoria = << >>
     /\ \E k \in DOMAIN a_memoria :
          /\ a_memoria[k].op \in {"HILO_READY", "ASIGNAR_MEMORIA"}
          /\ \A j \in 1 .. k - 1 : a_memoria[j].op \notin Finales

Pedidos    == {i \in DOMAIN a_memoria : a_memoria[i].op \in Finales}
Respuestas == {i \in DOMAIN de_memoria : de_memoria[i].op = "MENSAJE"}

SinCorreo == Pedidos = {} /\ Respuestas = {}

\* A request on its way, or its reply.
UnCorreo ==
  /\ \A i, j \in Pedidos : i = j
  /\ \A i, j \in Respuestas : i = j
  /\ Pedidos = {} \/ Respuestas = {}

EnBucle == despacho.fase = "recorre" \/ (despacho.fase = "fin_hilo" /\ despacho.i # 0)

\* A request to memoria and its reply are one, from the call to the read.
Correo ==
  /\ Len(lista_tcbs) > 1 /\ a_cpu # << >> => Envenenado
  /\ a_cpu = << >> => Len(lista_tcbs) <= 1 /\ SinCorreo
  /\ \/ Envenenado
     \/ SinCorreo
     \/ despacho.fase \in {"fin_hilo", "fin_proceso"} /\ UnCorreo

\* What the dispatch listener is in the middle of.
EnCurso ==
  /\ despacho.fase # "escucha" => a_cpu # << >>
  /\ despacho.fase = "io" =>
       /\ despacho.dir \in Vivos /\ tcb[despacho.dir].estado = "BLOCKED"
       /\ NoEspera(tcb[despacho.dir].tid)
  /\ despacho.fase = "fin_hilo" =>
       /\ despacho.dir \in Vivos /\ tcb[despacho.dir].estado = "EXIT"
       /\ \A k \in Mutexes : Duenio(k) # tcb[despacho.dir].tid
  /\ despacho.fase \in {"fin_hilo", "fin_proceso", "recorre"} => despacho.pid = 1
  /\ EnBucle => Len(lista_tcbs) <= 1
  /\ despacho.fase = "recorre" => despacho.i # 0 /\ (despacho.i # 1 => Vivos = {})

IInv ==
  Tipos /\ TidsUnicos /\ HilosEnOrden /\ BloqueadoEnLista /\ MutexesEnOrden /\ Correo /\ EnCurso

-----------------------------------------------------------------------------
(* Searches *)

\* A non-empty set of naturals has a least element.
LEMMA Minimo ==
  ASSUME NEW T \in SUBSET Nat, T # {} PROVE \E i \in T : \A j \in T : i <= j
<1> DEFINE R == OpToRel(<, Nat)
<1>1. IsWellFoundedOn(R, Nat)
  BY NatLessThanWellFounded
<1>2. PICK i \in T : \A j \in T : ~(<<j, i>> \in R)
  <2> HIDE DEF R
  <2> QED BY <1>1, WFMin
<1>3. \A j \in T : ~(j < i)
  BY <1>2 DEF OpToRel
<1> QED BY <1>3

LEMMA Primero == 1 \in Pids
BY CotasValidas DEF Pids

LEMMA Vivo ==
  ASSUME Tipos
  PROVE  /\ \A d \in Vivos : d \in Dirs /\ tcb[d] \in Hilo
         /\ \A d \in Dirs : tcb[d].pid = 1 \/ tcb[d].estado \in {"READY", "EXEC"} => d \in Vivos
<1>1. Liberado.pid = 0 /\ Liberado.estado = "LIBRE"
  BY DEF Liberado, Basura
<1>2. \A d \in Dirs : tcb[d] \in Hilo \/ tcb[d] = Liberado
  BY DEF Tipos
<1>3. \A h \in Hilo : h.pid = 1
  BY DEF Hilo
<1> QED BY <1>1, <1>2, <1>3 DEF Vivos

\* buscar_tcbs finds the thread of that tid, if there is one.
LEMMA Buscar ==
  ASSUME Tipos, TidsUnicos, HilosEnOrden, NEW t
  PROVE  /\ BuscarTcbs(t, 1) # NULL =>
              BuscarTcbs(t, 1) \in Vivos /\ tcb[BuscarTcbs(t, 1)].tid = t
         /\ \A d \in Vivos : tcb[d].tid = t => BuscarTcbs(t, 1) = d
<1>1. /\ lista_tcbs \in Seq(Dirs)
      /\ Posiciones(t, 1) \in SUBSET Nat
      /\ \A i \in DOMAIN lista_tcbs : lista_tcbs[i] \in Dirs
  BY DEF Tipos, Posiciones
<1>2. \A i \in Posiciones(t, 1) : lista_tcbs[i] \in Vivos /\ tcb[lista_tcbs[i]].tid = t
  BY <1>1, Vivo DEF Posiciones
<1>3. Posiciones(t, 1) # {} =>
        BuscarTcbs(t, 1) \in Vivos /\ tcb[BuscarTcbs(t, 1)].tid = t
  <2> SUFFICES ASSUME Posiciones(t, 1) # {}
               PROVE  BuscarTcbs(t, 1) \in Vivos /\ tcb[BuscarTcbs(t, 1)].tid = t
    OBVIOUS
  <2> DEFINE i == CHOOSE i \in Posiciones(t, 1) : \A j \in Posiciones(t, 1) : i <= j
  <2>1. i \in Posiciones(t, 1)
    BY <1>1, Minimo
  <2>2. BuscarTcbs(t, 1) = lista_tcbs[i]
    BY DEF BuscarTcbs
  <2> HIDE DEF i
  <2> QED BY <2>1, <2>2, <1>2
<1>4. Posiciones(t, 1) = {} => BuscarTcbs(t, 1) = NULL
  BY DEF BuscarTcbs
<1>5. ASSUME NEW d \in Vivos, tcb[d].tid = t PROVE BuscarTcbs(t, 1) = d
  <2>1. tcb[d] \in Hilo /\ tcb[d].pid = 1
    BY Vivo DEF Hilo
  <2>2. Posiciones(t, 1) # {}
    BY <1>5, <2>1 DEF Posiciones, HilosEnOrden
  <2>3. BuscarTcbs(t, 1) \in Vivos /\ tcb[BuscarTcbs(t, 1)].tid = t
    BY <1>3, <2>2
  <2>4. tcb[BuscarTcbs(t, 1)].pid = 1
    BY <2>3, Vivo DEF Hilo
  <2> QED BY <1>5, <2>1, <2>3, <2>4 DEF TidsUnicos
<1> QED BY <1>3, <1>4, <1>5

\* EnPosiciones keeps every entry it is told to.
LEMMA Quedan ==
  ASSUME NEW S, NEW s \in Seq(S), NEW I \in SUBSET DOMAIN s
  PROVE  /\ \E T : EnPosiciones(s, I) \in Seq(T)
         /\ \A i \in I : \E k \in DOMAIN EnPosiciones(s, I) : EnPosiciones(s, I)[k] = s[i]
<1> DEFINE Hasta(i) == {j \in I : j <= i}
           e == EnPosiciones(s, I)
<1>1. IsFiniteSet(I) /\ I \subseteq Nat
  <2>1. DOMAIN s = 1 .. Len(s) /\ Len(s) \in Nat
    OBVIOUS
  <2>2. IsFiniteSet(1 .. Len(s))
    BY <2>1, FS_Interval
  <2> QED BY <2>1, <2>2, FS_Subset
<1>2. Cardinality(I) \in Nat
  BY <1>1, FS_CardinalityType
<1>3. e = [k \in 1 .. Cardinality(I) |-> s[CHOOSE i \in I : Cardinality(Hasta(i)) = k]]
  BY DEF EnPosiciones
<1> HIDE DEF e
<1>4. \E T : e \in Seq(T)
  <2> DEFINE T == {e[k] : k \in 1 .. Cardinality(I)}
  <2>1. e \in [1 .. Cardinality(I) -> T]
    BY <1>3
  <2>2. e \in Seq(T)
    BY SMTT(30), <1>2, <2>1
  <2> QED BY <2>2
<1>5. ASSUME NEW i \in I PROVE \E k \in DOMAIN e : e[k] = s[i]
  <2> DEFINE k == Cardinality(Hasta(i))
  <2>1. \A j \in I : IsFiniteSet(Hasta(j)) /\ Hasta(j) \in SUBSET I
    BY <1>1, FS_Subset
  <2>2. k \in 1 .. Cardinality(I)
    <3>1. k \in Nat /\ k <= Cardinality(I)
      BY <1>1, <2>1, FS_Subset, FS_CardinalityType
    <3>2. Hasta(i) # {}
      BY <1>1
    <3>3. k # 0
      BY <2>1, <3>2, FS_EmptySet
    <3> HIDE DEF k
    <3> QED BY <1>2, <3>1, <3>3
  <2>3. ASSUME NEW j \in I, Cardinality(Hasta(j)) = k PROVE j = i
    <3>1. CASE i <= j
      <4>1. Hasta(i) \in SUBSET Hasta(j)
        BY <1>1, <3>1
      <4>2. Hasta(i) = Hasta(j)
        BY <2>1, <2>3, <4>1, FS_Subset
      <4>3. j \in Hasta(j)
        BY <1>1
      <4>4. j <= i
        BY <4>2, <4>3
      <4> QED BY <1>1, <3>1, <4>4
    <3>2. CASE j <= i
      <4>1. Hasta(j) \in SUBSET Hasta(i)
        BY <1>1, <3>2
      <4>2. Hasta(i) = Hasta(j)
        BY <2>1, <2>3, <4>1, FS_Subset
      <4>3. i \in Hasta(i)
        BY <1>1
      <4>4. i <= j
        BY <4>2, <4>3
      <4> QED BY <1>1, <3>2, <4>4
    <3> QED BY <1>1, <3>1, <3>2
  <2> HIDE DEF Hasta
  <2>4. (CHOOSE j \in I : Cardinality(Hasta(j)) = k) = i
    BY <2>3
  <2>5. e[k] = s[i]
    BY <1>3, <2>2, <2>4
  <2> QED BY <1>3, <2>2, <2>5
<1> QED BY <1>4, <1>5 DEF e

\* RemoveFirst keeps every other element.
LEMMA QuedanLosDemas ==
  ASSUME NEW S, NEW s \in Seq(S), NEW x
  PROVE  /\ \E T : RemoveFirst(s, x) \in Seq(T)
         /\ \A i \in DOMAIN s : s[i] # x =>
              \E k \in DOMAIN RemoveFirst(s, x) : RemoveFirst(s, x)[k] = s[i]
<1> DEFINE I == {i \in 1 .. Len(s) : s[i] = x}
           n == Min(I)
           r == SubSeq(s, 1, n - 1) \o SubSeq(s, n + 1, Len(s))
<1>1. CASE I = {}
  <2>1. RemoveFirst(s, x) = s
    BY <1>1 DEF RemoveFirst
  <2> QED BY <2>1
<1>2. CASE I # {}
  <2>1. n \in I
    <3>1. \E i \in I : \A j \in I : i <= j
      <4>1. I \in SUBSET Nat
        OBVIOUS
      <4> HIDE DEF I
      <4> QED BY <4>1, <1>2, Minimo
    <3> HIDE DEF I
    <3> QED BY <3>1 DEF Min
  <2>2. RemoveFirst(s, x) = r
    BY <1>2 DEF RemoveFirst, RemoveAt, SelectInSeq
  <2>3. n \in 1 .. Len(s) /\ s[n] = x /\ Len(s) \in Nat
    BY <2>1
  <2> HIDE DEF n
  <2>4. r \in Seq(S)
    BY <2>3
  <2>5. /\ \A i \in 1 .. n - 1 : i \in DOMAIN r /\ r[i] = s[i]
        /\ \A i \in n + 1 .. Len(s) : i - 1 \in DOMAIN r /\ r[i - 1] = s[i]
    <3> DEFINE a == SubSeq(s, 1, n - 1)
               b == SubSeq(s, n + 1, Len(s))
    <3>1. /\ a \in Seq(S) /\ Len(a) = n - 1 /\ \A i \in 1 .. n - 1 : a[i] = s[i]
          /\ b \in Seq(S) /\ Len(b) = Len(s) - n
          /\ \A i \in 1 .. Len(s) - n : b[i] = s[n + i]
      BY <2>3
    <3> HIDE DEF a, b
    <3>2. /\ \A i \in 1 .. n - 1 : i \in DOMAIN (a \o b) /\ (a \o b)[i] = s[i]
          /\ \A i \in 1 .. Len(s) - n : n - 1 + i \in DOMAIN (a \o b) /\ (a \o b)[n - 1 + i] = s[n + i]
      BY <2>3, <3>1
    <3>3. \A i \in n + 1 .. Len(s) : i - n \in 1 .. Len(s) - n /\ n - 1 + (i - n) = i - 1 /\ n + (i - n) = i
      BY <2>3
    <3>4. \A i \in n + 1 .. Len(s) : i - 1 \in DOMAIN (a \o b) /\ (a \o b)[i - 1] = s[i]
      BY <3>2, <3>3
    <3> QED BY <3>2, <3>4 DEF a, b
  <2>6. ASSUME NEW i \in DOMAIN s, s[i] # x PROVE \E k \in DOMAIN r : r[k] = s[i]
    <3>1. i \in 1 .. n - 1 \/ i \in n + 1 .. Len(s)
      BY <2>3, <2>6
    <3> QED BY <2>5, <3>1
  <2> QED BY <2>2, <2>4, <2>6
<1> QED BY <1>1, <1>2

-----------------------------------------------------------------------------
(* The socket with memoria *)

LEMMA MsgOp == ASSUME NEW op, NEW p, NEW t, NEW b PROVE Msg(op, p, t, b).op = op
BY DEF Msg

LEMMA Manda ==
  ASSUME Tipos, NEW m \in Mensaje, a_memoria' = Append(a_memoria, m),
         UNCHANGED <<de_memoria, desfasado>>
  PROVE  /\ a_memoria' \in Seq(Mensaje)
         /\ Envenenado => Envenenado'
         /\ Respuestas' = Respuestas
         /\ m.op \notin Finales => Pedidos' = Pedidos
         /\ SinCorreo => UnCorreo'
         /\ SinCorreo /\ m.op \in {"HILO_READY", "ASIGNAR_MEMORIA"} => Envenenado'
<1> DEFINE n == Len(a_memoria)
<1>1. /\ a_memoria' \in Seq(Mensaje) /\ n \in Nat
      /\ DOMAIN a_memoria = 1 .. n /\ DOMAIN a_memoria' = 1 .. n + 1
      /\ \A i \in 1 .. n : a_memoria'[i] = a_memoria[i]
      /\ a_memoria'[n + 1] = m
  BY DEF Tipos
<1> HIDE DEF n
<1>2. Envenenado => Envenenado'
  BY <1>1 DEF Envenenado
<1>3. Respuestas' = Respuestas
  BY DEF Respuestas
<1>4. m.op \notin Finales => Pedidos' = Pedidos
  BY <1>1 DEF Pedidos
<1>5. ASSUME SinCorreo PROVE UnCorreo'
  <2>1. \A i \in 1 .. n : a_memoria[i].op \notin Finales
    BY <1>1, <1>5 DEF SinCorreo, Pedidos
  <2>2. \A i \in Pedidos' : i = n + 1
    BY <1>1, <2>1 DEF Pedidos
  <2>3. Respuestas' = {}
    BY <1>3, <1>5 DEF SinCorreo
  <2> QED BY <2>2, <2>3 DEF UnCorreo
<1>6. ASSUME SinCorreo, m.op \in {"HILO_READY", "ASIGNAR_MEMORIA"} PROVE Envenenado'
  <2>1. CASE de_memoria = << >>
    <3>1. \A i \in 1 .. n : a_memoria[i].op \notin Finales
      BY <1>1, <1>6 DEF SinCorreo, Pedidos
    <3>2. n + 1 \in DOMAIN a_memoria' /\ \A j \in 1 .. (n + 1) - 1 : a_memoria'[j].op \notin Finales
      BY <1>1, <3>1
    <3> QED BY <1>1, <1>6, <2>1, <3>2 DEF Envenenado
  <2>2. CASE de_memoria # << >>
    <3>1. 1 \in DOMAIN de_memoria /\ Head(de_memoria) = de_memoria[1]
      BY <2>2 DEF Tipos
    <3>2. Head(de_memoria).op # "MENSAJE"
      BY <1>6, <3>1 DEF SinCorreo, Respuestas
    <3> QED BY <2>2, <3>2 DEF Envenenado
  <2> QED BY <2>1, <2>2
<1> QED BY <1>1, <1>2, <1>3, <1>4, <1>5, <1>6

LEMMA Saca ==
  ASSUME Tipos, de_memoria # << >>, de_memoria' = Tail(de_memoria)
  PROVE  /\ de_memoria' \in Seq(Mensaje)
         /\ Respuestas = {} => Respuestas' = {}
         /\ Head(de_memoria).op = "MENSAJE" /\ (\A i, j \in Respuestas : i = j) =>
              Respuestas # {} /\ Respuestas' = {}
<1> DEFINE n == Len(de_memoria)
<1>1. /\ de_memoria' \in Seq(Mensaje) /\ n \in Nat
      /\ DOMAIN de_memoria = 1 .. n /\ DOMAIN de_memoria' = 1 .. n - 1
      /\ 1 \in 1 .. n /\ Head(de_memoria) = de_memoria[1]
      /\ \A i \in 1 .. n - 1 : i + 1 \in 1 .. n /\ de_memoria'[i] = de_memoria[i + 1]
  BY DEF Tipos
<1> HIDE DEF n
<1>2. \A i \in Respuestas' : i \in Nat /\ i # 0 /\ i + 1 \in Respuestas
  BY <1>1 DEF Respuestas
<1>3. Respuestas = {} => Respuestas' = {}
  BY <1>2
<1>4. Head(de_memoria).op = "MENSAJE" => 1 \in Respuestas
  BY <1>1 DEF Respuestas
<1> QED BY <1>1, <1>2, <1>3, <1>4

\* Only a reply asked for and not yet read is taken for "OK".
LEMMA Lee ==
  ASSUME Tipos, NEW ok, LeerRespuesta(ok), UNCHANGED a_memoria, Envenenado \/ UnCorreo
  PROVE  /\ de_memoria' \in Seq(Mensaje) /\ desfasado' \in BOOLEAN
         /\ Envenenado' \/ SinCorreo'
         /\ Envenenado => Envenenado'
         /\ ok => ~Envenenado
<1>1. CASE desfasado /\ ~ok /\ UNCHANGED <<de_memoria, desfasado>>
  BY <1>1 DEF Tipos, Envenenado
<1>2. CASE /\ ~desfasado /\ de_memoria # << >>
           /\ de_memoria' = Tail(de_memoria)
           /\ desfasado' = (Head(de_memoria).op # "MENSAJE")
           /\ ok = (Head(de_memoria).op = "MENSAJE" /\ Head(de_memoria).bit = 1)
  <2>1. CASE Head(de_memoria).op # "MENSAJE"
    BY <1>2, <2>1, Saca DEF Envenenado
  <2>2. CASE Head(de_memoria).op = "MENSAJE"
    <3>1. ~Envenenado
      BY <1>2, <2>2 DEF Envenenado
    <3>2. UnCorreo
      BY <3>1
    <3>3. Respuestas # {} /\ Respuestas' = {}
      BY <1>2, <2>2, <3>2, Saca DEF UnCorreo
    <3>4. Pedidos' = {}
      BY <3>2, <3>3 DEF UnCorreo, Pedidos
    <3> QED BY <1>2, <3>1, <3>3, <3>4, Saca DEF SinCorreo
  <2> QED BY <2>1, <2>2
<1> QED BY <1>1, <1>2 DEF LeerRespuesta

LEMMA RespuestaDeMemoria ==
  ASSUME Tipos, MemoriaAtiende
  PROVE  /\ a_memoria # << >> /\ a_memoria' = Tail(a_memoria)
         /\ \/ /\ UNCHANGED de_memoria
               /\ Head(a_memoria).op \notin {"HILO_READY", "ASIGNAR_MEMORIA"}
            \/ \E x \in Mensaje :
                 /\ de_memoria' = Append(de_memoria, x)
                 /\ x.op = "MENSAJE" <=> Head(a_memoria).op \in Finales
<1> DEFINE m == Head(a_memoria)
<1>1. a_memoria # << >> /\ a_memoria' = Tail(a_memoria)
  BY DEF MemoriaAtiende
<1>2. m \in Mensaje
  BY <1>1 DEF Tipos
<1>3. m.pid \in Int /\ m.tid \in Int
  BY <1>2 DEF Mensaje
<1>4. \A bit \in {1, Nadie} :
        /\ Msg("CONFIRMAR_ESPACIO_PROCESO", m.pid, Nadie, bit) \in Mensaje
        /\ Msg("MENSAJE", m.pid, Nadie, bit) \in Mensaje
  BY <1>3, MsgTipo DEF Ops, Nadie
<1>5. Msg("CONFIRMAR_CREACION_HILO", m.pid, m.tid, 1) \in Mensaje
  BY <1>3, MsgTipo DEF Ops
<1> HIDE DEF m
<1>6. CASE /\ m.op = "ASIGNAR_MEMORIA"
           /\ \E bit \in {1, Nadie} :
                de_memoria' = Append(de_memoria,
                  Msg("CONFIRMAR_ESPACIO_PROCESO", m.pid, Nadie, bit))
  BY <1>1, <1>4, <1>6, MsgOp DEF Finales, m
<1>7. CASE /\ m.op = "HILO_READY"
           /\ de_memoria' = Append(de_memoria, Msg("CONFIRMAR_CREACION_HILO", m.pid, m.tid, 1))
  BY <1>1, <1>5, <1>7, MsgOp DEF Finales, m
<1>8. CASE /\ m.op \in {"FINALIZAR_HILO", "FINALIZAR_PROCESO"}
           /\ \/ \E bit \in {1, Nadie} :
                   de_memoria' = Append(de_memoria, Msg("MENSAJE", m.pid, Nadie, bit))
              \/ UNCHANGED de_memoria
  BY <1>1, <1>4, <1>8, MsgOp DEF Finales, m
<1> QED BY <1>6, <1>7, <1>8 DEF MemoriaAtiende, m

LEMMA Atiende ==
  ASSUME Tipos, MemoriaAtiende
  PROVE  /\ a_memoria' \in Seq(Mensaje) /\ de_memoria' \in Seq(Mensaje)
         /\ Envenenado => Envenenado'
         /\ SinCorreo => SinCorreo'
         /\ UnCorreo => UnCorreo'
<1> DEFINE n == Len(a_memoria)
           l == Len(de_memoria)
           m == Head(a_memoria)
<1>1. /\ a_memoria' \in Seq(Mensaje) /\ n \in Nat
      /\ DOMAIN a_memoria = 1 .. n /\ DOMAIN a_memoria' = 1 .. n - 1
      /\ 1 \in 1 .. n /\ m = a_memoria[1]
      /\ \A i \in 1 .. n - 1 : i + 1 \in 1 .. n /\ a_memoria'[i] = a_memoria[i + 1]
  <2>1. a_memoria \in Seq(Mensaje) /\ a_memoria # << >> /\ a_memoria' = Tail(a_memoria)
    BY RespuestaDeMemoria DEF Tipos
  <2> QED BY ONLY <2>1
<1>2. de_memoria \in Seq(Mensaje) /\ l \in Nat /\ DOMAIN de_memoria = 1 .. l
  BY DEF Tipos
<1>3. \/ UNCHANGED de_memoria /\ m.op \notin {"HILO_READY", "ASIGNAR_MEMORIA"}
      \/ /\ de_memoria' \in Seq(Mensaje) /\ DOMAIN de_memoria' = 1 .. l + 1
         /\ \A i \in 1 .. l : de_memoria'[i] = de_memoria[i]
         /\ de_memoria'[l + 1].op = "MENSAJE" <=> m.op \in Finales
  <2>1. ASSUME NEW x \in Mensaje, de_memoria' = Append(de_memoria, x),
               x.op = "MENSAJE" <=> m.op \in Finales
        PROVE  /\ de_memoria' \in Seq(Mensaje) /\ DOMAIN de_memoria' = 1 .. l + 1
               /\ \A i \in 1 .. l : de_memoria'[i] = de_memoria[i]
               /\ de_memoria'[l + 1].op = "MENSAJE" <=> m.op \in Finales
    <3>1. /\ de_memoria' \in Seq(Mensaje) /\ DOMAIN de_memoria' = 1 .. l + 1
          /\ \A i \in 1 .. l : de_memoria'[i] = de_memoria[i]
          /\ de_memoria'[l + 1] = x
      BY <1>2, <2>1
    <3> QED BY <2>1, <3>1
  <2> QED BY <2>1, RespuestaDeMemoria
<1>4. \A s \in Seq(Mensaje) : s # << >> => 1 \in DOMAIN s /\ Head(s) = s[1]
  OBVIOUS
<1>5. desfasado' = desfasado
  BY DEF MemoriaAtiende
<1> HIDE DEF n, l, m
<1>6. \A i \in Pedidos' : i \in Nat /\ i # 0 /\ i + 1 \in Pedidos
  BY <1>1 DEF Pedidos
<1>7. \A i \in Respuestas' : i \in Respuestas \/ (i = l + 1 /\ 1 \in Pedidos)
  BY <1>1, <1>2, <1>3 DEF Respuestas, Pedidos
<1>8. SinCorreo => SinCorreo'
  BY <1>6, <1>7 DEF SinCorreo
<1>9. UnCorreo => UnCorreo'
  <2> SUFFICES ASSUME UnCorreo PROVE UnCorreo'
    OBVIOUS
  <2>1. CASE 1 \in Pedidos
    <3>1. Pedidos' = {} /\ Respuestas = {}
      BY <1>6, <2>1 DEF UnCorreo
    <3>2. \A i \in Respuestas' : i = l + 1
      BY <1>7, <3>1
    <3> QED BY <3>1, <3>2 DEF UnCorreo
  <2>2. CASE 1 \notin Pedidos
    <3>1. \A i \in Respuestas' : i \in Respuestas
      BY <1>7, <2>2
    <3>2. \A i, j \in Pedidos' : i = j
      <4>1. \A i, j \in Pedidos' : i + 1 = j + 1 /\ i \in Nat /\ j \in Nat
        BY <1>6 DEF UnCorreo
      <4> QED BY <4>1
    <3> QED BY <1>6, <3>1, <3>2 DEF UnCorreo
  <2> QED BY <2>1, <2>2
<1>10. Envenenado => Envenenado'
  <2> SUFFICES ASSUME Envenenado, ~desfasado PROVE Envenenado'
    BY <1>5 DEF Envenenado
  <2>1. CASE de_memoria # << >> /\ Head(de_memoria).op # "MENSAJE"
    <3>1. 1 \in DOMAIN de_memoria /\ de_memoria[1].op # "MENSAJE"
      BY <1>2, <1>4, <2>1
    <3>2. de_memoria' \in Seq(Mensaje) /\ 1 \in DOMAIN de_memoria' /\ de_memoria'[1] = de_memoria[1]
      BY <1>2, <1>3, <3>1
    <3>3. de_memoria' # << >>
      BY <3>2
    <3> QED BY <1>4, <3>1, <3>2, <3>3 DEF Envenenado
  <2>2. ASSUME de_memoria = << >>,
               NEW k \in DOMAIN a_memoria,
               a_memoria[k].op \in {"HILO_READY", "ASIGNAR_MEMORIA"},
               \A j \in 1 .. k - 1 : a_memoria[j].op \notin Finales
        PROVE  Envenenado'
    <3>1. m.op \notin Finales
      BY <1>1, <2>2 DEF Finales
    <3>2. CASE UNCHANGED de_memoria
      <4>1. k # 1
        BY <1>1, <1>3, <2>2, <3>2, RespuestaDeMemoria DEF m
      <4>2. k - 1 \in DOMAIN a_memoria' /\ a_memoria'[k - 1] = a_memoria[k]
        BY <1>1, <4>1
      <4>3. \A j \in 1 .. (k - 1) - 1 : a_memoria'[j].op \notin Finales
        BY <1>1, <2>2
      <4> QED BY <2>2, <3>2, <4>2, <4>3 DEF Envenenado
    <3>3. CASE ~(UNCHANGED de_memoria)
      <4>1. l = 0
        BY <2>2 DEF l
      <4>2. de_memoria' \in Seq(Mensaje) /\ 1 \in DOMAIN de_memoria' /\ de_memoria'[1].op # "MENSAJE"
        BY <1>3, <3>1, <3>3, <4>1
      <4>3. de_memoria' # << >>
        BY <4>2
      <4> QED BY <1>4, <4>2, <4>3 DEF Envenenado
    <3> QED BY <3>2, <3>3
  <2> QED BY <2>1, <2>2 DEF Envenenado
<1>11. de_memoria' \in Seq(Mensaje)
  BY <1>2, <1>3
<1> QED BY <1>1, <1>8, <1>9, <1>10, <1>11

LEMMA CorreoQuieto ==
  ASSUME Correo, despacho.fase \notin {"fin_hilo", "fin_proceso"},
         UNCHANGED <<a_memoria, de_memoria, desfasado, a_cpu>>,
         Len(lista_tcbs') = Len(lista_tcbs)
  PROVE  Correo'
<1>1. /\ Envenenado' <=> Envenenado
      /\ SinCorreo' <=> SinCorreo
  BY DEF Envenenado, SinCorreo, Pedidos, Respuestas
<1> QED BY <1>1 DEF Correo

LEMMA CorreoManda ==
  ASSUME Tipos, Correo, despacho.fase \notin {"fin_hilo", "fin_proceso"}, a_cpu # << >>,
         NEW m \in Mensaje, a_memoria' = Append(a_memoria, m),
         UNCHANGED <<de_memoria, desfasado, a_cpu>>,
         \/ m.op = "HILO_READY"
         \/ m.op \notin Finales /\ Len(lista_tcbs') = Len(lista_tcbs)
         \/ /\ despacho'.fase \in {"fin_hilo", "fin_proceso"}
            /\ Len(lista_tcbs') = Len(lista_tcbs)
  PROVE  Correo'
<1>1. Envenenado \/ SinCorreo
  BY DEF Correo
<1>2. CASE Envenenado
  BY <1>2, Manda DEF Correo
<1>3. CASE SinCorreo /\ m.op = "HILO_READY"
  BY <1>3, Manda DEF Correo
<1>4. CASE SinCorreo /\ m.op \notin Finales /\ Len(lista_tcbs') = Len(lista_tcbs)
  BY <1>4, Manda DEF Correo, SinCorreo
<1>5. CASE /\ SinCorreo /\ despacho'.fase \in {"fin_hilo", "fin_proceso"}
           /\ Len(lista_tcbs') = Len(lista_tcbs)
  BY <1>5, Manda DEF Correo
<1> QED BY <1>1, <1>2, <1>3, <1>4, <1>5

-----------------------------------------------------------------------------
(* What a step does to one thread *)

Threads == TidsUnicos /\ HilosEnOrden /\ BloqueadoEnLista

\* lista_blocked keeps its entries, but for those of d.
Conserva(d) ==
  /\ \E S : lista_blocked' \in Seq(S)
  /\ \A i \in DOMAIN lista_blocked : lista_blocked[i] # d =>
       \E k \in DOMAIN lista_blocked' : lista_blocked'[k] = lista_blocked[i]

LEMMA Bloqueada ==
  ASSUME Tipos, NEW d, lista_blocked' = Append(lista_blocked, d)
  PROVE  Conserva(d) /\ \E k \in DOMAIN lista_blocked' : lista_blocked'[k] = d
<1>1. PICK S : lista_blocked \in Seq(S)
  BY DEF Tipos
<1> DEFINE n == Len(lista_blocked)
<1>2. /\ lista_blocked' \in Seq(S \cup {d}) /\ n \in Nat
      /\ DOMAIN lista_blocked = 1 .. n /\ DOMAIN lista_blocked' = 1 .. n + 1
      /\ \A i \in 1 .. n : lista_blocked'[i] = lista_blocked[i]
      /\ lista_blocked'[n + 1] = d
  <2>1. lista_blocked \in Seq(S \cup {d})
    BY <1>1
  <2> QED BY <2>1
<1> QED BY <1>2 DEF Conserva

\* A live thread changes and is still the same.
LEMMA Cambia ==
  ASSUME Tipos, Threads, NEW d \in Vivos, NEW h \in Hilo, tcb' = [tcb EXCEPT ![d] = h],
         h.tid = tcb[d].tid, h.bloqueo \in {Nadie, h.tid},
         lista_tcbs' = lista_tcbs, pcb'[1].tid_contador = pcb[1].tid_contador, Conserva(d),
         h.estado = "BLOCKED" => \E k \in DOMAIN lista_blocked' : lista_blocked'[k] = d
  PROVE  /\ Threads' /\ Vivos' = Vivos /\ tcb' \in [Dirs -> Hilo \cup {Liberado}]
         /\ tcb'[d] = h /\ \A e \in Dirs \ {d} : tcb'[e] = tcb[e]
         /\ \A e \in Vivos : tcb'[e].tid = tcb[e].tid
<1>1. d \in Dirs /\ tcb \in [Dirs -> Hilo \cup {Liberado}]
  BY DEF Vivos, Tipos
<1>2. /\ tcb' \in [Dirs -> Hilo \cup {Liberado}]
      /\ tcb'[d] = h /\ \A e \in Dirs \ {d} : tcb'[e] = tcb[e]
  BY <1>1
<1>3. h # Liberado
  BY DEF Hilo, Liberado, Basura
<1>4. Vivos' = Vivos
  BY <1>1, <1>2, <1>3 DEF Vivos
<1>5. tcb[d].pid = 1 /\ h.pid = 1
  BY Vivo DEF Hilo
<1>6. \A e \in Vivos : e \in Dirs /\ tcb'[e].tid = tcb[e].tid /\ tcb'[e].pid = tcb[e].pid
  BY <1>2, <1>5, Vivo
<1>7. TidsUnicos'
  BY <1>4, <1>6 DEF Threads, TidsUnicos
<1>8. HilosEnOrden'
  BY <1>2, <1>4, <1>6 DEF Threads, HilosEnOrden
<1>9. BloqueadoEnLista'
  <2> SUFFICES ASSUME NEW e \in Vivos, tcb'[e].estado = "BLOCKED"
               PROVE  \E i \in DOMAIN lista_blocked' : lista_blocked'[i] = e
    BY <1>4 DEF BloqueadoEnLista
  <2>1. CASE e = d
    BY <1>2, <2>1
  <2>2. CASE e # d
    BY <1>2, <1>6, <2>2 DEF Threads, BloqueadoEnLista, Conserva
  <2> QED BY <2>1, <2>2
<1> QED BY <1>2, <1>4, <1>6, <1>7, <1>8, <1>9 DEF Threads

\* The ways a handler writes into a TCB.
Escrito(d, est, x) ==
  \/ tcb' = [tcb EXCEPT ![d].estado = est]
  \/ tcb' = [tcb EXCEPT ![d].estado = est, ![d].join = x]
  \/ tcb' = [tcb EXCEPT ![d].estado = est, ![d].bloqueo = tcb[d].tid, ![d].join = x]

LEMMA Escribe ==
  ASSUME Tipos, NEW d \in Vivos, NEW est \in Estados, NEW x \in Int, Escrito(d, est, x)
  PROVE  \E h \in Hilo : /\ tcb' = [tcb EXCEPT ![d] = h]
                         /\ h.estado = est /\ h.tid = tcb[d].tid
                         /\ h.bloqueo \in {tcb[d].bloqueo, tcb[d].tid}
<1> DEFINE r == tcb[d]
           h == tcb'[d]
<1>1. tcb \in [Dirs -> Hilo \cup {Liberado}] /\ d \in Dirs /\ r \in Hilo
  BY Vivo DEF Tipos
<1>2. /\ r = [pid |-> r.pid, tid |-> r.tid, estado |-> r.estado, bloqueo |-> r.bloqueo,
              join |-> r.join]
      /\ r.pid = 1 /\ r.tid \in Nat /\ r.bloqueo \in Int /\ r.join \in Int
  BY <1>1 DEF Hilo
<1>3. tcb' = [tcb EXCEPT ![d] = h]
  BY <1>1 DEF Escrito
<1>4. \/ h = [r EXCEPT !.estado = est]
      \/ h = [r EXCEPT !.estado = est, !.join = x]
      \/ h = [r EXCEPT !.estado = est, !.bloqueo = r.tid, !.join = x]
  BY <1>1 DEF Escrito
<1> HIDE DEF h, r
<1>5. /\ h = [pid |-> h.pid, tid |-> h.tid, estado |-> h.estado, bloqueo |-> h.bloqueo,
              join |-> h.join]
      /\ h.pid = r.pid /\ h.tid = r.tid /\ h.estado = est
      /\ h.bloqueo \in {r.bloqueo, r.tid} /\ h.join \in {r.join, x}
  BY ONLY <1>2, <1>4
<1>6. h \in Hilo
  <2>1. h.pid = 1 /\ h.tid \in Nat /\ h.bloqueo \in Int /\ h.join \in Int
    BY ONLY <1>2, <1>5, x \in Int
  <2> QED BY ONLY <1>5, <2>1, est \in Estados DEF Hilo
<1> QED BY <1>3, <1>5, <1>6 DEF r

\* A live thread changes state and is still the same.
LEMMA Pasa ==
  ASSUME Tipos, Threads, NEW d \in Vivos, NEW est \in Estados, NEW x \in Int, Escrito(d, est, x),
         lista_tcbs' = lista_tcbs, pcb'[1].tid_contador = pcb[1].tid_contador, Conserva(d),
         est = "BLOCKED" => \E k \in DOMAIN lista_blocked' : lista_blocked'[k] = d
  PROVE  /\ Threads' /\ Vivos' = Vivos /\ tcb' \in [Dirs -> Hilo \cup {Liberado}]
         /\ tcb'[d].estado = est /\ \A e \in Dirs \ {d} : tcb'[e] = tcb[e]
         /\ \A e \in Vivos : tcb'[e].tid = tcb[e].tid
<1>1. PICK h \in Hilo : /\ tcb' = [tcb EXCEPT ![d] = h]
                        /\ h.estado = est /\ h.tid = tcb[d].tid
                        /\ h.bloqueo \in {tcb[d].bloqueo, tcb[d].tid}
  BY Escribe, Zenon
<1>2. h.bloqueo \in {Nadie, h.tid}
  BY <1>1 DEF Threads, HilosEnOrden
<1> QED BY <1>1, <1>2, Cambia

LEMMA HiloNuevo ==
  ASSUME NEW n \in Nat, NEW h, h = [Liberado EXCEPT !.pid = 1, !.tid = n, !.estado = "READY"]
  PROVE  h \in Hilo /\ h.pid = 1 /\ h.tid = n /\ h.bloqueo = Nadie /\ h.estado = "READY"
         /\ h # Liberado
<1>1. Liberado = [pid |-> Liberado.pid, tid |-> Liberado.tid, estado |-> Liberado.estado,
                  bloqueo |-> Liberado.bloqueo, join |-> Liberado.join]
  BY DEF Liberado
<1>2. h = [pid |-> h.pid, tid |-> h.tid, estado |-> h.estado, bloqueo |-> h.bloqueo,
           join |-> h.join]
  BY <1>1
<1>3. /\ h.pid = 1 /\ h.tid = n /\ h.estado = "READY"
      /\ h.bloqueo = Liberado.bloqueo /\ h.join = Liberado.join
  BY <1>1
<1>4. Liberado.pid = 0 /\ Liberado.bloqueo = Nadie /\ Liberado.join = Nadie /\ Nadie \in Int
  BY DEF Liberado, Nadie, Basura
<1>5. h \in Hilo
  <2>1. h = [pid |-> 1, tid |-> n, estado |-> "READY", bloqueo |-> Nadie, join |-> Nadie]
    BY <1>2, <1>3, <1>4
  <2> QED BY ONLY <1>4, <2>1, n \in Nat DEF Hilo, Estados
<1>6. h # Liberado
  BY ONLY <1>3, <1>4
<1> QED BY <1>3, <1>4, <1>5, <1>6, Zenon

\* A new thread, with a tid nobody has.
LEMMA Nace ==
  ASSUME Tipos, Threads, NEW e \in Dirs, NEW n \in Nat, AgregarHilo(e, 1, n),
         \A d \in Vivos : tcb[d].tid # n, UNCHANGED lista_blocked,
         pcb'[1].tid_contador \in Int, pcb[1].tid_contador \in Int,
         n <= pcb'[1].tid_contador, pcb[1].tid_contador <= pcb'[1].tid_contador
  PROVE  /\ Threads' /\ Vivos' = Vivos \cup {e} /\ tcb' \in [Dirs -> Hilo \cup {Liberado}]
         /\ \A d \in Vivos : tcb'[d] = tcb[d]
         /\ lista_tcbs' \in Seq(Dirs)
<1> DEFINE h == [Liberado EXCEPT !.pid = 1, !.tid = n, !.estado = "READY"]
<1>1. /\ h \in Hilo /\ h.pid = 1 /\ h.tid = n /\ h.bloqueo = Nadie /\ h.estado = "READY"
      /\ h # Liberado
  BY HiloNuevo
<1>2. tcb \in [Dirs -> Hilo \cup {Liberado}] /\ tcb[e] = Liberado
      /\ tcb' = [tcb EXCEPT ![e] = h]
  BY DEF Tipos, AgregarHilo
<1> HIDE DEF h
<1>3. /\ tcb' \in [Dirs -> Hilo \cup {Liberado}]
      /\ tcb'[e] = h /\ \A d \in Dirs \ {e} : tcb'[d] = tcb[d]
  BY <1>1, <1>2
<1>4. Vivos' = Vivos \cup {e} /\ e \notin Vivos
  BY <1>1, <1>2, <1>3 DEF Vivos
<1>5. \A d \in Vivos : d \in Dirs /\ tcb'[d] = tcb[d] /\ tcb[d].tid \in Nat
  BY <1>3, <1>4, Vivo DEF Hilo
<1>6. TidsUnicos'
  BY <1>1, <1>3, <1>4, <1>5 DEF Threads, TidsUnicos
<1>7. /\ lista_tcbs' \in Seq(Dirs)
      /\ \A i \in DOMAIN lista_tcbs : i \in DOMAIN lista_tcbs' /\ lista_tcbs'[i] = lista_tcbs[i]
      /\ \E i \in DOMAIN lista_tcbs' : lista_tcbs'[i] = e
  <2>1. lista_tcbs \in Seq(Dirs) /\ lista_tcbs' = Append(lista_tcbs, e)
    BY DEF Tipos, AgregarHilo
  <2>2. /\ Len(lista_tcbs) \in Nat /\ DOMAIN lista_tcbs = 1 .. Len(lista_tcbs)
        /\ DOMAIN lista_tcbs' = 1 .. Len(lista_tcbs) + 1 /\ lista_tcbs' \in Seq(Dirs)
        /\ \A i \in 1 .. Len(lista_tcbs) : lista_tcbs'[i] = lista_tcbs[i]
        /\ lista_tcbs'[Len(lista_tcbs) + 1] = e
    BY <2>1
  <2> QED BY <2>2
<1>8. HilosEnOrden'
  <2> SUFFICES ASSUME NEW d \in Vivos'
               PROVE  /\ tcb'[d].tid <= pcb'[1].tid_contador
                      /\ \E i \in DOMAIN lista_tcbs' : lista_tcbs'[i] = d
                      /\ tcb'[d].bloqueo \in {Nadie, tcb'[d].tid}
    BY DEF HilosEnOrden
  <2>1. CASE d = e
    BY <1>1, <1>3, <1>7, <2>1
  <2>2. CASE d \in Vivos
    <3>1. /\ tcb[d].tid <= pcb[1].tid_contador
          /\ \E i \in DOMAIN lista_tcbs : lista_tcbs[i] = d
          /\ tcb[d].bloqueo \in {Nadie, tcb[d].tid}
      BY <2>2 DEF Threads, HilosEnOrden
    <3> QED BY <1>5, <1>7, <2>2, <3>1
  <2> QED BY <1>4, <2>1, <2>2
<1>9. BloqueadoEnLista'
  BY <1>1, <1>3, <1>4, <1>5 DEF Threads, BloqueadoEnLista
<1> QED BY <1>3, <1>4, <1>5, <1>6, <1>7, <1>8, <1>9 DEF Threads

\* The mutexes are not touched, and whoever waits for one goes on waiting.
LEMMA MutexesQuedan ==
  ASSUME MutexesEnOrden, pcb'[1].mutex = pcb[1].mutex,
         \A d \in Vivos :
           /\ d \in Vivos' /\ tcb'[d].tid = tcb[d].tid
           /\ ~NoEspera(tcb[d].tid) /\ tcb[d].estado = "BLOCKED" => tcb'[d].estado = "BLOCKED"
  PROVE  MutexesEnOrden'
<1>1. /\ Mutexes' = Mutexes
      /\ \A k \in Mutexes : Duenio(k)' = Duenio(k) /\ Cola(k)' = Cola(k)
  BY DEF Mutexes, Duenio, Cola
<1>2. ASSUME NEW k \in Mutexes, NEW i \in DOMAIN Cola(k)
      PROVE  \E d \in Vivos' : tcb'[d].tid = Cola(k)[i] /\ tcb'[d].estado = "BLOCKED"
  <2>1. PICK d \in Vivos : tcb[d].tid = Cola(k)[i] /\ tcb[d].estado = "BLOCKED"
    BY <1>2 DEF MutexesEnOrden
  <2>2. ~NoEspera(tcb[d].tid)
    BY <2>1 DEF NoEspera
  <2> QED BY <2>1, <2>2
<1>3. \A k \in Mutexes :
        /\ Duenio(k) = Nadie => Cola(k) = << >>
        /\ Duenio(k) # Nadie => \E d \in Vivos' : tcb'[d].tid = Duenio(k)
  BY DEF MutexesEnOrden
<1>4. \A k, l \in Mutexes : \A i \in DOMAIN Cola(k), j \in DOMAIN Cola(l) :
        Cola(k)[i] = Cola(l)[j] => k = l /\ i = j
  BY DEF MutexesEnOrden
<1> QED BY <1>1, <1>2, <1>3, <1>4 DEF MutexesEnOrden

-----------------------------------------------------------------------------
(* The system calls *)

LEMMA EnCursoNuevo ==
  ASSUME despacho'.fase = "escucha" PROVE EnCurso'
BY DEF EnCurso, EnBucle

LEMMA EscuchaFase == Escucha.fase = "escucha" /\ Escucha.i = 0 /\ Escucha.pid = 0
BY DEF Escucha, Basura

\* The caller of a system call: a live thread that waits for nothing.
LEMMA Llamador ==
  ASSUME IInv, NEW op, NEW d \in Dirs, NEW arg, Syscall(op, d, arg)
  PROVE  /\ d \in Vivos /\ tcb[d] \in Hilo /\ tcb[d].pid = 1 /\ tcb[d].tid \in Nat
         /\ Invocador(d) = d /\ NoEspera(tcb[d].tid) /\ tcb[d].estado # "BLOCKED"
         /\ despacho = Escucha /\ despacho.fase = "escucha"
         /\ a_cpu # << >> /\ a_cpu' = a_cpu
<1>1. /\ tcb[d].estado \in {"READY", "EXEC"} /\ despacho = Escucha
      /\ a_cpu # << >> /\ a_cpu' = a_cpu
  BY DEF Syscall, planificacion
<1>2. Tipos /\ TidsUnicos /\ HilosEnOrden /\ MutexesEnOrden
  BY DEF IInv
<1>3. d \in Vivos /\ tcb[d] \in Hilo
  BY <1>1, <1>2, Vivo
<1>4. tcb[d].pid = 1 /\ tcb[d].tid \in Nat
  BY <1>3 DEF Hilo
<1>5. Invocador(d) = d
  BY <1>2, <1>3, <1>4, Buscar DEF Invocador
<1>6. NoEspera(tcb[d].tid)
  <2> SUFFICES ASSUME NEW k \in Mutexes, NEW i \in DOMAIN Cola(k), Cola(k)[i] = tcb[d].tid
               PROVE  FALSE
    BY DEF NoEspera
  <2>1. PICK e \in Vivos : tcb[e].tid = Cola(k)[i] /\ tcb[e].estado = "BLOCKED"
    BY <1>2 DEF MutexesEnOrden
  <2>2. tcb[e].pid = 1
    BY <1>2, <2>1, Vivo DEF Hilo
  <2>3. e = d
    BY <1>2, <1>3, <1>4, <2>1, <2>2 DEF TidsUnicos
  <2> QED BY <1>1, <2>1, <2>3
<1> QED BY <1>1, <1>3, <1>4, <1>5, <1>6, EscuchaFase

\* A handler that changes no list, message nor process.
LEMMA Igual ==
  ASSUME IInv, UNCHANGED <<tcb, pid, pcb, cola_new, lista_tcbs, lista_blocked, a_memoria,
                           de_memoria, desfasado, despacho, a_cpu>>
  PROVE  IInv'
<1>1. Tipos' /\ TidsUnicos' /\ HilosEnOrden'
  BY DEF IInv, Tipos, TidsUnicos, HilosEnOrden, Vivos
<1>2. BloqueadoEnLista' /\ MutexesEnOrden'
  BY DEF IInv, BloqueadoEnLista, MutexesEnOrden, Vivos, Mutexes, Duenio, Cola
<1>3. Correo'
  BY DEF IInv, Correo, Envenenado, SinCorreo, UnCorreo, Pedidos, Respuestas
<1>4. EnCurso'
  BY DEF IInv, EnCurso, Vivos, Mutexes, Duenio, Cola, NoEspera, EnBucle
<1> QED BY ONLY <1>1, <1>2, <1>3, <1>4 DEF IInv

LEMMA ThreadJoinPaso ==
  ASSUME IInv, NEW d \in Dirs, NEW x \in Tids, ThreadJoin(d, x) PROVE IInv'
<1>1. Tipos /\ Threads /\ MutexesEnOrden /\ Correo
  BY DEF IInv, Threads
<1>2. Syscall("THREAD_JOIN", d, x)
  BY DEF ThreadJoin
<1>3. /\ d \in Vivos /\ Invocador(d) = d /\ NoEspera(tcb[d].tid)
      /\ despacho.fase = "escucha" /\ a_cpu' = a_cpu
  BY <1>2, Llamador
<1>4. UNCHANGED <<procesos, canales, despacho>>
  BY DEF ThreadJoin
<1>5. Nadie \in Int /\ x \in Int
  BY CotasValidas DEF Nadie, Tids
<1>6. /\ Conserva(d) /\ lista_tcbs' = lista_tcbs
      /\ \E est \in {"READY", "BLOCKED"}, y \in Int :
           /\ Escrito(d, est, y)
           /\ est = "BLOCKED" => \E k \in DOMAIN lista_blocked' : lista_blocked'[k] = d
  <2>1. CASE PasarAReady(d)
    <3>1. Escrito(d, "READY", Nadie) /\ UNCHANGED <<lista_tcbs, lista_blocked>>
      BY <2>1 DEF PasarAReady, Escrito
    <3> QED BY <1>1, <1>5, <3>1 DEF Conserva, Tipos
  <2>2. CASE Bloquear(d, x)
    <3>1. /\ Escrito(d, "BLOCKED", x) /\ lista_tcbs' = lista_tcbs
          /\ lista_blocked' = Append(lista_blocked, d)
      BY <2>2 DEF Bloquear, Escrito
    <3> QED BY <1>1, <1>5, <3>1, Bloqueada
  <2> QED BY <1>3, <2>1, <2>2 DEF ThreadJoin
<1>7. /\ Threads' /\ Vivos' = Vivos /\ tcb' \in [Dirs -> Hilo \cup {Liberado}]
      /\ \A e \in Dirs \ {d} : tcb'[e] = tcb[e]
      /\ \A e \in Vivos : tcb'[e].tid = tcb[e].tid
  BY <1>1, <1>3, <1>4, <1>6, Pasa DEF procesos, Estados
<1>8. Tipos'
  BY <1>1, <1>4, <1>6, <1>7 DEF Tipos, Conserva, procesos, canales
<1>9. MutexesEnOrden'
  BY <1>1, <1>3, <1>4, <1>7, MutexesQuedan DEF procesos, Vivos
<1>10. Correo'
  BY <1>1, <1>3, <1>4, <1>6, CorreoQuieto DEF canales
<1>11. EnCurso'
  BY <1>3, <1>4, EnCursoNuevo
<1> QED BY <1>7, <1>8, <1>9, <1>10, <1>11 DEF IInv, Threads

\* DUMP_MEMORY and IO: the caller is blocked and put in lista_blocked.
LEMMA BloqueaLlamador ==
  ASSUME IInv, NEW op, NEW d \in Dirs, Syscall(op, d, Nadie),
         tcb' = [tcb EXCEPT ![Invocador(d)].estado = "BLOCKED"],
         lista_blocked' = Append(lista_blocked, Invocador(d)),
         UNCHANGED <<lista_tcbs, procesos>>
  PROVE  /\ Threads' /\ MutexesEnOrden'
         /\ tcb' \in [Dirs -> Hilo \cup {Liberado}]
         /\ \E S : lista_blocked' \in Seq(S)
         /\ d \in Vivos' /\ tcb'[d].estado = "BLOCKED" /\ NoEspera(tcb[d].tid)' /\ tcb'[d].tid = tcb[d].tid
<1>1. Tipos /\ Threads /\ MutexesEnOrden
  BY DEF IInv, Threads
<1>2. d \in Vivos /\ Invocador(d) = d /\ NoEspera(tcb[d].tid)
  BY Llamador
<1>3. Escrito(d, "BLOCKED", 0)
  BY <1>2 DEF Escrito
<1>4. Conserva(d) /\ \E k \in DOMAIN lista_blocked' : lista_blocked'[k] = d
  BY <1>1, <1>2, Bloqueada
<1>5. /\ Threads' /\ Vivos' = Vivos /\ tcb' \in [Dirs -> Hilo \cup {Liberado}]
      /\ tcb'[d].estado = "BLOCKED" /\ \A e \in Dirs \ {d} : tcb'[e] = tcb[e]
      /\ \A e \in Vivos : tcb'[e].tid = tcb[e].tid
  BY <1>1, <1>2, <1>3, <1>4, Pasa DEF procesos, Estados
<1>6. MutexesEnOrden'
  BY <1>1, <1>2, <1>5, MutexesQuedan DEF procesos, Vivos
<1>7. NoEspera(tcb[d].tid)'
  <2>1. tcb'[d].tid = tcb[d].tid
    BY <1>2, <1>5
  <2> QED BY <1>2, <2>1 DEF NoEspera, Mutexes, Cola, procesos
<1> QED BY <1>2, <1>4, <1>5, <1>6, <1>7 DEF Conserva

LEMMA DumpMemoryPaso ==
  ASSUME IInv, NEW d \in Dirs, DumpMemory(d) PROVE IInv'
<1>1. Tipos /\ Correo
  BY DEF IInv
<1>2. Syscall("DUMP_MEMORY", d, Nadie)
  BY DEF DumpMemory
<1>3. /\ despacho.fase = "escucha" /\ a_cpu # << >> /\ a_cpu' = a_cpu
      /\ tcb[d].pid = 1 /\ tcb[d].tid \in Nat
  BY <1>2, Llamador
<1>4. /\ Threads' /\ MutexesEnOrden' /\ tcb' \in [Dirs -> Hilo \cup {Liberado}]
      /\ \E S : lista_blocked' \in Seq(S)
  BY <1>2, BloqueaLlamador DEF DumpMemory
<1> DEFINE m == Msg("DUMP_MEMORY", tcb[d].pid, tcb[d].tid, Nadie)
<1>5. /\ a_memoria' = Append(a_memoria, m)
      /\ UNCHANGED <<lista_tcbs, procesos, de_memoria, desfasado, despacho>>
  BY DEF DumpMemory
<1>6. m \in Mensaje /\ m.op = "DUMP_MEMORY"
  <2>1. tcb[d].pid \in Int /\ tcb[d].tid \in Int /\ Nadie \in Int
    BY <1>3 DEF Nadie
  <2> QED BY <2>1, MsgTipo, MsgOp DEF Ops
<1> HIDE DEF m
<1>7. Correo'
  BY <1>1, <1>3, <1>5, <1>6, CorreoManda DEF Finales
<1>8. Tipos'
  BY <1>1, <1>4, <1>5, <1>6 DEF Tipos, procesos
<1>9. EnCurso'
  BY <1>3, <1>5, EnCursoNuevo
<1> QED BY <1>4, <1>7, <1>8, <1>9 DEF IInv, Threads

LEMMA IOPaso ==
  ASSUME IInv, NEW d \in Dirs, IO(d) PROVE IInv'
<1>1. Tipos /\ Correo
  BY DEF IInv
<1>2. Syscall("IO", d, Nadie)
  BY DEF IO
<1>3. /\ despacho.fase = "escucha" /\ a_cpu # << >> /\ a_cpu' = a_cpu
      /\ Invocador(d) = d
  BY <1>2, Llamador
<1>4. /\ Threads' /\ MutexesEnOrden' /\ tcb' \in [Dirs -> Hilo \cup {Liberado}]
      /\ \E S : lista_blocked' \in Seq(S)
      /\ d \in Vivos' /\ tcb'[d].estado = "BLOCKED" /\ NoEspera(tcb[d].tid)'
  BY <1>2, BloqueaLlamador DEF IO
<1>5. /\ despacho' = [fase |-> "io", dir |-> d, i |-> 0, pid |-> 0]
      /\ UNCHANGED <<lista_tcbs, procesos, canales>>
  BY <1>3 DEF IO, Escucha, Basura
<1>6. /\ despacho'.fase = "io" /\ despacho'.dir = d /\ despacho'.i = 0
      /\ despacho' \in Atencion
  BY ONLY <1>5, d \in Dirs DEF Atencion
<1>7. Correo'
  BY <1>1, <1>3, <1>5, CorreoQuieto DEF canales
<1>8. Tipos'
  BY <1>1, <1>4, <1>5, <1>6 DEF Tipos, procesos, canales
<1>9. EnCurso'
  BY <1>3, <1>4, <1>6 DEF EnCurso, EnBucle
<1> QED BY <1>4, <1>7, <1>8, <1>9 DEF IInv, Threads

LEMMA ProcesoNuevoTipo == ProcesoNuevo \in Proceso /\ ProcesoNuevo.mutex = << >>
<1>1. SinCrear = [estado |-> "NO", tid_contador |-> 0, mutex |-> << >>]
  BY DEF SinCrear
<1>2. \A h : h = [SinCrear EXCEPT !.estado = "NEW"] =>
        h = [estado |-> h.estado, tid_contador |-> h.tid_contador, mutex |-> h.mutex]
        /\ h.estado = "NEW" /\ h.tid_contador = 0 /\ h.mutex = << >>
  BY <1>1
<1>3. /\ ProcesoNuevo = [estado |-> ProcesoNuevo.estado,
                         tid_contador |-> ProcesoNuevo.tid_contador,
                         mutex |-> ProcesoNuevo.mutex]
      /\ ProcesoNuevo.estado = "NEW" /\ ProcesoNuevo.tid_contador = 0
      /\ ProcesoNuevo.mutex = << >>
  BY <1>2 DEF ProcesoNuevo
<1>4. ProcesoNuevo = [estado |-> "NEW", tid_contador |-> 0, mutex |-> << >>]
  BY <1>3
<1> QED BY ONLY <1>3, <1>4 DEF Proceso

LEMMA ProcessCreatePaso ==
  ASSUME IInv, NEW d \in Dirs, ProcessCreate(d) PROVE IInv'
<1>1. Tipos /\ Threads /\ MutexesEnOrden /\ Correo
  BY DEF IInv, Threads
<1>2. Syscall("PROCESS_CREATE", d, Nadie)
  BY DEF ProcessCreate
<1>3. despacho.fase = "escucha" /\ a_cpu' = a_cpu
  BY <1>2, Llamador
<1>4. /\ pid < MaxPid /\ pid' = pid + 1
      /\ pcb' = [pcb EXCEPT ![pid + 1] = ProcesoNuevo]
      /\ cola_new' = Append(cola_new, pid + 1)
      /\ UNCHANGED <<hilos, canales, despacho>>
  BY DEF ProcessCreate
<1>5. pid + 1 \in Pids \ {1} /\ pid + 1 \in Nat \ {0}
  BY <1>1, <1>4, CotasValidas DEF Tipos, Pids
<1>6. /\ ProcesoNuevo \in Proceso
      /\ ProcesoNuevo.mutex = << >>
  BY ProcesoNuevoTipo
<1>7. pcb'[1] = pcb[1]
  BY <1>1, <1>4, <1>5, Primero DEF Tipos
<1>8. Tipos'
  <2>1. cola_new' \in Seq(Int)
    BY <1>1, <1>4, <1>5 DEF Tipos
  <2>2. /\ pcb' \in [Pids -> Proceso]
        /\ \A p \in Pids \ {1} : pcb'[p].mutex = << >>
    BY <1>1, <1>4, <1>5, <1>6 DEF Tipos
  <2> QED BY <1>1, <1>4, <1>5, <2>1, <2>2 DEF Tipos, hilos, canales
<1>9. Threads'
  BY <1>1, <1>4, <1>7 DEF Threads, TidsUnicos, HilosEnOrden, BloqueadoEnLista, Vivos, hilos
<1>10. MutexesEnOrden'
  BY <1>1, <1>4, <1>7 DEF MutexesEnOrden, Mutexes, Duenio, Cola, Vivos, hilos
<1>11. Correo'
  BY <1>1, <1>3, <1>4, CorreoQuieto DEF canales, hilos
<1>12. EnCurso'
  BY <1>3, <1>4, EnCursoNuevo
<1> QED BY <1>8, <1>9, <1>10, <1>11, <1>12 DEF IInv, Threads

LEMMA ProcessExitPaso ==
  ASSUME IInv, NEW d \in Dirs, ProcessExit(d) PROVE IInv'
<1>1. Tipos /\ Correo
  BY DEF IInv
<1>2. Syscall("PROCESS_EXIT", d, Nadie)
  BY DEF ProcessExit
<1>3. /\ despacho.fase = "escucha" /\ a_cpu # << >> /\ a_cpu' = a_cpu
      /\ tcb[d].pid = 1
  BY <1>2, Llamador
<1>4. UNCHANGED <<procesos, hilos, de_memoria, desfasado>>
  BY DEF ProcessExit
<1>5. CASE UNCHANGED <<a_memoria, despacho>>
  BY <1>3, <1>4, <1>5, Igual DEF procesos, hilos
<1>6. CASE /\ a_memoria' = Append(a_memoria, Msg("FINALIZAR_PROCESO", 1, Nadie, Nadie))
           /\ despacho' = [Escucha EXCEPT !.fase = "fin_proceso", !.pid = 1]
  <2> DEFINE m == Msg("FINALIZAR_PROCESO", 1, Nadie, Nadie)
  <2>1. m \in Mensaje
    BY MsgTipo DEF Ops, Nadie
  <2>2. despacho' = [fase |-> "fin_proceso", dir |-> NULL, i |-> 0, pid |-> 1]
    BY <1>6 DEF Escucha
  <2>3. /\ despacho'.fase = "fin_proceso" /\ despacho'.pid = 1
        /\ despacho' \in Atencion
    BY ONLY <2>2 DEF Atencion
  <2>4. a_memoria' = Append(a_memoria, m)
    BY <1>6
  <2> HIDE DEF m
  <2>5. Correo'
    BY <1>1, <1>3, <1>4, <2>1, <2>3, <2>4, CorreoManda DEF hilos
  <2>6. Tipos'
    BY <1>1, <1>4, <2>1, <2>3, <2>4 DEF Tipos, procesos, hilos
  <2>7. EnCurso'
    BY <1>3, <2>3 DEF EnCurso, EnBucle
  <2>8. Threads' /\ MutexesEnOrden'
    BY <1>4 DEF IInv, Threads, TidsUnicos, HilosEnOrden, BloqueadoEnLista, Vivos, hilos,
       MutexesEnOrden, Mutexes, Duenio, Cola, procesos
  <2> QED BY <2>5, <2>6, <2>7, <2>8 DEF IInv, Threads
<1> QED BY <1>3, <1>5, <1>6 DEF ProcessExit

LEMMA ThreadCreatePaso ==
  ASSUME IInv, NEW d \in Dirs, ThreadCreate(d) PROVE IInv'
<1>1. Tipos /\ Threads /\ MutexesEnOrden /\ Correo
  BY DEF IInv, Threads
<1> DEFINE c == pcb[1].tid_contador
           m == Msg("HILO_READY", 1, c + 1, Nadie)
<1>2. Syscall("THREAD_CREATE", d, Nadie)
  BY DEF ThreadCreate
<1>3. /\ despacho.fase = "escucha" /\ a_cpu # << >> /\ a_cpu' = a_cpu
      /\ d \in Vivos /\ tcb[d].pid = 1 /\ tcb[d].tid \in Nat
  BY <1>2, Llamador
<1>4. c \in Int /\ c + 1 \in Nat /\ \A e \in Vivos : tcb[e].tid \in Nat /\ tcb[e].tid # c + 1
  <2>1. c \in Int
    BY <1>1, Primero DEF Tipos, Proceso
  <2>2. \A e \in Vivos : tcb[e].tid \in Nat /\ tcb[e].tid <= c
    BY <1>1, Vivo DEF Threads, HilosEnOrden, Hilo
  <2> HIDE DEF c
  <2>3. tcb[d].tid \in Nat /\ tcb[d].tid <= c
    BY <1>3, <2>2
  <2> QED BY <2>1, <2>2, <2>3
<1>5. /\ pcb' = [pcb EXCEPT ![1].tid_contador = (c + 1) + 1]
      /\ a_memoria' = Append(a_memoria, m)
      /\ UNCHANGED <<pid, cola_new, lista_blocked, de_memoria, desfasado, despacho>>
  BY <1>3 DEF ThreadCreate, NuevoTid
<1>6. PICK e \in Dirs : AgregarHilo(e, 1, c + 1)
  BY <1>3 DEF ThreadCreate, NuevoTid
<1>7. /\ pcb' \in [Pids -> Proceso] /\ \A p \in Pids \ {1} : pcb'[p].mutex = << >>
      /\ pcb'[1].tid_contador = c + 2 /\ pcb'[1].mutex = pcb[1].mutex
  <2> DEFINE n == (c + 1) + 1
  <2>1. pcb \in [Pids -> Proceso] /\ pcb' = [pcb EXCEPT ![1].tid_contador = n] /\ n \in Int
    BY <1>1, <1>4, <1>5 DEF Tipos
  <2>2. n = c + 2
    BY <1>4
  <2> HIDE DEF c, n
  <2>3. /\ pcb' \in [Pids -> Proceso] /\ \A p \in Pids \ {1} : pcb'[p] = pcb[p]
        /\ pcb'[1].tid_contador = n /\ pcb'[1].mutex = pcb[1].mutex
    BY <2>1, Primero DEF Proceso
  <2> QED BY <1>1, <2>2, <2>3 DEF Tipos
<1>8. m \in Mensaje /\ m.op = "HILO_READY"
  <2>1. Nadie \in Int /\ c + 1 \in Int
    BY <1>4 DEF Nadie
  <2> HIDE DEF c
  <2> QED BY <2>1, MsgTipo, MsgOp DEF Ops
<1> HIDE DEF m
<1>9. /\ Threads' /\ Vivos' = Vivos \cup {e} /\ tcb' \in [Dirs -> Hilo \cup {Liberado}]
      /\ \A x \in Vivos : tcb'[x] = tcb[x]
      /\ lista_tcbs' \in Seq(Dirs)
  <2>1. pcb'[1].tid_contador \in Int /\ c + 1 <= pcb'[1].tid_contador /\ c <= pcb'[1].tid_contador
    BY <1>4, <1>7
  <2> HIDE DEF c
  <2> QED BY <1>1, <1>4, <1>5, <1>6, <2>1, Nace DEF c
<1> HIDE DEF c
<1>10. Tipos'
  BY <1>1, <1>5, <1>7, <1>8, <1>9 DEF Tipos
<1>11. MutexesEnOrden'
  BY <1>1, <1>7, <1>9, MutexesQuedan
<1>12. Correo'
  BY <1>1, <1>3, <1>5, <1>8, CorreoManda
<1>13. EnCurso'
  BY <1>3, <1>5, EnCursoNuevo
<1> QED BY <1>9, <1>10, <1>11, <1>12, <1>13 DEF IInv, Threads

-----------------------------------------------------------------------------
(* The mutexes *)

\* The mutexes of the first process change and nothing else of it does.
LEMMA OtrosMutexes ==
  ASSUME Tipos, NEW ms \in Seq(Mutex), pcb' = [pcb EXCEPT ![1].mutex = ms]
  PROVE  /\ pcb' \in [Pids -> Proceso] /\ \A p \in Pids \ {1} : pcb'[p].mutex = << >>
         /\ pcb'[1].mutex = ms /\ pcb'[1].tid_contador = pcb[1].tid_contador
BY Primero DEF Tipos, Proceso

LEMMA UnMutex ==
  ASSUME Tipos, NEW k \in Mutexes
  PROVE  /\ pcb[1].mutex \in Seq(Mutex) /\ k \in Nat \ {0}
         /\ pcb[1].mutex[k] \in Mutex /\ Duenio(k) \in Nat \cup {Nadie} /\ Cola(k) \in Seq(Nat)
<1>1. pcb[1].mutex \in Seq(Mutex) /\ k \in DOMAIN pcb[1].mutex
  BY Primero DEF Tipos, Proceso, Mutexes
<1>2. k \in Nat \ {0} /\ pcb[1].mutex[k] \in Mutex
  BY ONLY <1>1
<1> QED BY <1>1, <1>2 DEF Mutex, Duenio, Cola

\* One of them changes its owner, its queue or both.
Pone(k, t, b) ==
  \/ pcb' = [pcb EXCEPT ![1].mutex[k].tid = t] /\ b = Cola(k)
  \/ pcb' = [pcb EXCEPT ![1].mutex[k].bloqueados = b] /\ t = Duenio(k)
  \/ pcb' = [pcb EXCEPT ![1].mutex[k].bloqueados = b, ![1].mutex[k].tid = t]

LEMMA CambiaMutex ==
  ASSUME Tipos, NEW k \in Mutexes, NEW t \in Nat \cup {Nadie}, NEW b \in Seq(Nat), Pone(k, t, b)
  PROVE  /\ pcb' \in [Pids -> Proceso] /\ \A p \in Pids \ {1} : pcb'[p].mutex = << >>
         /\ pcb'[1].tid_contador = pcb[1].tid_contador
         /\ Mutexes' = Mutexes /\ Duenio(k)' = t /\ Cola(k)' = b
         /\ \A l \in Mutexes \ {k} : Duenio(l)' = Duenio(l) /\ Cola(l)' = Cola(l)
<1> DEFINE s == pcb[1].mutex
<1>1. /\ s \in Seq(Mutex) /\ k \in DOMAIN s /\ pcb \in [Pids -> Proceso] /\ 1 \in Pids
      /\ s[k] \in Mutex /\ Duenio(k) = s[k].tid /\ Cola(k) = s[k].bloqueados
  BY UnMutex, Primero DEF Mutexes, Tipos, Duenio, Cola
<1>2. PICK m : /\ \/ m = [s[k] EXCEPT !.tid = t] /\ b = s[k].bloqueados
                  \/ m = [s[k] EXCEPT !.bloqueados = b] /\ t = s[k].tid
                  \/ m = [s[k] EXCEPT !.bloqueados = b, !.tid = t]
               /\ pcb' = [pcb EXCEPT ![1].mutex = [s EXCEPT ![k] = m]]
  <2>1. CASE pcb' = [pcb EXCEPT ![1].mutex[k].tid = t] /\ b = Cola(k)
    <3>1. pcb' = [pcb EXCEPT ![1].mutex = [s EXCEPT ![k] = [s[k] EXCEPT !.tid = t]]]
      BY <1>1, <2>1 DEF Proceso
    <3> QED BY <1>1, <2>1, <3>1
  <2>2. CASE pcb' = [pcb EXCEPT ![1].mutex[k].bloqueados = b] /\ t = Duenio(k)
    <3>1. pcb' = [pcb EXCEPT ![1].mutex = [s EXCEPT ![k] = [s[k] EXCEPT !.bloqueados = b]]]
      BY <1>1, <2>2 DEF Proceso
    <3> QED BY <1>1, <2>2, <3>1
  <2>3. CASE pcb' = [pcb EXCEPT ![1].mutex[k].bloqueados = b, ![1].mutex[k].tid = t]
    <3>1. pcb' = [pcb EXCEPT ![1].mutex =
                    [s EXCEPT ![k] = [s[k] EXCEPT !.bloqueados = b, !.tid = t]]]
      BY <1>1, <2>3 DEF Proceso
    <3> QED BY <1>1, <2>3, <3>1
  <2> QED BY <2>1, <2>2, <2>3 DEF Pone
<1> DEFINE ms == [s EXCEPT ![k] = m]
<1>3. pcb' = [pcb EXCEPT ![1].mutex = ms]
  BY <1>2
<1>4. m \in Mutex /\ m.tid = t /\ m.bloqueados = b
  <2>1. s[k] = [recurso |-> s[k].recurso, tid |-> s[k].tid, bloqueados |-> s[k].bloqueados]
        /\ s[k].recurso \in Recursos
    BY <1>1 DEF Mutex
  <2>2. m = [recurso |-> m.recurso, tid |-> m.tid, bloqueados |-> m.bloqueados]
        /\ m.recurso = s[k].recurso /\ m.tid = t /\ m.bloqueados = b
    BY <1>2, <2>1
  <2> QED BY ONLY <2>1, <2>2, t \in Nat \cup {Nadie}, b \in Seq(Nat) DEF Mutex
<1>5. /\ ms \in Seq(Mutex) /\ DOMAIN ms = DOMAIN s /\ ms[k] = m
      /\ \A l \in DOMAIN s \ {k} : ms[l] = s[l]
  BY <1>1, <1>4
<1> HIDE DEF ms
<1>6. /\ pcb' \in [Pids -> Proceso] /\ \A p \in Pids \ {1} : pcb'[p].mutex = << >>
      /\ pcb'[1].mutex = ms /\ pcb'[1].tid_contador = pcb[1].tid_contador
  BY <1>3, <1>5, OtrosMutexes
<1> QED BY <1>4, <1>5, <1>6 DEF Mutexes, Duenio, Cola

\* The owner of a mutex nobody waits for changes.
LEMMA CambiaDuenio ==
  ASSUME IInv, NEW k \in Mutexes, NEW t \in Nat \cup {Nadie}, Cola(k) = << >>,
         t # Nadie => \E d \in Vivos : tcb[d].tid = t,
         pcb' = [pcb EXCEPT ![1].mutex[k].tid = t],
         despacho.fase = "escucha",
         UNCHANGED <<pid, cola_new, hilos, canales, despacho, a_cpu>>
  PROVE  IInv'
<1>1. Tipos /\ Threads /\ MutexesEnOrden /\ Correo
  BY DEF IInv, Threads
<1>2. Cola(k) \in Seq(Nat)
  BY <1>1, UnMutex
<1>3. Pone(k, t, Cola(k))
  BY DEF Pone
<1>4. /\ pcb' \in [Pids -> Proceso] /\ \A p \in Pids \ {1} : pcb'[p].mutex = << >>
      /\ pcb'[1].tid_contador = pcb[1].tid_contador
      /\ Mutexes' = Mutexes /\ Duenio(k)' = t /\ Cola(k)' = Cola(k)
      /\ \A l \in Mutexes \ {k} : Duenio(l)' = Duenio(l) /\ Cola(l)' = Cola(l)
  BY <1>1, <1>2, <1>3, CambiaMutex
<1>5. Vivos' = Vivos /\ tcb' = tcb
  BY DEF Vivos, hilos
<1>6. \A l \in Mutexes : Cola(l)' = Cola(l)
  BY <1>4
<1>7. MutexesEnOrden'
  <2>1. ASSUME NEW l \in Mutexes'
        PROVE  /\ Duenio(l)' = Nadie => Cola(l)' = << >>
               /\ Duenio(l)' # Nadie => \E d \in Vivos' : tcb'[d].tid = Duenio(l)'
               /\ \A i \in DOMAIN Cola(l)' :
                    \E d \in Vivos' : tcb'[d].tid = Cola(l)'[i] /\ tcb'[d].estado = "BLOCKED"
    <3>1. CASE l = k
      BY <1>1, <1>4, <1>5, <3>1 DEF MutexesEnOrden
    <3>2. CASE l # k
      BY <1>1, <1>4, <1>5, <2>1, <3>2 DEF MutexesEnOrden
    <3> QED BY <3>1, <3>2
  <2>2. \A i, l \in Mutexes' : \A x \in DOMAIN Cola(i)', y \in DOMAIN Cola(l)' :
          Cola(i)'[x] = Cola(l)'[y] => i = l /\ x = y
    BY <1>1, <1>4, <1>6 DEF MutexesEnOrden
  <2> QED BY <2>1, <2>2 DEF MutexesEnOrden
<1>8. Tipos'
  BY <1>1, <1>4 DEF Tipos, hilos, canales
<1>9. Threads'
  BY <1>1, <1>4, <1>5 DEF Threads, TidsUnicos, HilosEnOrden, BloqueadoEnLista, hilos
<1>10. Correo'
  BY <1>1, CorreoQuieto DEF canales, hilos
<1>11. EnCurso'
  BY EnCursoNuevo
<1> QED BY <1>7, <1>8, <1>9, <1>10, <1>11 DEF IInv, Threads

LEMMA MutexCreatePaso ==
  ASSUME IInv, NEW d \in Dirs, NEW r \in Recursos, MutexCreate(d, r) PROVE IInv'
<1>1. Tipos /\ Threads /\ MutexesEnOrden /\ Correo
  BY DEF IInv, Threads
<1>2. Syscall("MUTEX_CREATE", d, Nadie)
  BY DEF MutexCreate
<1>3. despacho.fase = "escucha" /\ a_cpu' = a_cpu /\ tcb[d].pid = 1
  BY <1>2, Llamador
<1> DEFINE m == [recurso |-> r, tid |-> Nadie, bloqueados |-> << >>]
           ms == Append(pcb[1].mutex, m)
<1>4. /\ pcb' = [pcb EXCEPT ![1].mutex = ms]
      /\ UNCHANGED <<pid, cola_new, hilos, canales, despacho>>
  BY <1>3 DEF MutexCreate
<1>5. m \in Mutex /\ m.tid = Nadie /\ m.bloqueados = << >>
  BY DEF Mutex
<1>6. pcb[1].mutex \in Seq(Mutex)
  BY <1>1, Primero DEF Tipos, Proceso
<1> HIDE DEF m
<1>7. PICK n \in Nat :
      /\ ms \in Seq(Mutex) /\ DOMAIN pcb[1].mutex = 1 .. n
      /\ DOMAIN ms = 1 .. n + 1 /\ ms[n + 1] = m
      /\ \A k \in 1 .. n : ms[k] = pcb[1].mutex[k]
  BY <1>5, <1>6
<1> HIDE DEF ms
<1>8. /\ pcb' \in [Pids -> Proceso] /\ \A p \in Pids \ {1} : pcb'[p].mutex = << >>
      /\ pcb'[1].mutex = ms /\ pcb'[1].tid_contador = pcb[1].tid_contador
  BY <1>1, <1>4, <1>7, OtrosMutexes
<1>9. /\ Mutexes = 1 .. n /\ Mutexes' = 1 .. n + 1
      /\ Duenio(n + 1)' = Nadie /\ Cola(n + 1)' = << >>
      /\ \A k \in 1 .. n : Duenio(k)' = Duenio(k) /\ Cola(k)' = Cola(k)
  BY <1>5, <1>7, <1>8 DEF Mutexes, Duenio, Cola
<1>10. Vivos' = Vivos /\ tcb' = tcb
  BY <1>4 DEF Vivos, hilos
<1>11. MutexesEnOrden'
  <2>1. \A k \in 1 .. n + 1 : k \in 1 .. n \/ k = n + 1
    BY <1>7
  <2>2. ASSUME NEW l \in Mutexes'
        PROVE  /\ Duenio(l)' = Nadie => Cola(l)' = << >>
               /\ Duenio(l)' # Nadie => \E e \in Vivos' : tcb'[e].tid = Duenio(l)'
               /\ \A i \in DOMAIN Cola(l)' :
                    \E e \in Vivos' : tcb'[e].tid = Cola(l)'[i] /\ tcb'[e].estado = "BLOCKED"
    <3>1. CASE l = n + 1
      BY <1>9, <3>1
    <3>2. CASE l \in 1 .. n
      BY <1>1, <1>9, <1>10, <3>2 DEF MutexesEnOrden
    <3> QED BY <1>9, <2>1, <3>1, <3>2
  <2>3. ASSUME NEW k \in Mutexes', NEW l \in Mutexes', NEW x \in DOMAIN Cola(k)',
               NEW y \in DOMAIN Cola(l)', Cola(k)'[x] = Cola(l)'[y]
        PROVE  k = l /\ x = y
    <3>1. k \in 1 .. n /\ l \in 1 .. n
      BY <1>9, <2>1
    <3> QED BY <1>1, <1>9, <2>3, <3>1 DEF MutexesEnOrden
  <2> QED BY <2>2, <2>3 DEF MutexesEnOrden
<1>12. Tipos'
  BY <1>1, <1>4, <1>8 DEF Tipos, hilos, canales
<1>13. Threads'
  BY <1>1, <1>4, <1>8, <1>10 DEF Threads, TidsUnicos, HilosEnOrden, BloqueadoEnLista, hilos
<1>14. Correo'
  BY <1>1, <1>3, <1>4, CorreoQuieto DEF canales, hilos
<1>15. EnCurso'
  BY <1>3, <1>4, EnCursoNuevo
<1> QED BY <1>11, <1>12, <1>13, <1>14, <1>15 DEF IInv, Threads

LEMMA MutexInexistentePaso ==
  ASSUME IInv, NEW op, NEW d \in Dirs, NEW r \in Recursos, MutexInexistente(op, d, r) PROVE IInv'
<1>1. Syscall(op, d, Nadie) /\ UNCHANGED <<procesos, hilos, canales, despacho>>
  BY DEF MutexInexistente
<1>2. a_cpu' = a_cpu
  BY <1>1, Llamador
<1> QED BY <1>1, <1>2, Igual DEF procesos, hilos, canales

LEMMA MutexLockPaso ==
  ASSUME IInv, NEW d \in Dirs, NEW r \in Recursos, MutexLock(d, r) PROVE IInv'
<1>1. Tipos /\ Threads /\ MutexesEnOrden /\ Correo
  BY DEF IInv, Threads
<1>2. Syscall("MUTEX_LOCK", d, Nadie)
  BY DEF MutexLock
<1>3. /\ despacho.fase = "escucha" /\ a_cpu' = a_cpu
      /\ d \in Vivos /\ tcb[d].pid = 1 /\ tcb[d].tid \in Nat
      /\ Invocador(d) = d /\ NoEspera(tcb[d].tid) /\ tcb[d].estado # "BLOCKED"
  BY <1>2, Llamador
<1>4. UNCHANGED <<pid, cola_new, canales, despacho>>
  BY DEF MutexLock
<1>5. PICK t \in Nat : t = tcb[d].tid
  BY <1>3
<1>6. PICK k \in Mutexes :
        \/ /\ Duenio(k) = Nadie
           /\ pcb' = [pcb EXCEPT ![1].mutex[k].tid = t]
           /\ UNCHANGED hilos
        \/ /\ Duenio(k) # Nadie
           /\ pcb' = [pcb EXCEPT ![1].mutex[k].bloqueados = Append(Cola(k), t)]
           /\ Bloquear(d, Nadie)
  BY <1>3, <1>5 DEF MutexLock, Mutexes, Duenio, Cola
<1>7. CASE /\ Duenio(k) = Nadie
           /\ pcb' = [pcb EXCEPT ![1].mutex[k].tid = t]
           /\ UNCHANGED hilos
  <2>1. Cola(k) = << >>
    BY <1>1, <1>7 DEF MutexesEnOrden
  <2>2. \E e \in Vivos : tcb[e].tid = t
    BY <1>3, <1>5
  <2> QED BY <1>3, <1>4, <1>7, <2>1, <2>2, CambiaDuenio
<1>8. CASE /\ Duenio(k) # Nadie
           /\ pcb' = [pcb EXCEPT ![1].mutex[k].bloqueados = Append(Cola(k), t)]
           /\ Bloquear(d, Nadie)
  <2>1. PICK n \in Nat :
        /\ Append(Cola(k), t) \in Seq(Nat) /\ Duenio(k) \in Nat \cup {Nadie}
        /\ DOMAIN Cola(k) = 1 .. n /\ DOMAIN Append(Cola(k), t) = 1 .. n + 1
        /\ \A i \in 1 .. n : Append(Cola(k), t)[i] = Cola(k)[i]
        /\ Append(Cola(k), t)[n + 1] = t
    <3>1. Cola(k) \in Seq(Nat) /\ Duenio(k) \in Nat \cup {Nadie}
      BY <1>1, UnMutex
    <3>2. \A c \in Seq(Nat) :
            /\ Len(c) \in Nat /\ Append(c, t) \in Seq(Nat)
            /\ DOMAIN c = 1 .. Len(c) /\ DOMAIN Append(c, t) = 1 .. Len(c) + 1
            /\ \A i \in 1 .. Len(c) : Append(c, t)[i] = c[i]
            /\ Append(c, t)[Len(c) + 1] = t
      OBVIOUS
    <3> QED BY <3>1, <3>2, Zenon
  <2>2. PICK q \in Seq(Nat) : q = Append(Cola(k), t)
    BY <2>1
  <2>3. PICK o \in Nat \cup {Nadie} : o = Duenio(k)
    BY <2>1
  <2>4. Pone(k, o, q)
    BY <1>8, <2>2, <2>3 DEF Pone
  <2>5. /\ pcb' \in [Pids -> Proceso] /\ \A p \in Pids \ {1} : pcb'[p].mutex = << >>
        /\ pcb'[1].tid_contador = pcb[1].tid_contador
        /\ Mutexes' = Mutexes /\ Duenio(k)' = Duenio(k) /\ Cola(k)' = q
        /\ \A l \in Mutexes \ {k} : Duenio(l)' = Duenio(l) /\ Cola(l)' = Cola(l)
    BY <1>1, <2>3, <2>4, CambiaMutex
  <2>6. /\ Escrito(d, "BLOCKED", Nadie) /\ lista_tcbs' = lista_tcbs
        /\ lista_blocked' = Append(lista_blocked, d)
    BY <1>8 DEF Bloquear, Escrito
  <2>7. Conserva(d) /\ \E i \in DOMAIN lista_blocked' : lista_blocked'[i] = d
    BY <1>1, <2>6, Bloqueada
  <2>8. Nadie \in Int /\ "BLOCKED" \in Estados
    BY DEF Nadie, Estados
  <2>9. /\ Threads' /\ Vivos' = Vivos /\ tcb' \in [Dirs -> Hilo \cup {Liberado}]
        /\ tcb'[d].estado = "BLOCKED" /\ \A e \in Dirs \ {d} : tcb'[e] = tcb[e]
        /\ \A e \in Vivos : tcb'[e].tid = tcb[e].tid
    BY <1>1, <1>3, <2>5, <2>6, <2>7, <2>8, Pasa
  <2>10. ASSUME NEW e \in Vivos, tcb[e].estado = "BLOCKED" PROVE tcb'[e].estado = "BLOCKED"
    BY <2>9, <2>10 DEF Vivos
  <2>11. /\ \A i \in 1 .. n + 1 : i \in 1 .. n \/ i = n + 1
         /\ DOMAIN q = 1 .. n + 1 /\ q[n + 1] = t /\ \A i \in 1 .. n : q[i] = Cola(k)[i]
    BY <2>1, <2>2
  <2>12. ASSUME NEW l \in Mutexes
         PROVE  /\ Duenio(l)' = Nadie => Cola(l)' = << >>
                /\ Duenio(l)' # Nadie => \E e \in Vivos' : tcb'[e].tid = Duenio(l)'
                /\ \A i \in DOMAIN Cola(l)' :
                     \E e \in Vivos' : tcb'[e].tid = Cola(l)'[i] /\ tcb'[e].estado = "BLOCKED"
    <3>1. /\ Duenio(l)' = Duenio(l)
          /\ Duenio(l) # Nadie => \E e \in Vivos' : tcb'[e].tid = Duenio(l)
          /\ \A i \in DOMAIN Cola(l) :
               \E e \in Vivos' : tcb'[e].tid = Cola(l)[i] /\ tcb'[e].estado = "BLOCKED"
      BY <1>1, <2>5, <2>9, <2>10 DEF MutexesEnOrden
    <3>2. CASE l = k
      <4>1. \A i \in 1 .. n :
              \E e \in Vivos' : tcb'[e].tid = q[i] /\ tcb'[e].estado = "BLOCKED"
        BY SMTT(30), <2>1, <2>11, <3>1, <3>2
      <4>2. \E e \in Vivos' : tcb'[e].tid = q[n + 1] /\ tcb'[e].estado = "BLOCKED"
        BY <1>3, <1>5, <2>9, <2>11
      <4> QED BY SMTT(30), <1>8, <2>5, <2>11, <3>1, <3>2, <4>1, <4>2
    <3>3. CASE l # k
      BY <1>1, <2>5, <3>1, <3>3 DEF MutexesEnOrden
    <3> QED BY <3>2, <3>3
  <2>13. ASSUME NEW l \in Mutexes, NEW i \in DOMAIN Cola(l)'
         PROVE  \/ i \in DOMAIN Cola(l) /\ Cola(l)'[i] = Cola(l)[i]
                \/ l = k /\ i = n + 1 /\ Cola(l)'[i] = t
    <3>1. CASE l = k
      BY <2>1, <2>5, <2>11, <2>13, <3>1
    <3>2. CASE l # k
      BY <2>5, <2>13, <3>2
    <3> QED BY <3>1, <3>2
  <2>14. \A l \in Mutexes : \A i \in DOMAIN Cola(l) : Cola(l)[i] # t
    BY <1>3, <1>5 DEF NoEspera
  <2>15. \A l, m \in Mutexes : \A i \in DOMAIN Cola(l)', j \in DOMAIN Cola(m)' :
           Cola(l)'[i] = Cola(m)'[j] => l = m /\ i = j
    BY <1>1, <2>13, <2>14 DEF MutexesEnOrden
  <2>16. MutexesEnOrden'
    BY <2>5, <2>12, <2>15 DEF MutexesEnOrden
  <2>17. Tipos'
    BY <1>1, <1>4, <2>5, <2>6, <2>7, <2>9 DEF Tipos, Conserva, canales
  <2>18. Correo'
    BY <1>1, <1>3, <1>4, <2>6, CorreoQuieto DEF canales
  <2>19. EnCurso'
    BY <1>3, <1>4, EnCursoNuevo
  <2> QED BY <2>9, <2>16, <2>17, <2>18, <2>19 DEF IInv, Threads
<1> QED BY <1>6, <1>7, <1>8

LEMMA MutexUnlockPaso ==
  ASSUME IInv, NEW d \in Dirs, NEW r \in Recursos, MutexUnlock(d, r) PROVE IInv'
<1>1. Tipos /\ Threads /\ MutexesEnOrden /\ Correo /\ TidsUnicos /\ HilosEnOrden
  BY DEF IInv, Threads
<1>2. Syscall("MUTEX_UNLOCK", d, Nadie)
  BY DEF MutexUnlock
<1>3. /\ despacho.fase = "escucha" /\ a_cpu' = a_cpu /\ tcb[d].pid = 1
  BY <1>2, Llamador
<1>4. UNCHANGED <<pid, cola_new, canales, despacho>>
  BY DEF MutexUnlock
<1>5. PICK k \in Mutexes :
        \/ UNCHANGED <<pcb, hilos>>
        \/ /\ Cola(k) = << >>
           /\ pcb' = [pcb EXCEPT ![1].mutex[k].tid = Nadie]
           /\ UNCHANGED hilos
        \/ /\ Cola(k) # << >>
           /\ LET h == BuscarTcbs(Head(Cola(k)), 1)
              IN h # NULL =>
                   /\ pcb' = [pcb EXCEPT ![1].mutex[k].bloqueados = Tail(Cola(k)),
                                         ![1].mutex[k].tid = tcb[h].tid]
                   /\ PasarAReady(h)
           /\ BuscarTcbs(Head(Cola(k)), 1) = NULL => UNCHANGED hilos
  BY <1>3 DEF MutexUnlock, Mutexes, Duenio, Cola
<1>6. CASE UNCHANGED <<pcb, hilos>>
  BY <1>3, <1>4, <1>6, Igual DEF hilos, canales
<1>7. CASE /\ Cola(k) = << >>
           /\ pcb' = [pcb EXCEPT ![1].mutex[k].tid = Nadie]
           /\ UNCHANGED hilos
  BY <1>3, <1>4, <1>7, CambiaDuenio
<1>8. ASSUME Cola(k) # << >>,
             LET h == BuscarTcbs(Head(Cola(k)), 1)
             IN h # NULL =>
                  /\ pcb' = [pcb EXCEPT ![1].mutex[k].bloqueados = Tail(Cola(k)),
                                        ![1].mutex[k].tid = tcb[h].tid]
                  /\ PasarAReady(h)
      PROVE  IInv'
  <2>1. PICK n \in Nat :
        /\ DOMAIN Cola(k) = 1 .. n + 1 /\ Head(Cola(k)) = Cola(k)[1] /\ Cola(k)[1] \in Nat
        /\ Tail(Cola(k)) \in Seq(Nat) /\ DOMAIN Tail(Cola(k)) = 1 .. n
        /\ \A i \in 1 .. n : i + 1 \in 1 .. n + 1 /\ Tail(Cola(k))[i] = Cola(k)[i + 1]
    <3>1. Cola(k) \in Seq(Nat)
      BY <1>1, UnMutex
    <3>2. \A c \in Seq(Nat) : c # << >> =>
            /\ Len(c) - 1 \in Nat /\ DOMAIN c = 1 .. (Len(c) - 1) + 1
            /\ Head(c) = c[1] /\ c[1] \in Nat
            /\ Tail(c) \in Seq(Nat) /\ DOMAIN Tail(c) = 1 .. Len(c) - 1
            /\ \A i \in 1 .. Len(c) - 1 :
                 i + 1 \in 1 .. (Len(c) - 1) + 1 /\ Tail(c)[i] = c[i + 1]
      OBVIOUS
    <3> QED BY <1>8, <3>1, <3>2, Zenon
  <2>2. PICK q \in Seq(Nat) : q = Tail(Cola(k))
    BY <2>1
  <2>3. PICK t \in Nat : t = Cola(k)[1]
    BY <2>1
  <2>4. 1 \in DOMAIN Cola(k)
    BY <2>1
  <2>5. PICK h \in Vivos : tcb[h].tid = t /\ tcb[h].estado = "BLOCKED"
    BY <1>1, <2>3, <2>4 DEF MutexesEnOrden
  <2>6. BuscarTcbs(t, 1) = h /\ h # NULL
    BY <1>1, <2>5, Buscar, CotasValidas DEF Vivos
  <2>7. /\ pcb' = [pcb EXCEPT ![1].mutex[k].bloqueados = q, ![1].mutex[k].tid = t]
        /\ PasarAReady(h)
    BY <1>8, <2>1, <2>2, <2>3, <2>5, <2>6
  <2>8. Pone(k, t, q)
    BY <2>7 DEF Pone
  <2>9. /\ pcb' \in [Pids -> Proceso] /\ \A p \in Pids \ {1} : pcb'[p].mutex = << >>
        /\ pcb'[1].tid_contador = pcb[1].tid_contador
        /\ Mutexes' = Mutexes /\ Duenio(k)' = t /\ Cola(k)' = q
        /\ \A l \in Mutexes \ {k} : Duenio(l)' = Duenio(l) /\ Cola(l)' = Cola(l)
    BY <1>1, <2>8, CambiaMutex
  <2>10. Escrito(h, "READY", Nadie) /\ UNCHANGED <<lista_tcbs, lista_blocked>>
    BY <2>7 DEF PasarAReady, Escrito
  <2>11. Nadie \in Int /\ Nadie \notin Nat /\ "READY" \in Estados /\ Conserva(h)
    BY <1>1, <2>10 DEF Nadie, Estados, Conserva, Tipos
  <2>12. /\ Threads' /\ Vivos' = Vivos /\ tcb' \in [Dirs -> Hilo \cup {Liberado}]
         /\ \A e \in Dirs \ {h} : tcb'[e] = tcb[e]
         /\ \A e \in Vivos : tcb'[e].tid = tcb[e].tid
    BY <1>1, <2>9, <2>10, <2>11, Pasa
  \* What is left in the queues was there, and is not t.
  <2>13. \E f \in [Mutexes -> {0, 1}] :
           \A l \in Mutexes : /\ f[l] = 1 <=> l = k
                              /\ \A i \in DOMAIN Cola(l)' :
                                   /\ i \in Nat /\ i + f[l] \in DOMAIN Cola(l)
                                   /\ Cola(l)'[i] = Cola(l)[i + f[l]]
                                   /\ Cola(l)'[i] # t
    <3> DEFINE f == [l \in Mutexes |-> IF l = k THEN 1 ELSE 0]
    <3>1. ASSUME NEW l \in Mutexes, NEW i \in DOMAIN Cola(l)'
          PROVE  /\ i \in Nat /\ i + f[l] \in DOMAIN Cola(l)
                 /\ Cola(l)'[i] = Cola(l)[i + f[l]] /\ Cola(l)'[i] # t
      <4>1. CASE l = k
        <5>1. i \in 1 .. n /\ Cola(l)'[i] = Cola(l)[i + 1] /\ i + 1 \in DOMAIN Cola(l)
          BY <2>1, <2>2, <2>9, <3>1, <4>1
        <5>2. i + 1 # 1
          BY <5>1
        <5>3. Cola(l)[i + 1] # t
          BY <1>1, <2>3, <2>4, <4>1, <5>1, <5>2 DEF MutexesEnOrden
        <5> QED BY <4>1, <5>1, <5>3
      <4>2. CASE l # k
        <5>1. i \in DOMAIN Cola(l) /\ Cola(l)'[i] = Cola(l)[i] /\ Cola(l) \in Seq(Nat)
          BY <1>1, <2>9, <3>1, <4>2, UnMutex
        <5>2. Cola(l)[i] # t
          BY <1>1, <2>3, <2>4, <4>2, <5>1 DEF MutexesEnOrden
        <5> QED BY <4>2, <5>1, <5>2
      <4> QED BY <4>1, <4>2
    <3>2. f \in [Mutexes -> {0, 1}] /\ \A l \in Mutexes : f[l] = 1 <=> l = k
      OBVIOUS
    <3> HIDE DEF f
    <3> QED BY <3>1, <3>2
  <2>14. PICK f \in [Mutexes -> {0, 1}] :
           \A l \in Mutexes : /\ f[l] = 1 <=> l = k
                              /\ \A i \in DOMAIN Cola(l)' :
                                   /\ i \in Nat /\ i + f[l] \in DOMAIN Cola(l)
                                   /\ Cola(l)'[i] = Cola(l)[i + f[l]]
                                   /\ Cola(l)'[i] # t
    BY <2>13
  <2>15. ASSUME NEW l \in Mutexes, NEW i \in DOMAIN Cola(l)'
         PROVE  \E e \in Vivos' : tcb'[e].tid = Cola(l)'[i] /\ tcb'[e].estado = "BLOCKED"
    <3>1. i + f[l] \in DOMAIN Cola(l) /\ Cola(l)'[i] = Cola(l)[i + f[l]] /\ Cola(l)'[i] # t
      BY <2>14, <2>15
    <3>2. PICK e \in Vivos : tcb[e].tid = Cola(l)[i + f[l]] /\ tcb[e].estado = "BLOCKED"
      BY <1>1, <3>1 DEF MutexesEnOrden
    <3>3. e # h
      BY <2>5, <3>1, <3>2
    <3> QED BY <2>12, <3>1, <3>2, <3>3 DEF Vivos
  <2>16. ASSUME NEW l \in Mutexes
         PROVE  /\ Duenio(l)' = Nadie => Cola(l)' = << >>
                /\ Duenio(l)' # Nadie => \E e \in Vivos' : tcb'[e].tid = Duenio(l)'
    <3>1. CASE l = k
      BY <2>5, <2>9, <2>11, <2>12, <3>1
    <3>2. CASE l # k
      BY <1>1, <2>9, <2>12, <3>2 DEF MutexesEnOrden
    <3> QED BY <3>1, <3>2
  <2>17. ASSUME NEW l \in Mutexes, NEW m \in Mutexes, NEW i \in DOMAIN Cola(l)',
                NEW j \in DOMAIN Cola(m)', Cola(l)'[i] = Cola(m)'[j]
         PROVE  l = m /\ i = j
    <3>1. l = m /\ i + f[l] = j + f[m] /\ i \in Nat /\ j \in Nat
      BY <1>1, <2>14, <2>17 DEF MutexesEnOrden
    <3>2. f[l] \in {0, 1}
      OBVIOUS
    <3> QED BY <3>1, <3>2
  <2>18. MutexesEnOrden'
    BY <2>9, <2>15, <2>16, <2>17 DEF MutexesEnOrden
  <2>19. Tipos'
    BY <1>1, <1>4, <2>9, <2>10, <2>12 DEF Tipos, canales
  <2>20. Correo'
    BY <1>1, <1>3, <1>4, <2>10, CorreoQuieto DEF canales
  <2>21. EnCurso'
    BY <1>3, <1>4, EnCursoNuevo
  <2> QED BY <2>12, <2>18, <2>19, <2>20, <2>21 DEF IInv, Threads
<1> QED BY <1>5, <1>6, <1>7, <1>8

-----------------------------------------------------------------------------
(* finalizar_hilo *)

\* Its mutexes have nobody waiting, or the kernel dies there and nothing changes.
LEMMA Finaliza ==
  ASSUME IInv, NEW d \in Vivos, NEW i \in Nat, FinalizarHilo(d, i),
         despacho.fase \in {"escucha", "recorre"}, a_cpu # << >>, a_cpu' = a_cpu,
         i # 0 => Len(lista_tcbs) <= 1, NoEspera(tcb[d].tid) \/ Vivos = {d},
         UNCHANGED SinTocar
  PROVE  IInv'
<1>1. Tipos /\ Threads /\ MutexesEnOrden /\ Correo
  BY DEF IInv, Threads
<1>2. d \in Dirs /\ tcb[d].pid = 1 /\ tcb[d].tid \in Nat /\ Nadie \notin Nat /\ Nadie \in Int
  BY <1>1, Vivo DEF Hilo, Nadie
<1>3. PICK t \in Nat : t = tcb[d].tid
  BY <1>2
<1> DEFINE suyos == {k \in Mutexes : Duenio(k) = t}
           ms == [k \in Mutexes |-> IF k \in suyos THEN [pcb[1].mutex[k] EXCEPT !.tid = Nadie]
                                                   ELSE pcb[1].mutex[k]]
           m == Msg("FINALIZAR_HILO", 1, 1, Nadie)
<1>4. CASE viva' = FALSE /\ UNCHANGED <<pcb, tcb, a_memoria, despacho>>
  BY <1>4, Igual DEF SinTocar
<1>5. CASE /\ ~(\E k \in suyos : Cola(k) # << >>)
           /\ pcb' = [pcb EXCEPT ![1].mutex = ms]
           /\ tcb' = [tcb EXCEPT ![d].estado = "EXIT"]
           /\ a_memoria' = Append(a_memoria, m)
           /\ despacho' = [fase |-> "fin_hilo", dir |-> d, i |-> i, pid |-> 1]
  <2>1. \A k \in Mutexes : Duenio(k) = t => Cola(k) = << >>
    BY <1>5
  <2>2. NoEspera(t)
    <3>1. CASE NoEspera(tcb[d].tid)
      BY <1>3, <3>1
    <3>2. ASSUME Vivos = {d}, NEW k \in Mutexes, NEW j \in DOMAIN Cola(k) PROVE FALSE
      <4>1. Cola(k) # << >>
        BY <3>2
      <4>2. Duenio(k) = t
        BY <1>1, <1>3, <3>2, <4>1 DEF MutexesEnOrden
      <4> QED BY <2>1, <4>1, <4>2
    <3> QED BY <3>1, <3>2 DEF NoEspera
  <2>3. /\ ms \in Seq(Mutex) /\ DOMAIN ms = Mutexes
        /\ \A k \in Mutexes : /\ ms[k].tid = IF Duenio(k) = t THEN Nadie ELSE Duenio(k)
                              /\ ms[k].bloqueados = Cola(k)
    <3>1. \A q \in Mutex : /\ [q EXCEPT !.tid = Nadie] \in Mutex
                           /\ [q EXCEPT !.tid = Nadie].tid = Nadie
                           /\ [q EXCEPT !.tid = Nadie].bloqueados = q.bloqueados
      BY DEF Mutex
    <3>2. \A k \in Mutexes : pcb[1].mutex[k] \in Mutex
      BY <1>1, UnMutex
    <3>3. /\ \A k \in Mutexes : ms[k] \in Mutex
          /\ \A k \in Mutexes : /\ ms[k].tid = IF Duenio(k) = t THEN Nadie ELSE Duenio(k)
                                /\ ms[k].bloqueados = Cola(k)
      BY <3>1, <3>2 DEF Duenio, Cola
    <3>4. pcb[1].mutex \in Seq(Mutex)
      BY <1>1, Primero DEF Tipos, Proceso
    <3>5. Mutexes = 1 .. Len(pcb[1].mutex) /\ Len(pcb[1].mutex) \in Nat
      BY <3>4 DEF Mutexes
    <3>6. ms \in [1 .. Len(pcb[1].mutex) -> Mutex]
      BY <3>3, <3>5
    <3>7. ms \in Seq(Mutex)
      <4> HIDE DEF ms
      <4> QED BY <3>5, <3>6
    <3> QED BY <3>3, <3>7
  <2> HIDE DEF ms, suyos
  <2>4. /\ pcb' \in [Pids -> Proceso] /\ \A p \in Pids \ {1} : pcb'[p].mutex = << >>
        /\ pcb'[1].mutex = ms /\ pcb'[1].tid_contador = pcb[1].tid_contador
    BY <1>1, <1>5, <2>3, OtrosMutexes
  <2>5. /\ Mutexes' = Mutexes
        /\ \A k \in Mutexes : Cola(k)' = Cola(k) /\ Duenio(k)' # t
        /\ \A k \in Mutexes : Duenio(k)' = Duenio(k) \/ (Duenio(k)' = Nadie /\ Cola(k) = << >>)
    BY <1>2, <2>1, <2>3, <2>4 DEF Mutexes, Duenio, Cola
  <2>6. Escrito(d, "EXIT", 0) /\ UNCHANGED <<lista_tcbs, lista_blocked>>
    BY <1>5 DEF Escrito, SinTocar
  <2>7. "EXIT" \in Estados /\ Conserva(d)
    BY <1>1, <2>6 DEF Estados, Conserva, Tipos
  <2>8. /\ Threads' /\ Vivos' = Vivos /\ tcb' \in [Dirs -> Hilo \cup {Liberado}]
        /\ tcb'[d].estado = "EXIT" /\ \A e \in Dirs \ {d} : tcb'[e] = tcb[e]
        /\ \A e \in Vivos : tcb'[e].tid = tcb[e].tid
    BY <1>1, <2>4, <2>6, <2>7, Pasa
  <2>9. ASSUME NEW k \in Mutexes
        PROVE  /\ Duenio(k)' = Nadie => Cola(k)' = << >>
               /\ Duenio(k)' # Nadie => \E e \in Vivos' : tcb'[e].tid = Duenio(k)'
               /\ \A j \in DOMAIN Cola(k)' :
                    \E e \in Vivos' : tcb'[e].tid = Cola(k)'[j] /\ tcb'[e].estado = "BLOCKED"
    <3>1. ASSUME NEW j \in DOMAIN Cola(k)
          PROVE  \E e \in Vivos' : tcb'[e].tid = Cola(k)[j] /\ tcb'[e].estado = "BLOCKED"
      <4>1. PICK e \in Vivos : tcb[e].tid = Cola(k)[j] /\ tcb[e].estado = "BLOCKED"
        BY <1>1, <3>1 DEF MutexesEnOrden
      <4>2. e # d
        BY <1>3, <2>2, <3>1, <4>1 DEF NoEspera
      <4> QED BY <2>8, <4>1, <4>2 DEF Vivos
    <3> QED BY <1>1, <2>5, <2>8, <3>1 DEF MutexesEnOrden
  <2>10. \A k, l \in Mutexes : \A x \in DOMAIN Cola(k)', y \in DOMAIN Cola(l)' :
           Cola(k)'[x] = Cola(l)'[y] => k = l /\ x = y
    BY <1>1, <2>5 DEF MutexesEnOrden
  <2>11. MutexesEnOrden'
    BY <2>5, <2>9, <2>10 DEF MutexesEnOrden
  <2>12. /\ despacho'.fase = "fin_hilo" /\ despacho'.dir = d /\ despacho'.i = i
         /\ despacho'.pid = 1 /\ despacho' \in Atencion
    BY ONLY <1>2, <1>5, i \in Nat DEF Atencion
  <2>13. m \in Mensaje
    BY <1>2, MsgTipo DEF Ops
  <2> HIDE DEF m
  <2>14. Tipos'
    BY <1>1, <1>5, <2>4, <2>6, <2>8, <2>12, <2>13 DEF Tipos, SinTocar
  <2>15. Correo'
    BY <1>1, <1>5, <2>6, <2>12, <2>13, CorreoManda DEF SinTocar
  <2>16. EnCurso'
    BY <1>3, <2>5, <2>6, <2>8, <2>12 DEF EnCurso, EnBucle
  <2> QED BY <2>8, <2>11, <2>14, <2>15, <2>16 DEF IInv, Threads
<1>6. \/ viva' = FALSE /\ UNCHANGED <<pcb, tcb, a_memoria, despacho>>
      \/ /\ ~(\E k \in suyos : Cola(k) # << >>)
         /\ pcb' = [pcb EXCEPT ![1].mutex = ms]
         /\ tcb' = [tcb EXCEPT ![d].estado = "EXIT"]
         /\ a_memoria' = Append(a_memoria, m)
         /\ despacho' = [fase |-> "fin_hilo", dir |-> d, i |-> i, pid |-> 1]
  BY <1>2, <1>3 DEF FinalizarHilo, Mutexes, Duenio, Cola
<1> QED BY <1>4, <1>5, <1>6

LEMMA ThreadExitPaso ==
  ASSUME IInv, NEW d \in Dirs, ThreadExit(d) PROVE IInv'
<1>1. Syscall("THREAD_EXIT", d, Nadie) /\ FinalizarHilo(Invocador(d), 0) /\ UNCHANGED SinTocar
  BY DEF ThreadExit
<1> QED BY <1>1, Llamador, Finaliza

LEMMA ThreadCancelPaso ==
  ASSUME IInv, NEW d \in Dirs, NEW x \in Tids, ThreadCancel(d, x) PROVE IInv'
<1>1. Syscall("THREAD_CANCEL", d, x) /\ FinalizarHilo(Invocador(d), 0) /\ UNCHANGED SinTocar
  BY DEF ThreadCancel
<1> QED BY <1>1, Llamador, Finaliza

LEMMA RecorrerHilosPaso ==
  ASSUME IInv, RecorrerHilos PROVE IInv'
<1>1. Tipos /\ EnCurso /\ HilosEnOrden
  BY DEF IInv
<1>2. /\ despacho.fase = "recorre" /\ UNCHANGED SinTocar /\ a_cpu' = a_cpu
  BY DEF RecorrerHilos, planificacion
<1>3. a_cpu # << >> /\ despacho.pid = 1 /\ Len(lista_tcbs) <= 1 /\ lista_tcbs \in Seq(Dirs)
  BY <1>1, <1>2 DEF EnCurso, EnBucle, Tipos
<1>4. PICK j \in DelProceso(1, despacho.i) : FinalizarHilo(lista_tcbs[j], j)
  BY <1>3 DEF RecorrerHilos
<1>5. j \in DOMAIN lista_tcbs /\ tcb[lista_tcbs[j]].pid = 1
  BY <1>4 DEF DelProceso
<1>6. j \in Nat /\ lista_tcbs[j] \in Dirs /\ \A k \in DOMAIN lista_tcbs : k = j
  BY <1>3, <1>5
<1>7. lista_tcbs[j] \in Vivos
  BY <1>1, <1>5, <1>6, Vivo
<1>8. Vivos = {lista_tcbs[j]}
  BY <1>1, <1>6, <1>7 DEF HilosEnOrden
<1> QED BY <1>2, <1>3, <1>4, <1>6, <1>7, <1>8, Finaliza

-----------------------------------------------------------------------------
(* What follows a system call *)

LEMMA FinIOPaso ==
  ASSUME IInv, FinIO PROVE IInv'
<1>1. Tipos /\ Threads /\ MutexesEnOrden /\ Correo /\ EnCurso
  BY DEF IInv, Threads
<1>2. /\ despacho.fase = "io" /\ despacho' = Escucha
      /\ UNCHANGED <<planificacion, procesos, lista_tcbs, canales>>
  BY DEF FinIO
<1>3. PICK d \in Vivos : d = despacho.dir /\ NoEspera(tcb[d].tid)
  BY <1>1, <1>2 DEF EnCurso
<1>4. Escrito(d, "READY", 0) /\ lista_blocked' = RemoveFirst(lista_blocked, d)
  BY <1>3 DEF FinIO, Escrito
<1>5. Conserva(d)
  <2>1. PICK S : lista_blocked \in Seq(S)
    BY <1>1 DEF Tipos
  <2> QED BY <1>4, <2>1, QuedanLosDemas DEF Conserva
<1>6. "READY" \in Estados /\ pcb'[1].tid_contador = pcb[1].tid_contador
  BY <1>2 DEF Estados, procesos
<1>7. /\ Threads' /\ Vivos' = Vivos /\ tcb' \in [Dirs -> Hilo \cup {Liberado}]
      /\ \A e \in Dirs \ {d} : tcb'[e] = tcb[e]
      /\ \A e \in Vivos : tcb'[e].tid = tcb[e].tid
  BY <1>1, <1>2, <1>4, <1>5, <1>6, Pasa
<1>8. despacho' \in Atencion /\ despacho'.fase = "escucha"
  BY <1>2 DEF Escucha, Atencion, Basura
<1>9. Tipos'
  BY <1>1, <1>2, <1>5, <1>7, <1>8 DEF Tipos, Conserva, procesos, canales
<1>10. MutexesEnOrden'
  BY <1>1, <1>2, <1>3, <1>7, MutexesQuedan DEF procesos, Vivos
<1>11. Correo'
  BY <1>1, <1>2, CorreoQuieto DEF canales, planificacion
<1>12. EnCurso'
  BY <1>8, EnCursoNuevo
<1> QED BY <1>7, <1>9, <1>10, <1>11, <1>12 DEF IInv, Threads

\* The thread that ends is the only one of lista_blocked it can bring back: the others
\* are blocked by themselves.
LEMMA FinHiloTcb ==
  ASSUME IInv, FinHilo
  PROVE  /\ Threads' /\ despacho.dir \in Vivos /\ Vivos' = Vivos \ {despacho.dir}
         /\ \A e \in Vivos' : tcb'[e] = tcb[e]
         /\ tcb' \in [Dirs -> Hilo \cup {Liberado}]
         /\ \E S : lista_blocked' \in Seq(S)
<1>1. Tipos /\ Threads /\ EnCurso /\ TidsUnicos /\ HilosEnOrden /\ BloqueadoEnLista
  BY DEF IInv, Threads
<1>2. despacho.fase = "fin_hilo" /\ UNCHANGED <<lista_tcbs, procesos>>
  BY DEF FinHilo
<1>3. PICK d \in Vivos : d = despacho.dir /\ tcb[d].estado = "EXIT"
  BY <1>1, <1>2 DEF EnCurso
<1>4. PICK S : lista_blocked \in Seq(S)
  BY <1>1 DEF Tipos
<1>5. PICK I \in SUBSET DOMAIN lista_blocked : I = Desbloqueables(d)
  BY DEF Desbloqueables
<1>6. /\ lista_blocked' = EnPosiciones(lista_blocked, DOMAIN lista_blocked \ I)
      /\ tcb' = [e \in Dirs |->
                   IF e = d THEN Liberado
                   ELSE IF \E i \in I : lista_blocked[i] = e
                   THEN [tcb[e] EXCEPT !.estado = "READY", !.bloqueo = Nadie, !.join = Nadie]
                   ELSE tcb[e]]
  BY <1>3, <1>5 DEF FinHilo
<1>7. d \in Dirs /\ tcb[d].pid = 1 /\ tcb[d].tid \in Nat
  BY <1>1, Vivo DEF Hilo
<1>8. ASSUME NEW i \in I, lista_blocked[i] \in Dirs PROVE lista_blocked[i] = d
  <2>1. PICK e \in Dirs : e = lista_blocked[i]
    BY <1>8
  <2>2. tcb[e].pid = 1 /\ tcb[e].bloqueo = tcb[d].tid
    BY <1>5, <1>7, <2>1 DEF Desbloqueables
  <2>3. e \in Vivos
    BY <1>1, <2>2, Vivo
  <2>4. tcb[d].tid # Nadie
    BY <1>7 DEF Nadie
  <2>5. tcb[e].tid = tcb[d].tid
    BY <1>1, <2>2, <2>3, <2>4 DEF HilosEnOrden
  <2> QED BY <1>1, <1>7, <2>1, <2>2, <2>3, <2>5 DEF TidsUnicos
<1>9. tcb'[d] = Liberado /\ \A e \in Dirs \ {d} : tcb'[e] = tcb[e]
  <2>1. \A e \in Dirs \ {d} : ~(\E i \in I : lista_blocked[i] = e)
    BY <1>8
  <2> QED BY <1>6, <1>7, <2>1
<1>10. Vivos' = Vivos \ {d} /\ \A e \in Vivos' : tcb'[e] = tcb[e] /\ e \in Vivos
  BY <1>9 DEF Vivos
<1>11. tcb' \in [Dirs -> Hilo \cup {Liberado}]
  <2>1. tcb' = [e \in Dirs |-> tcb'[e]]
    BY <1>6
  <2>2. \A e \in Dirs : tcb'[e] \in Hilo \cup {Liberado}
    BY <1>1, <1>9 DEF Tipos
  <2> QED BY ONLY <2>1, <2>2
<1>12. /\ \E T : lista_blocked' \in Seq(T)
       /\ \A i \in DOMAIN lista_blocked \ I :
            \E k \in DOMAIN lista_blocked' : lista_blocked'[k] = lista_blocked[i]
  <2>1. PICK J \in SUBSET DOMAIN lista_blocked : J = DOMAIN lista_blocked \ I
    OBVIOUS
  <2>2. lista_blocked' = EnPosiciones(lista_blocked, J)
    BY <1>6, <2>1
  <2> QED BY <1>4, <2>1, <2>2, Quedan
<1>13. BloqueadoEnLista'
  <2> SUFFICES ASSUME NEW e \in Vivos', tcb'[e].estado = "BLOCKED"
               PROVE  \E k \in DOMAIN lista_blocked' : lista_blocked'[k] = e
    BY DEF BloqueadoEnLista
  <2>1. PICK i \in DOMAIN lista_blocked : lista_blocked[i] = e
    BY <1>1, <1>10 DEF BloqueadoEnLista
  <2>2. i \notin I
    BY <1>8, <1>10, <2>1 DEF Vivos
  <2> QED BY <1>12, <2>1, <2>2
<1>14. TidsUnicos' /\ HilosEnOrden'
  BY <1>1, <1>2, <1>10 DEF TidsUnicos, HilosEnOrden, procesos
<1> QED BY <1>3, <1>10, <1>11, <1>12, <1>13, <1>14 DEF Threads

LEMMA FinHiloPaso ==
  ASSUME IInv, FinHilo PROVE IInv'
<1>1. Tipos /\ MutexesEnOrden /\ Correo /\ EnCurso /\ HilosEnOrden
  BY DEF IInv
<1>2. /\ despacho.fase = "fin_hilo" /\ UNCHANGED <<planificacion, procesos, lista_tcbs, a_memoria>>
      /\ despacho' = IF despacho.i = 0 THEN Escucha
                     ELSE [despacho EXCEPT !.fase = "recorre", !.dir = NULL, !.i = despacho.i + 1]
  BY DEF FinHilo
<1>3. /\ Threads' /\ despacho.dir \in Vivos /\ Vivos' = Vivos \ {despacho.dir}
      /\ \A e \in Vivos' : tcb'[e] = tcb[e]
      /\ tcb' \in [Dirs -> Hilo \cup {Liberado}]
      /\ \E S : lista_blocked' \in Seq(S)
  BY FinHiloTcb
<1>4. /\ a_cpu # << >> /\ a_cpu' = a_cpu /\ despacho.pid = 1
      /\ tcb[despacho.dir].estado = "EXIT"
      /\ \A k \in Mutexes : Duenio(k) # tcb[despacho.dir].tid
      /\ despacho.i # 0 => Len(lista_tcbs) <= 1
      /\ despacho \in Atencion /\ despacho.i \in Nat
  BY <1>1, <1>2 DEF EnCurso, EnBucle, planificacion, Tipos, Atencion
<1>5. /\ despacho' \in Atencion
      /\ despacho.i = 0 => despacho'.fase = "escucha"
      /\ despacho.i # 0 => /\ despacho'.fase = "recorre" /\ despacho'.pid = 1
                           /\ despacho'.i = despacho.i + 1
  <2>1. CASE despacho.i = 0
    BY <1>2, <2>1 DEF Escucha, Atencion, Basura
  <2>2. CASE despacho.i # 0
    <3>1. despacho = [fase |-> despacho.fase, dir |-> despacho.dir, i |-> despacho.i,
                      pid |-> despacho.pid]
      BY <1>4 DEF Atencion
    <3>2. despacho' = [fase |-> "recorre", dir |-> NULL, i |-> despacho.i + 1, pid |-> 1]
      BY <1>2, <1>4, <2>2, <3>1
    <3> QED BY <1>4, <2>2, <3>2 DEF Atencion
  <2> QED BY <2>1, <2>2
<1>6. PICK ok : LeerRespuesta(ok)
  BY DEF FinHilo
<1>7. Envenenado \/ UnCorreo
  BY <1>1 DEF Correo, SinCorreo, UnCorreo
<1>8. /\ de_memoria' \in Seq(Mensaje) /\ desfasado' \in BOOLEAN
      /\ Envenenado' \/ SinCorreo'
      /\ Envenenado => Envenenado'
  BY <1>1, <1>2, <1>6, <1>7, Lee
<1>10. Tipos'
  BY <1>1, <1>2, <1>3, <1>5, <1>8 DEF Tipos, procesos
<1>11. Correo'
  BY <1>1, <1>2, <1>4, <1>8 DEF Correo
<1>12. MutexesEnOrden'
  <2>1. /\ Mutexes' = Mutexes
        /\ \A k \in Mutexes : Duenio(k)' = Duenio(k) /\ Cola(k)' = Cola(k)
    BY <1>2 DEF Mutexes, Duenio, Cola, procesos
  <2>2. ASSUME NEW k \in Mutexes, NEW i \in DOMAIN Cola(k)
        PROVE  \E e \in Vivos' : tcb'[e].tid = Cola(k)[i] /\ tcb'[e].estado = "BLOCKED"
    <3>1. PICK e \in Vivos : tcb[e].tid = Cola(k)[i] /\ tcb[e].estado = "BLOCKED"
      BY <1>1 DEF MutexesEnOrden
    <3>2. e # despacho.dir
      BY <1>4, <3>1
    <3> QED BY <1>3, <3>1, <3>2
  <2>3. ASSUME NEW k \in Mutexes, Duenio(k) # Nadie
        PROVE  \E e \in Vivos' : tcb'[e].tid = Duenio(k)
    <3>1. PICK e \in Vivos : tcb[e].tid = Duenio(k)
      BY <1>1, <2>3 DEF MutexesEnOrden
    <3> QED BY <1>3, <1>4, <3>1
  <2>4. /\ \A k \in Mutexes : Duenio(k) = Nadie => Cola(k) = << >>
        /\ \A k, l \in Mutexes : \A i \in DOMAIN Cola(k), j \in DOMAIN Cola(l) :
             Cola(k)[i] = Cola(l)[j] => k = l /\ i = j
    BY <1>1 DEF MutexesEnOrden
  <2> QED BY <2>1, <2>2, <2>3, <2>4 DEF MutexesEnOrden
<1>13. EnCurso'
  <2>1. CASE despacho.i = 0
    BY <1>5, <2>1, EnCursoNuevo
  <2>2. CASE despacho.i # 0
    <3>1. Vivos' = {}
      <4>1. lista_tcbs \in Seq(Dirs) /\ Len(lista_tcbs) <= 1
        BY <1>1, <1>4, <2>2 DEF Tipos
      <4>2. \A i, j \in DOMAIN lista_tcbs : i = j
        BY ONLY <4>1
      <4>3. \A e \in Vivos : e = despacho.dir
        BY <1>1, <1>3, <4>2 DEF HilosEnOrden
      <4> QED BY <1>3, <4>3
    <3>2. despacho.i + 1 # 0
      BY <1>4
    <3> QED BY <1>2, <1>4, <1>5, <2>2, <3>1, <3>2 DEF EnCurso, EnBucle
  <2> QED BY <2>1, <2>2
<1> QED BY <1>3, <1>10, <1>11, <1>12, <1>13 DEF IInv, Threads

\* "OK" is the reply only when a single TCB was ever made.
LEMMA RespuestaFinProcesoPaso ==
  ASSUME IInv, RespuestaFinProceso PROVE IInv'
<1>1. Tipos /\ Threads /\ MutexesEnOrden /\ Correo /\ EnCurso
  BY DEF IInv, Threads
<1>2. despacho.fase = "fin_proceso" /\ UNCHANGED <<planificacion, procesos, hilos, a_memoria>>
  BY DEF RespuestaFinProceso
<1>3. PICK ok : /\ LeerRespuesta(ok)
                /\ \/ ok /\ despacho' = [despacho EXCEPT !.fase = "recorre", !.i = 1]
                   \/ ~ok /\ despacho' = Escucha
  BY DEF RespuestaFinProceso
<1>4. Envenenado \/ UnCorreo
  BY <1>1 DEF Correo, SinCorreo, UnCorreo
<1>5. /\ de_memoria' \in Seq(Mensaje) /\ desfasado' \in BOOLEAN
      /\ Envenenado' \/ SinCorreo'
      /\ Envenenado => Envenenado'
      /\ ok => ~Envenenado
  BY <1>1, <1>2, <1>3, <1>4, Lee
<1>6. /\ a_cpu # << >> /\ a_cpu' = a_cpu /\ despacho.pid = 1 /\ despacho \in Atencion
  BY <1>1, <1>2 DEF EnCurso, planificacion, Tipos
<1>7. /\ despacho' \in Atencion
      /\ ok => despacho'.fase = "recorre" /\ despacho'.pid = 1 /\ despacho'.i = 1
      /\ ~ok => despacho'.fase = "escucha"
  <2>1. CASE ok
    <3>1. despacho = [fase |-> despacho.fase, dir |-> despacho.dir, i |-> despacho.i,
                      pid |-> despacho.pid] /\ despacho.dir \in Dirs \cup {NULL}
      BY <1>6 DEF Atencion
    <3>2. despacho' = [fase |-> "recorre", dir |-> despacho.dir, i |-> 1, pid |-> 1]
      BY <1>3, <1>6, <2>1, <3>1
    <3> QED BY <2>1, <3>1, <3>2 DEF Atencion
  <2>2. CASE ~ok
    BY <1>3, <2>2 DEF Escucha, Atencion, Basura
  <2> QED BY <2>1, <2>2
<1>8. Tipos'
  BY <1>1, <1>2, <1>5, <1>7 DEF Tipos, procesos, hilos
<1>9. Threads' /\ MutexesEnOrden'
  BY <1>1, <1>2 DEF Threads, TidsUnicos, HilosEnOrden, BloqueadoEnLista, Vivos, hilos,
     MutexesEnOrden, Mutexes, Duenio, Cola, procesos
<1>10. Correo'
  BY <1>1, <1>2, <1>5, <1>6 DEF Correo, hilos
<1>11. EnCurso'
  <2>1. CASE ok
    <3>1. Len(lista_tcbs) <= 1
      <4>1. ~(Len(lista_tcbs) > 1)
        BY <1>1, <1>5, <1>6, <2>1 DEF Correo
      <4>2. Len(lista_tcbs) \in Nat
        BY <1>1 DEF Tipos
      <4> QED BY <4>1, <4>2
    <3> QED BY <1>2, <1>6, <1>7, <2>1, <3>1 DEF EnCurso, EnBucle, hilos
  <2>2. CASE ~ok
    BY <1>7, <2>2, EnCursoNuevo
  <2> QED BY <2>1, <2>2
<1> QED BY <1>8, <1>9, <1>10, <1>11 DEF IInv, Threads

LEMMA PedidoTipo ==
  ASSUME Tipos PROVE PedidoDeMemoria \in Mensaje /\ PedidoDeMemoria.op = "ASIGNAR_MEMORIA"
<1>1. cola_new # << >> => Head(cola_new) \in Int
  BY DEF Tipos
<1> DEFINE p == IF cola_new = << >> THEN Basura ELSE Head(cola_new)
<1>2. p \in Int /\ Nadie \in Int
  BY <1>1 DEF Nadie, Basura
<1>3. PedidoDeMemoria = Msg("ASIGNAR_MEMORIA", p, Nadie, Nadie)
  BY DEF PedidoDeMemoria
<1> HIDE DEF p
<1> QED BY <1>2, <1>3, MsgTipo, MsgOp DEF Ops

LEMMA FinProcesoPaso ==
  ASSUME IInv, FinProceso PROVE IInv'
<1>1. Tipos /\ Threads /\ MutexesEnOrden /\ Correo /\ EnCurso /\ HilosEnOrden
  BY DEF IInv, Threads
<1>2. /\ despacho.fase = "recorre" /\ despacho' = Escucha
      /\ a_memoria' = Append(a_memoria, PedidoDeMemoria)
      /\ UNCHANGED <<planificacion, pid, cola_new, hilos, de_memoria, desfasado>>
  BY DEF FinProceso
<1>3. /\ despacho.pid = 1 /\ a_cpu # << >> /\ a_cpu' = a_cpu
      /\ despacho.i # 1 => Vivos = {}
  BY <1>1, <1>2 DEF EnCurso, planificacion
<1>4. Vivos = {}
  <2> SUFFICES ASSUME NEW d \in Vivos, despacho.i = 1 PROVE FALSE
    BY <1>3
  <2>1. PICK j \in DOMAIN lista_tcbs : lista_tcbs[j] = d
    BY <1>1 DEF HilosEnOrden
  <2>2. tcb[d].pid = 1 /\ j >= 1
    BY <1>1, <2>1, Vivo DEF Hilo, Tipos
  <2> QED BY <1>3, <2>1, <2>2 DEF FinProceso, DelProceso
<1>5. /\ pcb' \in [Pids -> Proceso] /\ \A p \in Pids \ {1} : pcb'[p].mutex = << >>
      /\ pcb'[1].mutex = pcb[1].mutex
  <2>1. pcb' = [pcb EXCEPT ![1].estado = "EXIT", ![1].tid_contador = Nadie]
    BY <1>3 DEF FinProceso
  <2>2. pcb' = [pcb EXCEPT ![1] = [pcb[1] EXCEPT !.estado = "EXIT", !.tid_contador = Nadie]]
    BY <1>1, <2>1, Primero DEF Tipos, Proceso
  <2>3. PICK q : q = [pcb[1] EXCEPT !.estado = "EXIT", !.tid_contador = Nadie]
    OBVIOUS
  <2>4. pcb[1] = [estado |-> pcb[1].estado, tid_contador |-> pcb[1].tid_contador,
                  mutex |-> pcb[1].mutex] /\ pcb[1].mutex \in Seq(Mutex)
    BY <1>1, Primero DEF Tipos, Proceso
  <2>5. q = [estado |-> q.estado, tid_contador |-> q.tid_contador, mutex |-> q.mutex]
        /\ q.estado = "EXIT" /\ q.tid_contador = Nadie /\ q.mutex = pcb[1].mutex
    BY <2>3, <2>4
  <2>6. q \in Proceso
    <3>1. Nadie \in Int
      BY DEF Nadie
    <3> QED BY ONLY <2>4, <2>5, <3>1 DEF Proceso
  <2>7. pcb' = [pcb EXCEPT ![1] = q]
    BY <2>2, <2>3
  <2> QED BY <1>1, <2>5, <2>6, <2>7, Primero DEF Tipos
<1>6. Vivos' = {}
  BY <1>2, <1>4 DEF Vivos, hilos
<1>7. Threads'
  BY <1>6 DEF Threads, TidsUnicos, HilosEnOrden, BloqueadoEnLista
<1>8. despacho' \in Atencion /\ despacho'.fase = "escucha"
  BY <1>2 DEF Escucha, Atencion, Basura
<1>9. PICK m \in Mensaje : m.op = "ASIGNAR_MEMORIA" /\ a_memoria' = Append(a_memoria, m)
  BY <1>1, <1>2, PedidoTipo
<1>10. Tipos'
  BY <1>1, <1>2, <1>5, <1>8, <1>9 DEF Tipos, hilos
<1>11. MutexesEnOrden'
  BY <1>1, <1>4, <1>5, MutexesQuedan
<1>12. Correo'
  BY <1>1, <1>2, <1>3, <1>9, CorreoManda DEF hilos, Finales
<1>13. EnCurso'
  BY <1>8, EnCursoNuevo
<1> QED BY <1>7, <1>10, <1>11, <1>12, <1>13 DEF IInv, Threads

-----------------------------------------------------------------------------
(* The start-up, and the messages with memoria *)

LEMMA LargoPlazoPaso ==
  ASSUME IInv, LargoPlazo PROVE IInv'
<1>1. Tipos /\ Correo
  BY DEF IInv
<1>2. PICK m \in Mensaje : m.op = "ASIGNAR_MEMORIA" /\ a_memoria' = Append(a_memoria, m)
  BY <1>1, PedidoTipo DEF LargoPlazo
<1>3. UNCHANGED <<a_cpu, procesos, hilos, de_memoria, desfasado, despacho>>
  BY DEF LargoPlazo
<1>4. /\ a_memoria' \in Seq(Mensaje)
      /\ Envenenado => Envenenado'
      /\ SinCorreo => SinCorreo'
      /\ UnCorreo => UnCorreo'
  <2>1. m.op \notin Finales
    BY <1>2 DEF Finales
  <2> QED BY <1>1, <1>2, <1>3, <2>1, Manda DEF SinCorreo, UnCorreo
<1>5. Correo'
  BY <1>1, <1>3, <1>4 DEF Correo, hilos
<1> QED
  BY <1>3, <1>4, <1>5 DEF IInv, Tipos, TidsUnicos, HilosEnOrden, BloqueadoEnLista,
     MutexesEnOrden, EnCurso, Vivos, Mutexes, Duenio, Cola, NoEspera, EnBucle, procesos, hilos

LEMMA MemoriaAtiendePaso ==
  ASSUME IInv, MemoriaAtiende PROVE IInv'
<1>1. Tipos /\ Correo
  BY DEF IInv
<1>2. UNCHANGED <<a_cpu, procesos, hilos, desfasado, despacho>>
  BY DEF MemoriaAtiende, planificacion
<1>3. /\ a_memoria' \in Seq(Mensaje) /\ de_memoria' \in Seq(Mensaje)
      /\ Envenenado => Envenenado'
      /\ SinCorreo => SinCorreo'
      /\ UnCorreo => UnCorreo'
  BY <1>1, Atiende
<1>4. Correo'
  BY <1>1, <1>2, <1>3 DEF Correo, hilos
<1> QED
  BY <1>2, <1>3, <1>4 DEF IInv, Tipos, TidsUnicos, HilosEnOrden, BloqueadoEnLista,
     MutexesEnOrden, EnCurso, Vivos, Mutexes, Duenio, Cola, NoEspera, EnBucle, procesos, hilos

\* What the start-up has in common before the dispatch.
LEMMA SinDespacho ==
  ASSUME IInv, Fase, oyente # "corto" \/ Listo
  PROVE  /\ a_cpu = << >> /\ despacho = Escucha /\ despacho.fase = "escucha"
         /\ Len(lista_tcbs) <= 1 /\ SinCorreo
         /\ \A d \in Vivos : tcb[d].estado = "READY"
<1>1. a_cpu = << >> /\ despacho = Escucha /\ (EnNew \/ HiloCreado)
  BY DEF Fase, EnNew, Creando, Listo, Despachado, Quieto
<1>2. Len(lista_tcbs) <= 1 /\ SinCorreo
  BY <1>1 DEF IInv, Correo
<1>3. ASSUME NEW d \in Vivos PROVE tcb[d].estado = "READY"
  <2>1. CASE EnNew
    BY <2>1 DEF EnNew, Vivos
  <2>2. ASSUME NEW e \in Dirs, lista_tcbs = <<e>>,
               tcb[e] = [Liberado EXCEPT !.pid = 1, !.tid = 0, !.estado = "READY"]
        PROVE  tcb[d].estado = "READY"
    <3>1. d = e
      BY <2>2 DEF IInv, HilosEnOrden
    <3>2. tcb[e].estado = "READY"
      <4>1. \A h : h = [Liberado EXCEPT !.pid = 1, !.tid = 0, !.estado = "READY"] =>
              h.estado = "READY"
        BY HiloNuevo
      <4> QED BY <2>2, <4>1, Zenon
    <3> QED BY <3>1, <3>2
  <2> QED BY <1>1, <2>1, <2>2 DEF HiloCreado
<1> QED BY <1>1, <1>2, <1>3, EscuchaFase

LEMMA PostLargoPlazoPaso ==
  ASSUME IInv, PostLargoPlazo PROVE IInv'
BY Igual DEF PostLargoPlazo, procesos, hilos, canales

\* A reply of the start-up is read: there is nothing else on its way.
LEMMA CorreoLeido ==
  ASSUME Tipos, SinCorreo, a_cpu = << >>, a_cpu' = a_cpu, de_memoria # << >>,
         de_memoria' = Tail(de_memoria), Len(lista_tcbs') <= 1,
         \/ a_memoria' = a_memoria
         \/ \E m \in Mensaje : m.op \notin Finales /\ a_memoria' = Append(a_memoria, m)
  PROVE  Correo' /\ de_memoria' \in Seq(Mensaje) /\ a_memoria' \in Seq(Mensaje)
<1>1. Respuestas' = {} /\ de_memoria' \in Seq(Mensaje)
  BY Saca DEF SinCorreo
<1>2. Pedidos' = {} /\ a_memoria' \in Seq(Mensaje)
  <2>1. CASE a_memoria' = a_memoria
    BY <2>1 DEF SinCorreo, Pedidos, Tipos
  <2>2. ASSUME NEW m \in Mensaje, m.op \notin Finales, a_memoria' = Append(a_memoria, m)
        PROVE  Pedidos' = {} /\ a_memoria' \in Seq(Mensaje)
    <3>1. PICK n \in Nat :
            /\ DOMAIN a_memoria = 1 .. n /\ DOMAIN a_memoria' = 1 .. n + 1
            /\ a_memoria' \in Seq(Mensaje) /\ a_memoria'[n + 1] = m
            /\ \A i \in 1 .. n : a_memoria'[i] = a_memoria[i]
      <4>1. \A c \in Seq(Mensaje) :
              /\ Len(c) \in Nat /\ DOMAIN c = 1 .. Len(c) /\ DOMAIN Append(c, m) = 1 .. Len(c) + 1
              /\ Append(c, m) \in Seq(Mensaje) /\ Append(c, m)[Len(c) + 1] = m
              /\ \A i \in 1 .. Len(c) : Append(c, m)[i] = c[i]
        OBVIOUS
      <4>2. a_memoria \in Seq(Mensaje)
        BY DEF Tipos
      <4> QED BY <2>2, <4>1, <4>2, Zenon
    <3>2. \A i \in 1 .. n + 1 : i \in 1 .. n \/ i = n + 1
      OBVIOUS
    <3> QED BY <2>2, <3>1, <3>2 DEF SinCorreo, Pedidos
  <2> QED BY <2>1, <2>2
<1> QED BY <1>1, <1>2 DEF Correo, SinCorreo

LEMMA ConfirmarEspacioProcesoPaso ==
  ASSUME IInv, Fase, ConfirmarEspacioProceso PROVE IInv'
<1>1. Tipos /\ Threads /\ MutexesEnOrden
  BY DEF IInv, Threads
<1>2. /\ oyente = "escucha" /\ de_memoria # << >> /\ de_memoria' = Tail(de_memoria)
      /\ Head(de_memoria).op = "CONFIRMAR_ESPACIO_PROCESO"
      /\ UNCHANGED <<a_cpu, pid, pcb, lista_blocked, desfasado, despacho>>
  BY DEF ConfirmarEspacioProceso, Recibe
<1>3. /\ a_cpu = << >> /\ despacho.fase = "escucha" /\ Len(lista_tcbs) <= 1 /\ SinCorreo
  BY <1>2, SinDespacho
<1>4. EnNew
  BY <1>2, MsgOp DEF Fase, Creando, AltaPrimero, AltaOk, Listo, Despachado
<1>5. PICK bit \in {1, Nadie} : de_memoria = <<Msg("CONFIRMAR_ESPACIO_PROCESO", 1, Nadie, bit)>>
  BY <1>2, <1>4 DEF EnNew, ConPedidoInicial
<1>6. Head(de_memoria).pid = 1
  BY <1>5 DEF Msg
<1>7. EnCurso'
  BY <1>2, <1>3, EnCursoNuevo
<1>8. CASE UNCHANGED <<cola_new, tcb, lista_tcbs, a_memoria>>
  <2>1. Correo' /\ de_memoria' \in Seq(Mensaje)
    BY <1>1, <1>2, <1>3, <1>8, CorreoLeido
  <2> QED
    BY <1>1, <1>2, <1>7, <1>8, <2>1 DEF IInv, Tipos, Threads, TidsUnicos, HilosEnOrden,
       BloqueadoEnLista, MutexesEnOrden, Vivos, Mutexes, Duenio, Cola
<1>9. CASE CrearHiloMain(1)
  <2>1. 1 \in Pids /\ pcb[1].estado # "NO" /\ cola_new # << >> /\ Head(cola_new) = 1
        /\ Tail(cola_new) = << >> /\ pcb[1].tid_contador = 0 /\ pcb[1].mutex = << >>
    BY <1>4, Primero DEF EnNew, ProcesoNuevo, SinCrear
  <2>2. /\ cola_new' = << >> /\ a_memoria' = Append(a_memoria, Alta)
        /\ \E d \in Dirs : AgregarHilo(d, 1, 0)
    BY <1>9, <2>1 DEF CrearHiloMain, Alta
  <2>3. PICK d \in Dirs : AgregarHilo(d, 1, 0)
    BY <2>2
  <2>4. Vivos = {} /\ lista_tcbs = << >>
    BY <1>4 DEF EnNew, Vivos
  <2>5. /\ Threads' /\ Vivos' = {d} /\ tcb' \in [Dirs -> Hilo \cup {Liberado}]
        /\ lista_tcbs' \in Seq(Dirs)
    BY <1>1, <1>2, <2>1, <2>3, <2>4, Nace
  <2>6. Len(lista_tcbs') <= 1
    BY <2>3, <2>4 DEF AgregarHilo
  <2>7. Alta \in Mensaje /\ Alta.op \notin Finales
    BY MsgTipo, MsgOp DEF Alta, Ops, Nadie, Finales
  <2>8. Correo' /\ de_memoria' \in Seq(Mensaje) /\ a_memoria' \in Seq(Mensaje)
    BY <1>1, <1>2, <1>3, <2>2, <2>6, <2>7, CorreoLeido
  <2>9. MutexesEnOrden'
    BY <1>2, <2>1 DEF MutexesEnOrden, Mutexes
  <2>10. Tipos'
    BY <1>1, <1>2, <2>2, <2>5, <2>8 DEF Tipos
  <2> QED BY <1>7, <2>5, <2>8, <2>9, <2>10 DEF IInv, Threads
<1> QED BY <1>6, <1>8, <1>9 DEF ConfirmarEspacioProceso

LEMMA ConfirmarCreacionHiloPaso ==
  ASSUME IInv, Fase, ConfirmarCreacionHilo PROVE IInv'
<1>1. Tipos /\ Threads /\ MutexesEnOrden
  BY DEF IInv, Threads
<1>2. /\ oyente = "escucha" /\ de_memoria # << >> /\ de_memoria' = Tail(de_memoria)
      /\ UNCHANGED <<a_cpu, procesos, tcb, lista_tcbs, lista_blocked, a_memoria, desfasado,
                     despacho>>
  BY DEF ConfirmarCreacionHilo, Recibe
<1>3. /\ a_cpu = << >> /\ despacho.fase = "escucha" /\ Len(lista_tcbs) <= 1 /\ SinCorreo
  BY <1>2, SinDespacho
<1>4. EnCurso'
  BY <1>2, <1>3, EnCursoNuevo
<1>5. Correo' /\ de_memoria' \in Seq(Mensaje)
  BY <1>1, <1>2, <1>3, CorreoLeido
<1> QED
  BY <1>1, <1>2, <1>4, <1>5 DEF IInv, Tipos, Threads, TidsUnicos, HilosEnOrden, procesos,
     BloqueadoEnLista, MutexesEnOrden, Vivos, Mutexes, Duenio, Cola

LEMMA CortoPlazoPaso ==
  ASSUME IInv, Fase, CortoPlazo PROVE IInv'
<1>1. Tipos /\ Threads /\ MutexesEnOrden
  BY DEF IInv, Threads
<1>2. /\ oyente = "corto" /\ TCBaPlanificar > 0
      /\ UNCHANGED <<procesos, lista_tcbs, lista_blocked, canales, despacho>>
  BY DEF CortoPlazo
<1>3. Listo
  BY <1>2 DEF Fase, EnNew, Creando, Despachado
<1>4. /\ despacho.fase = "escucha" /\ Len(lista_tcbs) <= 1 /\ SinCorreo
      /\ \A e \in Vivos : tcb[e].estado = "READY"
  BY <1>3, SinDespacho
<1>5. PICK d \in Dirs : lista_tcbs = <<d>>
                        /\ tcb[d] = [Liberado EXCEPT !.pid = 1, !.tid = 0, !.estado = "READY"]
  BY <1>3 DEF Listo, HiloCreado
<1>6. tcb[d] # Liberado /\ d \in Vivos
  BY ZenonT(60), <1>5, HiloNuevo DEF Vivos
<1>7. lista_ready # << >> /\ Head(lista_ready) = d
  BY <1>3, <1>5 DEF Listo
<1>8. /\ tcb' = [tcb EXCEPT ![d].estado = "EXEC"]
      /\ a_cpu' = Append(a_cpu, <<tcb[d].pid, tcb[d].tid>>) /\ a_cpu = << >>
  BY <1>3, <1>6, <1>7 DEF CortoPlazo, Listo, Quieto
<1>9. Escrito(d, "EXEC", 0) /\ "EXEC" \in Estados /\ Conserva(d)
      /\ pcb'[1].tid_contador = pcb[1].tid_contador
  BY <1>1, <1>2, <1>8 DEF Escrito, Estados, Conserva, Tipos, procesos
<1>10. /\ Threads' /\ Vivos' = Vivos /\ tcb' \in [Dirs -> Hilo \cup {Liberado}]
       /\ \A e \in Vivos : tcb'[e].tid = tcb[e].tid
  BY <1>1, <1>2, <1>6, <1>9, Pasa
<1>11. MutexesEnOrden'
  BY <1>1, <1>2, <1>4, <1>10, MutexesQuedan DEF procesos
<1>12. Tipos'
  BY <1>1, <1>2, <1>10 DEF Tipos, procesos, canales
<1>13. Correo'
  <2>1. SinCorreo'
    BY <1>2, <1>4 DEF SinCorreo, Pedidos, Respuestas, canales
  <2>2. a_cpu' # << >>
    BY <1>8
  <2>3. ~(Len(lista_tcbs) > 1)
    BY <1>5
  <2> QED BY <1>2, <2>1, <2>2, <2>3 DEF Correo
<1>14. EnCurso'
  BY <1>2, <1>4, EnCursoNuevo
<1> QED BY <1>10, <1>11, <1>12, <1>13, <1>14 DEF IInv, Threads

-----------------------------------------------------------------------------

LEMMA IInvInicial == Init => IInv
<1> SUFFICES ASSUME Init PROVE IInv
  OBVIOUS
<1>1. /\ tcb = [d \in Dirs |-> Liberado] /\ lista_tcbs = << >> /\ lista_blocked = << >>
      /\ pid = 1 /\ cola_new = <<1>> /\ a_memoria = << >> /\ de_memoria = << >>
      /\ a_cpu = << >> /\ desfasado = FALSE /\ despacho = Escucha
      /\ pcb = [p \in Pids |-> IF p = 1 THEN ProcesoNuevo ELSE SinCrear]
  BY DEF Init
<1>2. Vivos = {}
  BY <1>1 DEF Vivos
<1>3. SinCrear = [estado |-> "NO", tid_contador |-> 0, mutex |-> << >>]
      /\ SinCrear \in Proceso /\ SinCrear.mutex = << >>
  BY DEF SinCrear, Proceso
<1>4. ProcesoNuevo \in Proceso /\ ProcesoNuevo.mutex = << >>
  BY ProcesoNuevoTipo
<1>5. /\ pcb \in [Pids -> Proceso] /\ \A p \in Pids : pcb[p].mutex = << >>
  BY <1>1, <1>3, <1>4
<1>6. despacho \in Atencion /\ despacho.fase = "escucha"
  BY <1>1 DEF Escucha, Atencion, Basura
<1>7. Tipos
  <2>1. /\ lista_blocked \in Seq(Dirs) /\ lista_tcbs \in Seq(Dirs) /\ cola_new \in Seq(Int)
        /\ a_memoria \in Seq(Mensaje) /\ de_memoria \in Seq(Mensaje)
        /\ desfasado \in BOOLEAN /\ pid \in Nat \ {0}
    <3>1. \A S : << >> \in Seq(S)
      OBVIOUS
    <3>2. <<1>> \in Seq(Int) /\ 1 \in Nat \ {0} /\ FALSE \in BOOLEAN
      OBVIOUS
    <3> QED BY <1>1, <3>1, <3>2, Zenon
  <2>2. tcb \in [Dirs -> Hilo \cup {Liberado}]
    BY <1>1
  <2>3. \E S : lista_blocked \in Seq(S)
    BY <2>1
  <2> QED BY <1>5, <1>6, <2>1, <2>2, <2>3 DEF Tipos
<1>8. TidsUnicos /\ HilosEnOrden /\ BloqueadoEnLista
  BY <1>2 DEF TidsUnicos, HilosEnOrden, BloqueadoEnLista
<1>9. MutexesEnOrden
  BY <1>5, Primero DEF MutexesEnOrden, Mutexes
<1>10. Correo
  BY <1>1 DEF Correo, SinCorreo, Pedidos, Respuestas
<1>11. EnCurso
  BY <1>6 DEF EnCurso, EnBucle
<1> QED BY <1>7, <1>8, <1>9, <1>10, <1>11 DEF IInv

LEMMA AtiendeSyscallPaso ==
  ASSUME IInv, AtiendeSyscall PROVE IInv'
<1>1. PICK d \in Dirs :
        \/ ProcessCreate(d) \/ ProcessExit(d) \/ ThreadCreate(d) \/ ThreadExit(d)
        \/ DumpMemory(d) \/ IO(d)
        \/ \E x \in Tids : ThreadJoin(d, x) \/ ThreadCancel(d, x)
        \/ \E r \in Recursos :
             \/ MutexCreate(d, r) \/ MutexLock(d, r) \/ MutexUnlock(d, r)
             \/ MutexInexistente("MUTEX_LOCK", d, r) \/ MutexInexistente("MUTEX_UNLOCK", d, r)
  BY DEF AtiendeSyscall
<1> QED
  BY <1>1, ProcessCreatePaso, ProcessExitPaso, ThreadCreatePaso, ThreadExitPaso,
     DumpMemoryPaso, IOPaso, ThreadJoinPaso, ThreadCancelPaso, MutexCreatePaso,
     MutexLockPaso, MutexUnlockPaso, MutexInexistentePaso

LEMMA IInvInductiva == IInv /\ Fase /\ [Next]_vars => IInv'
<1> SUFFICES ASSUME IInv, Fase, [Next]_vars PROVE IInv'
  OBVIOUS
<1>1. CASE LargoPlazo \/ EscuchaMemoria \/ MemoriaAtiende
  BY <1>1, LargoPlazoPaso, MemoriaAtiendePaso, ConfirmarEspacioProcesoPaso,
     PostLargoPlazoPaso, ConfirmarCreacionHiloPaso, CortoPlazoPaso DEF EscuchaMemoria
<1>2. CASE AtiendeSyscall
  BY <1>2, AtiendeSyscallPaso
<1>3. CASE SigueSyscall
  BY <1>3, FinIOPaso, FinHiloPaso, RespuestaFinProcesoPaso, RecorrerHilosPaso,
     FinProcesoPaso DEF SigueSyscall
<1>4. CASE UNCHANGED vars
  BY <1>4, Igual DEF vars, planificacion, procesos, hilos, canales
<1> QED BY <1>1, <1>2, <1>3, <1>4 DEF Next

\* The kernel's threads, mutexes and messages with memoria are always in order.
THEOREM EnOrden == Spec => []IInv
<1>1. Init => IInv
  BY IInvInicial
<1>2. IInv /\ Fase /\ [Next]_vars => IInv'
  BY IInvInductiva
<1> QED BY <1>1, <1>2, Fases, PTL DEF Spec

\* No two threads in use share pid and tid, however many TCBs are made, freed and made
\* again at the same address: buscar_tcbs means one.
THEOREM HilosUnicos == Spec => []TidsUnicos
<1>1. IInv => TidsUnicos
  BY DEF IInv
<1> QED BY <1>1, EnOrden, PTL

\* Every blocked thread is in lista_blocked.
THEOREM BloqueadosEnLista == Spec => []BloqueadoEnLista
<1>1. IInv => BloqueadoEnLista
  BY DEF IInv
<1> QED BY <1>1, EnOrden, PTL

\* No unlock, exit or cancel loses a wake-up: a free mutex has nobody waiting, a taken
\* one a living owner, and whoever waits is blocked.
THEOREM MutexesCoherentes == Spec => []MutexCoherente
<1>1. ASSUME IInv PROVE MutexCoherente
  <2>1. Tipos /\ MutexesEnOrden
    BY <1>1 DEF IInv
  <2> SUFFICES ASSUME NEW p \in Pids, NEW k \in DOMAIN pcb[p].mutex
               PROVE  LET m == pcb[p].mutex[k]
                      IN /\ m.tid = Nadie => m.bloqueados = << >>
                         /\ \A i \in DOMAIN m.bloqueados :
                              \E d \in Vivos : tcb[d].pid = p /\ tcb[d].tid = m.bloqueados[i]
                                               /\ tcb[d].estado = "BLOCKED"
                         /\ m.tid # Nadie => \E d \in Vivos : tcb[d].pid = p /\ tcb[d].tid = m.tid
    BY DEF MutexCoherente
  <2>2. p = 1
    BY <2>1 DEF Tipos
  <2>3. \A d \in Vivos : tcb[d].pid = 1
    BY <2>1, Vivo DEF Hilo
  <2> QED BY <2>1, <2>2, <2>3 DEF MutexesEnOrden, Mutexes, Duenio, Cola
<1> QED BY <1>1, EnOrden, PTL

\* finalizar_proceso only goes through lista_tcbs when it holds a single TCB.  After a
\* THREAD_CREATE memoria's confirmation, which kernel_escucha_memoria never reads, is what
\* PROCESS_EXIT takes for its answer: not "OK".
THEOREM BucleDeUnHilo == Spec => [](EnBucle => Len(lista_tcbs) <= 1)
<1>1. IInv => (EnBucle => Len(lista_tcbs) <= 1)
  BY DEF IInv, EnCurso
<1> QED BY <1>1, EnOrden, PTL
=============================================================================
