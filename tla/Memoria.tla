------------------------------ MODULE Memoria ------------------------------
(***************************************************************************)
(* The memoria process as its kernel listener drives it                    *)
(* (src/memoria/src/escuchar_kernel.c): the list of partitions, the list   *)
(* of execution contexts and one action per message the kernel sends.      *)
(* escuchar_kernel is one thread and nothing else touches the partitions,  *)
(* so a whole handler is one step.                                         *)
(*                                                                         *)
(* The kernel is the environment.  Its side of the protocol, and no more   *)
(* of it, is the variable pcb: a process is asked for until memoria        *)
(* confirms it (k_conexiones.c:297), its threads are announced after that  *)
(* (k_conexiones.c:248, kernel_escucha_cpu_dispatch.c:82) and it is        *)
(* finished once (k_conexiones.c:417).                                     *)
(***************************************************************************)
EXTENDS Integers, Sequences, FiniteSets, SequencesExt

CONSTANTS
  Esquema,            \* ESQUEMA of memoria.config: "FIJAS" or "DINAMICAS"
  Algoritmo,          \* ALGORITMO_BUSQUEDA: "FIRST", "BEST" or "WORST"
  TamMemoria,         \* TAM_MEMORIA
  ParticionesFijas,   \* PARTICIONES, a sequence of sizes
  Modulo,             \* 2^32 in the code: the range of a uint32_t
  Pids,               \* the pids the kernel hands out, from 1 on
  Tids,               \* the tids the kernel hands out
  Tamanios,           \* the process sizes tried
  PidBasura           \* what an unwritten pid field may hold

ASSUME ConfiguracionValida ==
  /\ Esquema \in {"FIJAS", "DINAMICAS"}
  /\ Algoritmo \in {"FIRST", "BEST", "WORST"}
  /\ Modulo \in Nat /\ TamMemoria \in 1 .. Modulo - 1
  /\ ParticionesFijas \in Seq(Nat \ {0})

ASSUME PidsValidos ==
  /\ Pids \subseteq Nat \ {0}   \* pid++ comes before the first use (k_conexiones.c:324)
  /\ Tids \subseteq Nat
  /\ Tamanios \subseteq Nat
  /\ PidBasura \subseteq Nat

VARIABLES
  lista_particiones,  \* sequence of partition records
  lista_contextos,    \* sequence of context records
  viva,               \* FALSE once a NULL pointer has been dereferenced
  pcb,                \* kernel side: pid -> [estado, tam]
  hilos,              \* kernel side: <<pid, tid>> -> "NO", "VIVO" or "FIN"
  espera              \* kernel side: the planner waits for a reply that never comes

vars == <<lista_particiones, lista_contextos, viva, pcb, hilos, espera>>

Particion == [base: 0 .. Modulo - 1, limite: 0 .. Modulo - 1,
              tamanio: Nat, libre: BOOLEAN, pid: Nat]
Contexto  == [pid: Pids, tid: Tids, base: 0 .. Modulo - 1, limite: 0 .. Modulo - 1]

\* The last address of a partition; a uint32_t, so it wraps for an empty one at 0.
Limite(base, tamanio) == (base + tamanio - 1) % Modulo

-----------------------------------------------------------------------------
(* configurar_particiones *)

NFijas == Len(ParticionesFijas)

\* ini[i] is `inicio' when the i-th fixed partition is created, all inside the memory.
Disposicion(ini) ==
  \A i \in 1 .. NFijas :
    /\ ini[i] = IF i = 1 THEN 0 ELSE ini[i - 1] + ParticionesFijas[i - 1]
    /\ ini[i] + ParticionesFijas[i] <= TamMemoria

ASSUME ParticionesEntran ==
  Esquema = "FIJAS" => \E ini \in [1 .. NFijas -> 0 .. TamMemoria] : Disposicion(ini)

\* inicio set to the size of the last partition instead of moved past it.
Inicio_SinSumar ==
  [i \in 1 .. NFijas |-> IF i = 1 THEN 0 ELSE ParticionesFijas[i - 1]]

Inicio == CHOOSE ini \in [1 .. NFijas -> 0 .. TamMemoria] : Disposicion(ini)

\* The pid of a new partition is never written: malloc's content stays in it.
ParticionesIniciales ==
  IF Esquema = "FIJAS"
  THEN { [i \in 1 .. NFijas |->
            [base    |-> Inicio[i],
             limite  |-> Limite(Inicio[i], ParticionesFijas[i]),
             tamanio |-> ParticionesFijas[i],
             libre   |-> TRUE,
             pid     |-> basura[i]]] :
         basura \in [1 .. NFijas -> PidBasura] }
  ELSE { << [base |-> 0, limite |-> Limite(0, TamMemoria), tamanio |-> TamMemoria,
             libre |-> TRUE, pid |-> b] >> : b \in PidBasura }

Init ==
  /\ lista_particiones \in ParticionesIniciales
  /\ lista_contextos = << >>
  /\ viva = TRUE
  /\ pcb \in [Pids -> {[estado |-> "NEW", tam |-> t] : t \in Tamanios}]
  /\ hilos = [h \in Pids \X Tids |-> "NO"]
  /\ espera = FALSE

-----------------------------------------------------------------------------
(* Choosing a partition: evaluarParticion and the three searches *)

\* The flag libre not looked at.
Candidatas_SinLibre(tam) ==
  {i \in DOMAIN lista_particiones : lista_particiones[i].tamanio >= tam}

Candidatas(tam) ==
  {i \in DOMAIN lista_particiones :
     lista_particiones[i].libre /\ lista_particiones[i].tamanio >= tam}

\* Each loop keeps the first partition no later one is strictly better than.
AntesEnBusqueda(i, j) ==
  LET ti == lista_particiones[i].tamanio
      tj == lista_particiones[j].tamanio
  IN \/ Algoritmo = "FIRST" /\ i <= j
     \/ Algoritmo = "BEST"  /\ (ti < tj \/ (ti = tj /\ i <= j))
     \/ Algoritmo = "WORST" /\ (ti > tj \/ (ti = tj /\ i <= j))

EvaluarParticion(tam, i) ==
  /\ i \in Candidatas(tam)
  /\ \A j \in Candidatas(tam) : AntesEnBusqueda(i, j)

Ocupar(i, p) ==
  [lista_particiones EXCEPT ![i].libre = FALSE, ![i].pid = p]

\* The rest starts at the last address of the process: one too low.
DividirParticion_Pisa(lista, i, tam) ==
  LET resto == lista[i].tamanio - tam
      corte == lista[i].base + tam - 1
  IN Append([lista EXCEPT ![i].tamanio = tam,
                          ![i].limite = Limite(lista[i].base, tam)],
            [base |-> corte % Modulo, limite |-> Limite(corte, resto),
             tamanio |-> resto, libre |-> TRUE, pid |-> 0])

\* dividir_particion: the chosen one shrinks, the rest goes to the END of the list.
DividirParticion(lista, i, tam) ==
  LET resto == lista[i].tamanio - tam
      corte == lista[i].base + tam
  IN Append([lista EXCEPT ![i].tamanio = tam,
                          ![i].limite = Limite(lista[i].base, tam)],
            [base |-> corte % Modulo, limite |-> Limite(corte, resto),
             tamanio |-> resto, libre |-> TRUE, pid |-> 0])

-----------------------------------------------------------------------------
(* ASIGNAR_MEMORIA.  bit is the confirmation the kernel receives. *)

\* The reply 1 makes the kernel create the main thread, any other leaves the
\* process in NEW; a garbage pid is nobody's.
Responder(p, bit) ==
  pcb' = IF p \in Pids /\ bit = 1 THEN [pcb EXCEPT ![p].estado = "READY"] ELSE pcb

AsignarParticionesFijas(p, tam) ==
  /\ Esquema = "FIJAS"
  /\ \E i \in DOMAIN lista_particiones :
       /\ EvaluarParticion(tam, i)
       /\ lista_particiones' = Ocupar(i, p)
  /\ Responder(p, 1)
  /\ UNCHANGED <<viva, espera>>

\* Nothing fits: the log line after the IF reads through the NULL result.
AsignarFijasSinLugar(tam) ==
  /\ Esquema = "FIJAS"
  /\ Candidatas(tam) = {}
  /\ viva' = FALSE
  /\ UNCHANGED <<lista_particiones, pcb, espera>>

AsignarParticionesDinamicas(p, tam) ==
  /\ Esquema = "DINAMICAS"
  /\ \E i \in DOMAIN lista_particiones :
       /\ EvaluarParticion(tam, i)
       /\ IF lista_particiones[i].tamanio > tam
            THEN /\ lista_particiones' = DividirParticion(Ocupar(i, p), i, tam)
                 /\ Responder(p, 1)
            ELSE /\ lista_particiones' = Ocupar(i, p)   \* exact fit: bit stays -1
                 /\ Responder(p, -1)
  /\ UNCHANGED <<viva, espera>>

\* Nothing fits: no reply is sent, and the planner's semaphore is never posted.
AsignarDinamicasSinLugar(tam) ==
  /\ Esquema = "DINAMICAS"
  /\ Candidatas(tam) = {}
  /\ espera' = TRUE
  /\ UNCHANGED <<lista_particiones, viva, pcb>>

CrearProceso(p, tam) ==
  /\ viva /\ ~espera
  /\ \/ AsignarParticionesFijas(p, tam)
     \/ AsignarFijasSinLugar(tam)
     \/ AsignarParticionesDinamicas(p, tam)
     \/ AsignarDinamicasSinLugar(tam)
  /\ UNCHANGED <<lista_contextos, hilos>>

\* iniciar_proceso asks for the process at the head of cola_new ...
PedirProceso(p) == pcb[p].estado = "NEW" /\ CrearProceso(p, pcb[p].tam)

\* ... or, when cola_new is empty, for an uninitialised PCB.
PedirBasura == \E g \in PidBasura \ Pids, tam \in Tamanios : CrearProceso(g, tam)

-----------------------------------------------------------------------------
(* FINALIZAR_PROCESO *)

\* "No process" written as -1.
Liberar_MenosUno(i) ==
  [lista_particiones EXCEPT ![i].libre = TRUE, ![i].pid = -1]

Liberar(i) == [lista_particiones EXCEPT ![i].libre = TRUE, ![i].pid = 0]

\* siguiente->libre not looked at.
ConsolidarParticionesLibres_SinMirar(l, i) ==
  IF i < Len(l)
  THEN RemoveAt([l EXCEPT ![i].tamanio = @ + l[i + 1].tamanio], i + 1)
  ELSE l

\* The neighbours are dropped and their sizes not added.
ConsolidarParticionesLibres_SinSumar(l, i) ==
  IF i < Len(l) /\ l[i + 1].libre THEN RemoveAt(l, i + 1) ELSE l

\* `actual' absorbs l[i+1], then is absorbed by l[i-1]: neighbours in the LIST.
\* Only tamanio is updated, limite keeps its old value.
ConsolidarParticionesLibres(l, i) ==
  LET conSiguiente ==
        IF i < Len(l) /\ l[i + 1].libre
        THEN RemoveAt([l EXCEPT ![i].tamanio = @ + l[i + 1].tamanio], i + 1)
        ELSE l
  IN IF i > 1 /\ conSiguiente[i - 1].libre
     THEN RemoveAt([conSiguiente EXCEPT ![i - 1].tamanio = @ + conSiguiente[i].tamanio], i)
     ELSE conSiguiente

\* The first partition in use, whoever uses it.
BuscarParticionPorPid_Ocupada(p, i) ==
  /\ i \in DOMAIN lista_particiones
  /\ ~lista_particiones[i].libre
  /\ \A j \in 1 .. i - 1 : lista_particiones[j].libre

\* buscar_particion_por_pid, and the same search in finalizar_proceso: the first
\* partition with the pid, whether it is free or not.
BuscarParticionPorPid(p, i) ==
  /\ i \in DOMAIN lista_particiones
  /\ lista_particiones[i].pid = p
  /\ \A j \in 1 .. i - 1 : lista_particiones[j].pid # p

FinalizarProceso(p) ==
  /\ viva
  /\ pcb[p].estado = "READY"
  /\ pcb' = [pcb EXCEPT ![p].estado = "EXIT"]
  /\ \/ \E i \in DOMAIN lista_particiones :
          /\ BuscarParticionPorPid(p, i)
          /\ lista_particiones' = IF Esquema = "DINAMICAS"
                                  THEN ConsolidarParticionesLibres(Liberar(i), i)
                                  ELSE Liberar(i)
     \/ /\ \A i \in DOMAIN lista_particiones : lista_particiones[i].pid # p
        /\ UNCHANGED lista_particiones
  /\ UNCHANGED <<lista_contextos, viva, hilos, espera>>

-----------------------------------------------------------------------------
(* HILO_READY and FINALIZAR_HILO *)

CrearHilo(p, t) ==
  /\ viva
  /\ pcb[p].estado = "READY"
  /\ hilos[<<p, t>>] = "NO"
  /\ hilos' = [hilos EXCEPT ![<<p, t>>] = "VIVO"]
  /\ IF \E i \in DOMAIN lista_particiones : BuscarParticionPorPid(p, i)
     THEN /\ \E i \in DOMAIN lista_particiones :
               /\ BuscarParticionPorPid(p, i)
               /\ lista_contextos' = Append(lista_contextos,
                    [pid |-> p, tid |-> t,
                     base   |-> lista_particiones[i].base,
                     limite |-> lista_particiones[i].limite])
          /\ UNCHANGED viva
     ELSE viva' = FALSE /\ UNCHANGED lista_contextos   \* particion->base on NULL
  /\ UNCHANGED <<lista_particiones, pcb, espera>>

\* serializar_finalizar_hilo writes the pid in both fields of the message.
TidEnviado(p, t) == p

\* The context finalizar_hilo finds: the first one with the pid and tid of the message.
BuscarContexto(p, t, k) ==
  LET es(j) == lista_contextos[j].pid = p /\ lista_contextos[j].tid = t
  IN k \in DOMAIN lista_contextos /\ es(k) /\ \A j \in 1 .. k - 1 : ~es(j)

FinalizarHilo(p, t) ==
  /\ viva
  /\ hilos[<<p, t>>] = "VIVO"
  /\ hilos' = [hilos EXCEPT ![<<p, t>>] = "FIN"]
  /\ \/ \E k \in DOMAIN lista_contextos :
          /\ BuscarContexto(p, TidEnviado(p, t), k)
          /\ lista_contextos' = RemoveAt(lista_contextos, k)
     \/ /\ \A k \in DOMAIN lista_contextos : ~BuscarContexto(p, TidEnviado(p, t), k)
        /\ UNCHANGED lista_contextos
  /\ UNCHANGED <<lista_particiones, viva, pcb, espera>>

Next ==
  \/ \E p \in Pids : PedirProceso(p) \/ FinalizarProceso(p)
  \/ PedirBasura
  \/ \E p \in Pids, t \in Tids : CrearHilo(p, t) \/ FinalizarHilo(p, t)

Spec == Init /\ [][Next]_vars

-----------------------------------------------------------------------------
(* Properties *)

\* Type correctness of the lists memoria keeps and of the kernel's view of them.
TypeOK ==
  /\ lista_particiones \in Seq(Particion)
  /\ lista_contextos \in Seq(Contexto)
  /\ viva \in BOOLEAN /\ espera \in BOOLEAN
  /\ pcb \in [Pids -> [estado : {"NEW", "READY", "EXIT"}, tam : Tamanios]]
  /\ hilos \in [Pids \X Tids -> {"NO", "VIVO", "FIN"}]

EsDe(i, p) == ~lista_particiones[i].libre /\ lista_particiones[i].pid = p

ParticionesDe(p) ==
  {lista_particiones[i] : i \in {j \in DOMAIN lista_particiones : EsDe(j, p)}}

\* What the bit of CONFIRMAR_ESPACIO_PROCESO tells the kernel is what memoria did:
\* a confirmed process holds exactly one partition, large enough, and a process
\* that is waiting or has finished holds none (escuchar_kernel.c:61-82, 188-214).
UnaParticionPorProceso ==
  \A p \in Pids :
    IF pcb[p].estado = "READY"
    THEN \E i \in DOMAIN lista_particiones :
           /\ EsDe(i, p)
           /\ lista_particiones[i].tamanio >= pcb[p].tam
           /\ \A j \in DOMAIN lista_particiones : EsDe(j, p) => j = i
    ELSE \A i \in DOMAIN lista_particiones : ~EsDe(i, p)

\* The base and limit a running process's threads are given (escuchar_kernel.c:267)
\* are those of the partition it holds now, not of one it never had or gave back.
ContextoEnSuParticion ==
  \A k \in DOMAIN lista_contextos :
    LET c == lista_contextos[k] IN
    pcb[c.pid].estado = "READY" =>
      \E i \in DOMAIN lista_particiones :
        /\ EsDe(i, c.pid)
        /\ c.base = lista_particiones[i].base
        /\ c.limite = lista_particiones[i].limite

\* No two running processes are given overlapping address ranges: the geometry
\* configurar_particiones lays out and the search keep them apart.
ContextosAislados ==
  \A j, k \in DOMAIN lista_contextos :
    LET a == lista_contextos[j]
        b == lista_contextos[k]
    IN /\ a.pid # b.pid
       /\ pcb[a.pid].estado = "READY" /\ pcb[b.pid].estado = "READY"
       => a.limite < b.base \/ b.limite < a.base

\* Whatever the other processes ask for, the partitions a running process holds are
\* not moved, resized, merged, freed or given away (escuchar_kernel.c:109, 230).
ParticionEstable ==
  [][\A p \in Pids :
       pcb[p].estado = "READY" /\ pcb'[p].estado = "READY" =>
         ParticionesDe(p)' = ParticionesDe(p)]_vars

\* Splitting and merging neither lose nor invent memory: the sizes in the list
\* always add up to TAM_MEMORIA (escuchar_kernel.c:109-125, 230-252).
Suma(l) ==
  LET hasta[n \in 0 .. Len(l)] == IF n = 0 THEN 0 ELSE hasta[n - 1] + l[n].tamanio
  IN hasta[Len(l)]

SumaConservada == Suma(lista_particiones) = TamMemoria

Solapan(a, b) ==
  a.base < b.base + b.tamanio /\ b.base < a.base + a.tamanio

Disjuntas(l) == \A i, j \in DOMAIN l : i # j => ~Solapan(l[i], l[j])

\* The addresses of a partition do not wrap.  The merge of list neighbours can leave one
\* that reaches past the memory, and the base of what is split off it may then be 0 again.
SinDarVuelta(q) == q.base + q.tamanio <= Modulo

\* Splitting keeps the extents disjoint while no address wraps: the only way to two
\* overlapping partitions is the merge of list neighbours in FINALIZAR_PROCESO
\* (escuchar_kernel.c:109, 230).
DivisionDisjunta ==
  [][/\ Disjuntas(lista_particiones)
     /\ \A i \in DOMAIN lista_particiones : SinDarVuelta(lista_particiones[i])
     /\ \A p \in Pids : pcb'[p].estado = "EXIT" => pcb[p].estado = "EXIT"
     => Disjuntas(lista_particiones')]_vars
=============================================================================
