----------------------------- MODULE Conexiones -----------------------------
(***************************************************************************)
(* How the four processes find each other: what each main does until all   *)
(* its connections stand, and what each does when one of them is lost.     *)
(* Somebody starts them, in any order, and may stop any and start it       *)
(* again.                                                                  *)
(*                                                                         *)
(* A connection that is refused ends the process that asked for it:        *)
(* crear_conexion only logs the error, and handshakeClient sends through a *)
(* socket that is not connected (SIGPIPE).  One process of each kind runs  *)
(* at a time, and all on the same machine, as in the configuration files.  *)
(***************************************************************************)
EXTENDS Integers, Sequences, SequencesExt

CONSTANT MaxArranques      \* bound: times each process is started

ASSUME MaxArranquesPositivo == MaxArranques \in Nat \ {0}

VARIABLES
  paso,          \* process -> place in its main, 0 when it is not running
  vez,           \* process -> times it has been started
  espera,        \* process -> it is in the recv of handshakeClient
  destino,       \* process -> port -> which start of the server it connected to, or 0
  escuchan,      \* ports with a server
  cola,          \* port -> clients connected and not accepted: <<process, vez>>
  aceptados,     \* port -> clients accepted, in order
  respondidos,   \* port -> those the handshake was answered to
  enOrden,       \* each was started once, when the one it depends on was listening ...
  caido,         \* ... and none has been stopped, for the properties
  rechazos,      \* connections refused: <<process, port>>, for the properties
  completo       \* the first kernel has had all of its connections, for the properties

vars == <<paso, vez, espera, destino, escuchan, cola, aceptados, respondidos,
          enOrden, caido, rechazos, completo>>
historia == <<enOrden, caido, completo>>

Procesos == {"filesystem", "memoria", "cpu", "kernel"}
Puertos  == {"fs", "memoria", "dispatch", "interrupt"}

Servidor == [fs |-> "filesystem", memoria |-> "memoria", dispatch |-> "cpu", interrupt |-> "cpu"]

-----------------------------------------------------------------------------
(* main, as a list of calls *)

Escuchar(puerto)       == [hace |-> "iniciar_servidor", puerto |-> puerto]
Conectar(puerto)       == [hace |-> "crear_conexion", puerto |-> puerto]
Aceptar(puerto)        == [hace |-> "esperar_cliente", puerto |-> puerto]
AceptarSiempre(puerto) == [hace |-> "while esperar_cliente", puerto |-> puerto]
Listo                  == [hace |-> "listo", puerto |-> ""]

MainFilesystem == <<Escuchar("fs"), AceptarSiempre("fs")>>

\* conectar_con_FS, conectar_cpu and conectar_kernel.
MainMemoria ==
  <<Escuchar("memoria"), Conectar("fs"), Aceptar("memoria"), AceptarSiempre("memoria")>>

\* conectar_memoria, conectar_kernel_dispatch and conectar_kernel_interrupt.
MainCpu ==
  <<Conectar("memoria"), Escuchar("dispatch"), Aceptar("dispatch"),
    Escuchar("interrupt"), Aceptar("interrupt"), Listo>>

\* Memoria first, as the scheme of the system is drawn.
MainKernel_MemoriaPrimero ==
  <<Conectar("memoria"), Conectar("dispatch"), Conectar("interrupt"), Listo>>

MainKernel == <<Conectar("dispatch"), Conectar("interrupt"), Conectar("memoria"), Listo>>

Main == [filesystem |-> MainFilesystem, memoria |-> MainMemoria, cpu |-> MainCpu,
         kernel |-> MainKernel]

Hace(p, que) == paso[p] # 0 /\ Main[p][paso[p]].hace \in que
Puerto(p)    == Main[p][paso[p]].puerto

\* The call of p's main that is about the port is behind it.
Hizo(p, puerto) ==
  \E i \in 1 .. paso[p] - 1 : Main[p][i] \in {Conectar(puerto), Aceptar(puerto)}

Yo(p)      == <<p, vez[p]>>
Vivo(quien) == paso[quien[1]] # 0 /\ vez[quien[1]] = quien[2]

Init ==
  /\ paso = [p \in Procesos |-> 0] /\ vez = [p \in Procesos |-> 0]
  /\ espera = [p \in Procesos |-> FALSE]
  /\ destino = [p \in Procesos |-> [q \in Puertos |-> 0]]
  /\ escuchan = {}
  /\ cola = [q \in Puertos |-> << >>] /\ aceptados = [q \in Puertos |-> << >>]
  /\ respondidos = [q \in Puertos |-> {}]
  /\ enOrden = TRUE /\ caido = FALSE /\ rechazos = {} /\ completo = FALSE

-----------------------------------------------------------------------------
(* Start and end of a process *)

EnTurno(p) ==
  /\ vez[p] = 0
  /\ p = "memoria" => "fs" \in escuchan
  /\ p = "cpu"     => "memoria" \in escuchan
  /\ p = "kernel"  => "dispatch" \in escuchan

Arrancar(p) ==
  /\ paso[p] = 0 /\ vez[p] < MaxArranques
  /\ paso' = [paso EXCEPT ![p] = 1]
  /\ vez' = [vez EXCEPT ![p] = @ + 1]
  /\ enOrden' = (enOrden /\ EnTurno(p))
  /\ UNCHANGED <<espera, destino, escuchan, cola, aceptados, respondidos, caido, rechazos,
                 completo>>

\* The operating system closes its sockets: clients in the queue are turned away.
Terminar(p) ==
  LET suyos == {q \in Puertos : Servidor[q] = p}
  IN /\ paso' = [paso EXCEPT ![p] = 0]
     /\ espera' = [espera EXCEPT ![p] = FALSE]
     /\ destino' = [destino EXCEPT ![p] = [q \in Puertos |-> 0]]
     /\ escuchan' = escuchan \ suyos
     /\ cola' = [q \in Puertos |-> IF q \in suyos THEN << >> ELSE cola[q]]
     /\ aceptados' = [q \in Puertos |-> IF q \in suyos THEN << >> ELSE aceptados[q]]
     /\ respondidos' = [q \in Puertos |-> IF q \in suyos THEN {} ELSE respondidos[q]]
     /\ UNCHANGED vez

Parar(p) ==
  /\ paso[p] # 0
  /\ Terminar(p)
  /\ caido' = TRUE
  /\ UNCHANGED <<enOrden, rechazos, completo>>

-----------------------------------------------------------------------------
(* The calls of main *)

IniciarServidor(p) ==
  /\ Hace(p, {"iniciar_servidor"})
  /\ escuchan' = escuchan \cup {Puerto(p)}
  /\ paso' = [paso EXCEPT ![p] = @ + 1]
  /\ UNCHANGED <<vez, espera, destino, cola, aceptados, respondidos, rechazos, historia>>

\* crear_conexion and the send of handshakeClient; the server need not have accepted.
CrearConexion(p) ==
  /\ Hace(p, {"crear_conexion"}) /\ ~espera[p]
  /\ IF Puerto(p) \in escuchan
     THEN /\ cola' = [cola EXCEPT ![Puerto(p)] = Append(@, Yo(p))]
          /\ espera' = [espera EXCEPT ![p] = TRUE]
          /\ destino' = [destino EXCEPT ![p][Puerto(p)] = vez[Servidor[Puerto(p)]]]
          /\ UNCHANGED <<paso, vez, escuchan, aceptados, respondidos, rechazos>>
     ELSE /\ Terminar(p)
          /\ rechazos' = rechazos \cup {<<p, Puerto(p)>>}
  /\ UNCHANGED historia

Perdido(p, puerto) == destino[p][puerto] # 0 /\ ~Vivo(<<Servidor[puerto], destino[p][puerto]>>)

\* The answer not waited for.
RecibirHandshake_SinEsperar(p) ==
  /\ espera[p]
  /\ espera' = [espera EXCEPT ![p] = FALSE]
  /\ paso' = [paso EXCEPT ![p] = @ + 1]
  /\ UNCHANGED <<vez, destino, escuchan, cola, aceptados, respondidos, historia, rechazos>>

\* Its recv: the answer, whatever it says, or the end of the server.
RecibirHandshake(p) ==
  /\ espera[p]
  /\ Perdido(p, Puerto(p)) \/ Yo(p) \in respondidos[Puerto(p)]
  /\ espera' = [espera EXCEPT ![p] = FALSE]
  /\ paso' = [paso EXCEPT ![p] = @ + 1]
  /\ completo' = (completo \/ /\ p = "kernel" /\ Main[p][paso[p] + 1] = Listo
                              /\ \A q \in Procesos : paso[q] # 0 /\ vez[q] = 1)
  /\ UNCHANGED <<vez, destino, escuchan, cola, aceptados, respondidos, enOrden, caido,
                 rechazos>>

\* Nothing for the code of the interrupt connection.
Contesta_SinInterrupt(puerto) == puerto # "interrupt"

\* handshakeServer answers every code, and does not look at whose it is.
Contesta(puerto) == TRUE

\* The server closed as soon as it has a client.
EsperarCliente_Cierra(p) ==
  /\ Hace(p, {"esperar_cliente", "while esperar_cliente"}) /\ cola[Puerto(p)] # << >>
  /\ LET puerto == Puerto(p)
     IN /\ cola' = [cola EXCEPT ![puerto] = Tail(@)]
        /\ aceptados' = [aceptados EXCEPT ![puerto] = Append(@, Head(cola[puerto]))]
        /\ respondidos' = [respondidos EXCEPT ![puerto] = @ \cup {Head(cola[puerto])}]
        /\ escuchan' = escuchan \ {puerto}
  /\ paso' = IF Hace(p, {"esperar_cliente"}) THEN [paso EXCEPT ![p] = @ + 1] ELSE paso
  /\ UNCHANGED <<vez, espera, destino, rechazos, historia>>

\* esperar_cliente, and handshakeServer.
EsperarCliente(p) ==
  /\ Hace(p, {"esperar_cliente", "while esperar_cliente"}) /\ cola[Puerto(p)] # << >>
  /\ LET puerto  == Puerto(p)
         cliente == Head(cola[puerto])
     IN /\ cola' = [cola EXCEPT ![puerto] = Tail(@)]
        /\ aceptados' = [aceptados EXCEPT ![puerto] = Append(@, cliente)]
        /\ respondidos' = IF Contesta(puerto)
                          THEN [respondidos EXCEPT ![puerto] = @ \cup {cliente}] ELSE respondidos
  /\ paso' = IF Hace(p, {"esperar_cliente"}) THEN [paso EXCEPT ![p] = @ + 1] ELSE paso
  /\ UNCHANGED <<vez, espera, destino, escuchan, rechazos, historia>>

-----------------------------------------------------------------------------
(* The listeners, when the other end is gone.  Those that return or try    *)
(* again, of the CPU on memoria and on dispatch, of memoria on the kernel  *)
(* and of the kernel on memoria, change nothing here.                      *)

\* NULL->codigo_operacion in kernel_escucha_cpu_dispatch, and the exit of the interrupt
\* listener.
KernelSinCpu ==
  \E puerto \in {"dispatch", "interrupt"} : Hizo("kernel", puerto) /\ Perdido("kernel", puerto)

\* The exit of escuchar_kernel_interrupt.
CpuSinKernel == aceptados["interrupt"] # << >> /\ ~Vivo(aceptados["interrupt"][1])

\* With the NULL that recibir_paquete returns looked at.
EscucharCpuSinCpu_Mira == FALSE

\* NULL->codigo_operacion in escuchar_cpu.
EscucharCpuSinCpu == aceptados["memoria"] # << >> /\ ~Vivo(aceptados["memoria"][1])

\* The exit of memoria_escucha_FS.
EscuchaFSSinFS == Hizo("memoria", "fs") /\ Perdido("memoria", "fs")

\* The exit of escuchar_memoria.
FSSinMemoria == \E i \in DOMAIN aceptados["fs"] : ~Vivo(aceptados["fs"][i])

PerderConexion(p) ==
  /\ paso[p] # 0
  /\ \/ p = "kernel" /\ KernelSinCpu
     \/ p = "cpu" /\ CpuSinKernel
     \/ p = "memoria" /\ (EscucharCpuSinCpu \/ EscuchaFSSinFS)
     \/ p = "filesystem" /\ FSSinMemoria
  /\ Terminar(p)
  /\ UNCHANGED <<rechazos, historia>>

-----------------------------------------------------------------------------

Hilos(p) ==
  \/ IniciarServidor(p) \/ CrearConexion(p) \/ RecibirHandshake(p) \/ EsperarCliente(p)
  \/ PerderConexion(p)

Next ==
  \E p \in Procesos :
    \/ Arrancar(p) \/ Parar(p)
    \/ IniciarServidor(p) \/ CrearConexion(p) \/ RecibirHandshake(p) \/ EsperarCliente(p)
    \/ PerderConexion(p)

Spec == Init /\ [][Next]_vars

\* A process that can go on does, and its listener hears of a socket that is closed even
\* while main goes round its loop; nothing makes anybody start or stop one.
FairSpec ==
  /\ Spec
  /\ \A p \in Procesos : WF_vars(Hilos(p)) /\ WF_vars(PerderConexion(p))

-----------------------------------------------------------------------------
(* Properties *)

\* Memoria serves its first client as the CPU and the others as the kernel, and
\* handshakeServer looks at no code (m_conexiones.c:121, 144, utils.c:199-217): the first
\* is the CPU all the same, because no kernel gets to memoria before it has been through a
\* CPU that was connected.  It takes a memoria started again under that CPU to break it.
PrimeroLaCpu ==
  aceptados["memoria"] # << >> /\ vez["memoria"] = 1 => aceptados["memoria"][1][1] = "cpu"

\* A CPU started again may be accepted in the place of the kernel, and then memoria has no
\* live CPU: the listener of the first one is about to end it (m_conexiones.c:144-152,
\* escuchar_cpu.c:10-11).
CpuPorKernel ==
  \A i \in DOMAIN aceptados["memoria"] :
    i > 1 /\ vez["memoria"] = 1 /\ aceptados["memoria"][i][1] = "cpu"
      => ~Vivo(aceptados["memoria"][1])

\* Nobody is served as another while the one it is taken for is there.
CadaUnoPorQuienEs == PrimeroLaCpu /\ CpuPorKernel

\* The kernel the CPU listens to for interruptions is the one it takes threads from: one
\* started again while the CPU waits for the first one never gets past the first handshake
\* (c_conexiones.c:75, 89; k_conexiones.c:83-94).
MismoKernel ==
  aceptados["interrupt"] # << >> => aceptados["interrupt"] = aceptados["dispatch"]

\* In the right order, each started when the one before is listening, a single connection
\* may be refused: the CPU opens its second port after it has answered on the first, and
\* the kernel may be there before (c_conexiones.c:76, 86; k_conexiones.c:84, 93).
SoloInterruptRechaza ==
  enOrden /\ ~caido => rechazos \subseteq {<<"kernel", "interrupt">>}

\* In that order the four get to the first process, unless that one is refused: no two
\* wait for each other's handshake (kernel.c:25-31).
ArrancaOSeCorta ==
  (enOrden /\ \A p \in Procesos : vez[p] = 1)
    ~> (completo \/ <<"kernel", "interrupt">> \in rechazos \/ caido \/ ~enOrden)

\* Once all are connected, the end of the kernel or of the CPU ends the four: no process
\* goes on serving one that is gone (escuchar_kernel_interrupt.c:16, escuchar_cpu.c:11,
\* kernel_escucha_cpu_interrupt.c:21, escuchar_memoria.c:24 of the file system).
CaenTodos ==
  completo /\ (~Vivo(<<"kernel", 1>>) \/ ~Vivo(<<"cpu", 1>>))
    ~> \A p \in Procesos : ~Vivo(<<p, 1>>)
=============================================================================
