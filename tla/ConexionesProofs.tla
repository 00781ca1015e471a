--------------------------- MODULE ConexionesProofs ---------------------------
(***************************************************************************)
(* Proofs about Conexiones, for any number of restarts: memoria's first    *)
(* client is the CPU, and the CPU has one kernel on its two ports.  When   *)
(* the processes are started in order and not stopped, the only connection *)
(* that can be refused is the kernel's to the interrupt port.              *)
(***************************************************************************)
EXTENDS Conexiones, TLAPS

-----------------------------------------------------------------------------
(* The inductive invariant *)

Clientes == Procesos \X Nat

\* The place of a process in its main, and whom the sockets join.
Tipos ==
  /\ paso \in [Procesos -> Nat] /\ \A p \in Procesos : paso[p] <= Len(Main[p])
  /\ vez \in [Procesos -> Nat]
  /\ espera \in [Procesos -> BOOLEAN]
  /\ destino \in [Procesos -> [Puertos -> Nat]]
  /\ escuchan \subseteq Puertos
  /\ cola \in [Puertos -> Seq(Clientes)] /\ aceptados \in [Puertos -> Seq(Clientes)]
  /\ respondidos \in [Puertos -> SUBSET Clientes]

\* A process that does not run has no socket, and one that runs connected to a server
\* that has been started.
Sockets ==
  /\ \A p \in Procesos : paso[p] # 0 => vez[p] # 0
  /\ \A p \in Procesos : espera[p] => Hace(p, {"crear_conexion"})
  /\ \A p \in Procesos, q \in Puertos :
       /\ destino[p][q] <= vez[Servidor[q]]
       /\ paso[p] = 0 => destino[p][q] = 0
  /\ \A q \in Puertos : paso[Servidor[q]] = 0 =>
       q \notin escuchan /\ cola[q] = << >> /\ aceptados[q] = << >> /\ respondidos[q] = {}
  /\ \A q \in Puertos : \A c \in respondidos[q] :
       \E i \in DOMAIN aceptados[q] : aceptados[q][i] = c

\* Where the CPU is says what its ports have been through.
PuertosDeLaCpu ==
  /\ "dispatch" \in escuchan => paso["cpu"] >= 3
  /\ "interrupt" \in escuchan \/ cola["interrupt"] # << >> => paso["cpu"] >= 5
  /\ Len(aceptados["dispatch"]) = IF paso["cpu"] >= 4 THEN 1 ELSE 0
  /\ Len(aceptados["interrupt"]) = IF paso["cpu"] >= 6 THEN 1 ELSE 0

\* While memoria lives its first life, nobody gets past a CPU it has not accepted.
TrasLaCpu ==
  /\ vez["memoria"] = 0 \/ (vez["memoria"] = 1 /\ paso["memoria"] # 0)
  /\ paso["cpu"] > 1 \/ paso["kernel"] > 1 \/ espera["kernel"]
  => aceptados["memoria"] # << >>

Primero ==
  vez["memoria"] = 1 =>
    /\ aceptados["memoria"] # << >> => aceptados["memoria"][1][1] = "cpu"
    /\ aceptados["memoria"] = << >> =>
         \A i \in DOMAIN cola["memoria"] : cola["memoria"][i][1] = "cpu"

\* Each start of the CPU is at most one client of memoria, and they come in order.
CpusEnOrden ==
  LET a == aceptados["memoria"]
      c == cola["memoria"]
      Antes(e, f) == e[1] = "cpu" /\ f[1] = "cpu" => e[2] < f[2]
      Conocida(e) == e[1] = "cpu" =>
        /\ e[2] <= vez["cpu"]
        /\ paso["cpu"] = 1 /\ ~espera["cpu"] => e[2] # vez["cpu"]
  IN /\ \A i \in DOMAIN a : Conocida(a[i])
     /\ \A i \in DOMAIN c : Conocida(c[i])
     /\ \A i, j \in DOMAIN a : i < j => Antes(a[i], a[j])
     /\ \A i, j \in DOMAIN c : i < j => Antes(c[i], c[j])
     /\ \A i \in DOMAIN a, j \in DOMAIN c : Antes(a[i], c[j])

\* What the kernel's connection to the CPU says of the CPU's first port: a kernel of a CPU
\* that ended cannot be on the one that took its place, and one that got past the
\* handshake with the CPU that lives has been accepted by it.
KernelConectado ==
  LET d == destino["kernel"]["dispatch"]
  IN /\ paso["kernel"] > 1 \/ espera["kernel"] => d # 0
     /\ d # 0 /\ d # vez["cpu"] => cola["dispatch"] = << >> /\ aceptados["dispatch"] = << >>
     /\ paso["kernel"] > 1 /\ d = vez["cpu"] /\ paso["cpu"] # 0 =>
          Yo("kernel") \in respondidos["dispatch"]

UnKernel ==
  /\ \A i \in DOMAIN cola["interrupt"] : cola["interrupt"][i] = aceptados["dispatch"][1]
  /\ \A i \in DOMAIN aceptados["interrupt"] :
       aceptados["interrupt"][i] = aceptados["dispatch"][1]

IInv ==
  /\ Tipos /\ Sockets /\ PuertosDeLaCpu /\ TrasLaCpu /\ Primero /\ CpusEnOrden
  /\ KernelConectado /\ UnKernel

-----------------------------------------------------------------------------
(* Which call of its main each place is *)

LEMMA Largos ==
  /\ Len(Main["filesystem"]) = 2 /\ Len(Main["memoria"]) = 4 /\ Len(Main["cpu"]) = 6
  /\ Len(Main["kernel"]) = 4
BY DEF Main, MainFilesystem, MainMemoria, MainCpu, MainKernel

LEMMA Tabla ==
  /\ Main["filesystem"][1].hace = "iniciar_servidor" /\ Main["filesystem"][1].puerto = "fs"
  /\ Main["filesystem"][2].hace = "while esperar_cliente" /\ Main["filesystem"][2].puerto = "fs"
  /\ Main["memoria"][1].hace = "iniciar_servidor" /\ Main["memoria"][1].puerto = "memoria"
  /\ Main["memoria"][2].hace = "crear_conexion" /\ Main["memoria"][2].puerto = "fs"
  /\ Main["memoria"][3].hace = "esperar_cliente" /\ Main["memoria"][3].puerto = "memoria"
  /\ Main["memoria"][4].hace = "while esperar_cliente" /\ Main["memoria"][4].puerto = "memoria"
  /\ Main["cpu"][1].hace = "crear_conexion" /\ Main["cpu"][1].puerto = "memoria"
  /\ Main["cpu"][2].hace = "iniciar_servidor" /\ Main["cpu"][2].puerto = "dispatch"
  /\ Main["cpu"][3].hace = "esperar_cliente" /\ Main["cpu"][3].puerto = "dispatch"
  /\ Main["cpu"][4].hace = "iniciar_servidor" /\ Main["cpu"][4].puerto = "interrupt"
  /\ Main["cpu"][5].hace = "esperar_cliente" /\ Main["cpu"][5].puerto = "interrupt"
  /\ Main["cpu"][6].hace = "listo" /\ Main["cpu"][6].puerto = ""
  /\ Main["kernel"][1].hace = "crear_conexion" /\ Main["kernel"][1].puerto = "dispatch"
  /\ Main["kernel"][2].hace = "crear_conexion" /\ Main["kernel"][2].puerto = "interrupt"
  /\ Main["kernel"][3].hace = "crear_conexion" /\ Main["kernel"][3].puerto = "memoria"
  /\ Main["kernel"][4].hace = "listo" /\ Main["kernel"][4].puerto = ""
<1>1. Main["filesystem"][1].hace = "iniciar_servidor" /\ Main["filesystem"][1].puerto = "fs"
  BY DEF Main, MainFilesystem, Escuchar, Conectar, Aceptar, AceptarSiempre, Listo
<1>2. Main["filesystem"][2].hace = "while esperar_cliente" /\ Main["filesystem"][2].puerto = "fs"
  BY DEF Main, MainFilesystem, Escuchar, Conectar, Aceptar, AceptarSiempre, Listo
<1>3. Main["memoria"][1].hace = "iniciar_servidor" /\ Main["memoria"][1].puerto = "memoria"
  BY DEF Main, MainMemoria, Escuchar, Conectar, Aceptar, AceptarSiempre, Listo
<1>4. Main["memoria"][2].hace = "crear_conexion" /\ Main["memoria"][2].puerto = "fs"
  BY DEF Main, MainMemoria, Escuchar, Conectar, Aceptar, AceptarSiempre, Listo
<1>5. Main["memoria"][3].hace = "esperar_cliente" /\ Main["memoria"][3].puerto = "memoria"
  BY DEF Main, MainMemoria, Escuchar, Conectar, Aceptar, AceptarSiempre, Listo
<1>6. Main["memoria"][4].hace = "while esperar_cliente" /\ Main["memoria"][4].puerto = "memoria"
  BY DEF Main, MainMemoria, Escuchar, Conectar, Aceptar, AceptarSiempre, Listo
<1>7. Main["cpu"][1].hace = "crear_conexion" /\ Main["cpu"][1].puerto = "memoria"
  BY DEF Main, MainCpu, Escuchar, Conectar, Aceptar, AceptarSiempre, Listo
<1>8. Main["cpu"][2].hace = "iniciar_servidor" /\ Main["cpu"][2].puerto = "dispatch"
  BY DEF Main, MainCpu, Escuchar, Conectar, Aceptar, AceptarSiempre, Listo
<1>9. Main["cpu"][3].hace = "esperar_cliente" /\ Main["cpu"][3].puerto = "dispatch"
  BY DEF Main, MainCpu, Escuchar, Conectar, Aceptar, AceptarSiempre, Listo
<1>10. Main["cpu"][4].hace = "iniciar_servidor" /\ Main["cpu"][4].puerto = "interrupt"
  BY DEF Main, MainCpu, Escuchar, Conectar, Aceptar, AceptarSiempre, Listo
<1>11. Main["cpu"][5].hace = "esperar_cliente" /\ Main["cpu"][5].puerto = "interrupt"
  BY DEF Main, MainCpu, Escuchar, Conectar, Aceptar, AceptarSiempre, Listo
<1>12. Main["cpu"][6].hace = "listo" /\ Main["cpu"][6].puerto = ""
  BY DEF Main, MainCpu, Escuchar, Conectar, Aceptar, AceptarSiempre, Listo
<1>13. Main["kernel"][1].hace = "crear_conexion" /\ Main["kernel"][1].puerto = "dispatch"
  BY DEF Main, MainKernel, Escuchar, Conectar, Aceptar, AceptarSiempre, Listo
<1>14. Main["kernel"][2].hace = "crear_conexion" /\ Main["kernel"][2].puerto = "interrupt"
  BY DEF Main, MainKernel, Escuchar, Conectar, Aceptar, AceptarSiempre, Listo
<1>15. Main["kernel"][3].hace = "crear_conexion" /\ Main["kernel"][3].puerto = "memoria"
  BY DEF Main, MainKernel, Escuchar, Conectar, Aceptar, AceptarSiempre, Listo
<1>16. Main["kernel"][4].hace = "listo" /\ Main["kernel"][4].puerto = ""
  BY DEF Main, MainKernel, Escuchar, Conectar, Aceptar, AceptarSiempre, Listo
<1> QED BY <1>1, <1>2, <1>3, <1>4, <1>5, <1>6, <1>7, <1>8, <1>9, <1>10, <1>11, <1>12, <1>13, <1>14, <1>15, <1>16

LEMMA Lugares ==
  ASSUME Tipos, NEW p \in Procesos, paso[p] # 0
  PROVE  \/ p = "filesystem" /\ (paso[p] = 1 \/ paso[p] = 2)
         \/ p = "memoria" /\ (paso[p] = 1 \/ paso[p] = 2 \/ paso[p] = 3 \/ paso[p] = 4)
         \/ p = "cpu" /\ \/ paso[p] = 1 \/ paso[p] = 2 \/ paso[p] = 3
                         \/ paso[p] = 4 \/ paso[p] = 5 \/ paso[p] = 6
         \/ p = "kernel" /\ (paso[p] = 1 \/ paso[p] = 2 \/ paso[p] = 3 \/ paso[p] = 4)
<1>1. paso[p] \in Nat /\ paso[p] <= Len(Main[p])
  BY DEF Tipos
<1>2. p = "filesystem" \/ p = "memoria" \/ p = "cpu" \/ p = "kernel"
  BY DEF Procesos
<1>3. CASE p = "filesystem"
  <2>1. paso[p] <= 2
    BY <1>1, <1>3, Largos
  <2> QED BY <1>1, <1>3, <2>1
<1>4. CASE p = "memoria"
  <2>1. paso[p] <= 4
    BY <1>1, <1>4, Largos
  <2> QED BY <1>1, <1>4, <2>1
<1>5. CASE p = "cpu"
  <2>1. paso[p] <= 6
    BY <1>1, <1>5, Largos
  <2> QED BY <1>1, <1>5, <2>1
<1>6. CASE p = "kernel"
  <2>1. paso[p] <= 4
    BY <1>1, <1>6, Largos
  <2> QED BY <1>1, <1>6, <2>1
<1> QED BY <1>2, <1>3, <1>4, <1>5, <1>6

LEMMA QuienEscucha ==
  ASSUME Tipos, NEW p \in Procesos, Hace(p, {"iniciar_servidor"})
  PROVE  \/ p = "filesystem" /\ paso[p] = 1 /\ Puerto(p) = "fs"
         \/ p = "memoria" /\ paso[p] = 1 /\ Puerto(p) = "memoria"
         \/ p = "cpu" /\ paso[p] = 2 /\ Puerto(p) = "dispatch"
         \/ p = "cpu" /\ paso[p] = 4 /\ Puerto(p) = "interrupt"
<1>1. p = "filesystem" \/ p = "memoria" \/ p = "cpu" \/ p = "kernel"
  BY DEF Procesos
<1>2. CASE p = "filesystem"
  BY <1>2, Lugares, Tabla DEF Hace, Puerto
<1>3. CASE p = "memoria"
  BY <1>3, Lugares, Tabla DEF Hace, Puerto
<1>4. CASE p = "cpu"
  BY ZenonT(60), <1>4, Lugares, Tabla DEF Hace, Puerto
<1>5. CASE p = "kernel"
  BY <1>5, Lugares, Tabla DEF Hace, Puerto
<1> QED BY <1>1, <1>2, <1>3, <1>4, <1>5

LEMMA QuienConecta ==
  ASSUME Tipos, NEW p \in Procesos, Hace(p, {"crear_conexion"})
  PROVE  \/ p = "memoria" /\ paso[p] = 2 /\ Puerto(p) = "fs"
         \/ p = "cpu" /\ paso[p] = 1 /\ Puerto(p) = "memoria"
         \/ p = "kernel" /\ paso[p] = 1 /\ Puerto(p) = "dispatch"
         \/ p = "kernel" /\ paso[p] = 2 /\ Puerto(p) = "interrupt"
         \/ p = "kernel" /\ paso[p] = 3 /\ Puerto(p) = "memoria"
<1>1. p = "filesystem" \/ p = "memoria" \/ p = "cpu" \/ p = "kernel"
  BY DEF Procesos
<1>2. CASE p = "filesystem"
  BY <1>2, Lugares, Tabla DEF Hace, Puerto
<1>3. CASE p = "memoria"
  BY <1>3, Lugares, Tabla DEF Hace, Puerto
<1>4. CASE p = "cpu"
  BY <1>4, Lugares, Tabla DEF Hace, Puerto
<1>5. CASE p = "kernel"
  BY ZenonT(60), <1>5, Lugares, Tabla DEF Hace, Puerto
<1> QED BY <1>1, <1>2, <1>3, <1>4, <1>5

LEMMA QuienAcepta ==
  ASSUME Tipos, NEW p \in Procesos, Hace(p, {"esperar_cliente", "while esperar_cliente"})
  PROVE  \/ p = "filesystem" /\ paso[p] = 2 /\ Puerto(p) = "fs" /\ ~Hace(p, {"esperar_cliente"})
         \/ p = "memoria" /\ paso[p] = 3 /\ Puerto(p) = "memoria" /\ Hace(p, {"esperar_cliente"})
         \/ p = "memoria" /\ paso[p] = 4 /\ Puerto(p) = "memoria" /\ ~Hace(p, {"esperar_cliente"})
         \/ p = "cpu" /\ paso[p] = 3 /\ Puerto(p) = "dispatch" /\ Hace(p, {"esperar_cliente"})
         \/ p = "cpu" /\ paso[p] = 5 /\ Puerto(p) = "interrupt" /\ Hace(p, {"esperar_cliente"})
<1>1. p = "filesystem" \/ p = "memoria" \/ p = "cpu" \/ p = "kernel"
  BY DEF Procesos
<1>2. CASE p = "filesystem"
  BY ZenonT(60), <1>2, Lugares, Tabla DEF Hace, Puerto
<1>3. CASE p = "memoria"
  BY ZenonT(60), <1>3, Lugares, Tabla DEF Hace, Puerto
<1>4. CASE p = "cpu"
  BY ZenonT(60), <1>4, Lugares, Tabla DEF Hace, Puerto
<1>5. CASE p = "kernel"
  BY <1>5, Lugares, Tabla DEF Hace, Puerto
<1> QED BY <1>1, <1>2, <1>3, <1>4, <1>5

\* The other way round: these places are calls to crear_conexion.
LEMMA EsConexion ==
  ASSUME NEW p,
         \/ p = "memoria" /\ paso[p] = 2
         \/ p = "cpu" /\ paso[p] = 1
         \/ p = "kernel" /\ (paso[p] = 1 \/ paso[p] = 2 \/ paso[p] = 3)
  PROVE  Hace(p, {"crear_conexion"})
BY ZenonT(60), Tabla DEF Hace

LEMMA Servidores ==
  /\ Servidor["fs"] = "filesystem" /\ Servidor["memoria"] = "memoria"
  /\ Servidor["dispatch"] = "cpu" /\ Servidor["interrupt"] = "cpu"
  /\ \A q \in Puertos : Servidor[q] \in Procesos
BY DEF Servidor, Puertos, Procesos

\* Whoever waits for a handshake is at one of these places.
LEMMA QuienEspera ==
  ASSUME Tipos, Sockets, NEW p \in Procesos, espera[p]
  PROVE  \/ p = "memoria" /\ paso[p] = 2 /\ Puerto(p) = "fs"
         \/ p = "cpu" /\ paso[p] = 1 /\ Puerto(p) = "memoria"
         \/ p = "kernel" /\ paso[p] = 1 /\ Puerto(p) = "dispatch"
         \/ p = "kernel" /\ paso[p] = 2 /\ Puerto(p) = "interrupt"
         \/ p = "kernel" /\ paso[p] = 3 /\ Puerto(p) = "memoria"
BY QuienConecta DEF Sockets

\* What the types and the sockets say of the three that matter.
LEMMA Numeros ==
  ASSUME Tipos
  PROVE  /\ paso["cpu"] \in Nat /\ paso["kernel"] \in Nat /\ paso["memoria"] \in Nat
         /\ vez["cpu"] \in Nat /\ vez["kernel"] \in Nat /\ vez["memoria"] \in Nat
         /\ destino["kernel"]["dispatch"] \in Nat /\ destino["cpu"]["memoria"] \in Nat
BY DEF Tipos, Procesos, Puertos

LEMMA Cerrados ==
  ASSUME Tipos, Sockets
  PROVE  /\ paso["memoria"] = 0 =>
              /\ "memoria" \notin escuchan
              /\ cola["memoria"] = << >> /\ aceptados["memoria"] = << >>
         /\ paso["cpu"] = 0 =>
              /\ "dispatch" \notin escuchan /\ "interrupt" \notin escuchan
              /\ cola["dispatch"] = << >> /\ aceptados["dispatch"] = << >>
              /\ cola["interrupt"] = << >> /\ aceptados["interrupt"] = << >>
         /\ vez["memoria"] = 0 => paso["memoria"] = 0
         /\ vez["cpu"] = 0 => paso["cpu"] = 0
         /\ destino["kernel"]["dispatch"] <= vez["cpu"]
         /\ destino["cpu"]["memoria"] <= vez["memoria"]
         /\ paso["kernel"] = 0 => destino["kernel"]["dispatch"] = 0 /\ ~espera["kernel"]
         /\ paso["cpu"] = 0 => ~espera["cpu"]
BY Servidores DEF Sockets, Procesos, Puertos, Hace

LEMMA Entradas ==
  ASSUME Tipos, NEW q \in Puertos
  PROVE  /\ cola[q] \in Seq(Clientes) /\ aceptados[q] \in Seq(Clientes)
         /\ \A i \in DOMAIN cola[q] : cola[q][i] \in Clientes /\ cola[q][i][2] \in Nat
         /\ \A i \in DOMAIN aceptados[q] :
              aceptados[q][i] \in Clientes /\ aceptados[q][i][2] \in Nat
<1>1. cola[q] \in Seq(Clientes) /\ aceptados[q] \in Seq(Clientes)
  BY DEF Tipos
<1>2. /\ \A i \in DOMAIN cola[q] : cola[q][i] \in Clientes
      /\ \A i \in DOMAIN aceptados[q] : aceptados[q][i] \in Clientes
  BY <1>1
<1> QED BY <1>1, <1>2 DEF Clientes

-----------------------------------------------------------------------------
(* The invariant holds at the start and every step keeps it *)

LEMMA InicioIInv == Init => IInv
<1> SUFFICES ASSUME Init PROVE IInv
  OBVIOUS
<1>1. Tipos
  BY Largos DEF Init, Tipos, Procesos, Puertos
<1>2. Sockets
  BY Servidores DEF Init, Sockets, Hace, Procesos, Puertos
<1>3. PuertosDeLaCpu
  BY DEF Init, PuertosDeLaCpu, Procesos, Puertos
<1>4. TrasLaCpu /\ Primero
  BY DEF Init, TrasLaCpu, Primero, Procesos, Puertos
<1>5. CpusEnOrden /\ UnKernel
  BY DEF Init, CpusEnOrden, UnKernel, Procesos, Puertos
<1>6. KernelConectado
  BY DEF Init, KernelConectado, Procesos, Puertos
<1> QED BY <1>1, <1>2, <1>3, <1>4, <1>5, <1>6 DEF IInv

LEMMA PasoArrancar ==
  ASSUME IInv, NEW p \in Procesos, Arrancar(p)
  PROVE  IInv'
<1> USE DEF IInv
<1>0. /\ paso' = [paso EXCEPT ![p] = 1] /\ paso[p] = 0 /\ vez' = [vez EXCEPT ![p] = @ + 1]
      /\ UNCHANGED <<espera, destino, escuchan, cola, aceptados, respondidos>>
  BY DEF Arrancar
<1>t. paso \in [Procesos -> Nat] /\ vez \in [Procesos -> Nat]
  BY DEF Tipos
<1>n. /\ paso'[p] = 1 /\ vez'[p] = vez[p] + 1
      /\ \A r \in Procesos : r # p => paso'[r] = paso[r] /\ vez'[r] = vez[r]
  BY <1>0, <1>t
<1>v. /\ paso'["cpu"] = IF p = "cpu" THEN 1 ELSE paso["cpu"]
      /\ vez'["cpu"] = IF p = "cpu" THEN vez["cpu"] + 1 ELSE vez["cpu"]
      /\ paso'["kernel"] = IF p = "kernel" THEN 1 ELSE paso["kernel"]
      /\ vez'["kernel"] = IF p = "kernel" THEN vez["kernel"] + 1 ELSE vez["kernel"]
      /\ paso'["memoria"] = IF p = "memoria" THEN 1 ELSE paso["memoria"]
      /\ vez'["memoria"] = IF p = "memoria" THEN vez["memoria"] + 1 ELSE vez["memoria"]
  BY <1>n DEF Procesos
<1>1. Tipos'
  <2>1. \A r \in Procesos : 1 <= Len(Main[r])
    <3> SUFFICES ASSUME NEW r \in Procesos PROVE 1 <= Len(Main[r])
      OBVIOUS
    <3>1. r = "filesystem" \/ r = "memoria" \/ r = "cpu" \/ r = "kernel"
      BY DEF Procesos
    <3>2. CASE r = "filesystem"
      BY <3>2, Largos
    <3>3. CASE r = "memoria"
      BY <3>3, Largos
    <3>4. CASE r = "cpu"
      BY <3>4, Largos
    <3>5. CASE r = "kernel"
      BY <3>5, Largos
    <3> QED BY <3>1, <3>2, <3>3, <3>4, <3>5
  <2>2. \A r \in Procesos : paso[r] <= Len(Main[r])
    BY DEF Tipos
  <2>3. \A r \in Procesos : paso'[r] <= Len(Main[r])
    BY <1>n, <2>1, <2>2
  <2> QED BY <1>0, <2>3 DEF Tipos
<1>2. Sockets'
  <2>1. \A r \in Procesos : espera'[r] => Hace(r, {"crear_conexion"})'
    BY DEF Arrancar, Tipos, Sockets, Hace
  <2>2. \A r \in Procesos : paso'[r] # 0 => vez'[r] # 0
    BY DEF Arrancar, Tipos, Sockets
  <2>3. \A r \in Procesos, q \in Puertos :
          destino'[r][q] <= vez'[Servidor[q]] /\ (paso'[r] = 0 => destino'[r][q] = 0)
    BY Servidores DEF Arrancar, Tipos, Sockets
  <2>4. \A q \in Puertos : paso'[Servidor[q]] = 0 =>
          q \notin escuchan' /\ cola'[q] = << >> /\ aceptados'[q] = << >> /\ respondidos'[q] = {}
    BY Servidores DEF Arrancar, Tipos, Sockets
  <2>5. \A q \in Puertos : \A c \in respondidos'[q] :
          \E i \in DOMAIN aceptados'[q] : aceptados'[q][i] = c
    BY DEF Arrancar, Sockets
  <2> QED BY <2>1, <2>2, <2>3, <2>4, <2>5 DEF Sockets
<1>3. PuertosDeLaCpu'
  BY <1>0, <1>v, Numeros, Cerrados DEF PuertosDeLaCpu
<1>4. TrasLaCpu'
  BY <1>0, <1>v, Numeros, Cerrados DEF TrasLaCpu
<1>5. Primero'
  BY <1>0, <1>v, Numeros, Cerrados DEF Primero
<1>6. CpusEnOrden'
  <2>1. /\ \A i \in DOMAIN cola["memoria"] : cola["memoria"][i][2] \in Nat
        /\ \A i \in DOMAIN aceptados["memoria"] : aceptados["memoria"][i][2] \in Nat
    BY Entradas DEF Puertos
  <2> QED BY <1>0, <1>v, <2>1, Numeros DEF CpusEnOrden
<1>7. KernelConectado'
  BY <1>0, <1>v, Numeros, Cerrados DEF KernelConectado, Yo
<1>8. UnKernel'
  BY <1>0 DEF UnKernel
<1> QED BY <1>1, <1>2, <1>3, <1>4, <1>5, <1>6, <1>7, <1>8

LEMMA PasoTerminar ==
  ASSUME IInv, NEW p \in Procesos, paso[p] # 0, Terminar(p)
  PROVE  IInv'
<1> USE DEF IInv
<1>1. Tipos'
  BY DEF Terminar, Tipos
<1>2. Sockets'
  <2>1. \A r \in Procesos : espera'[r] => Hace(r, {"crear_conexion"})'
    BY DEF Terminar, Tipos, Sockets, Hace
  <2>2. \A r \in Procesos : paso'[r] # 0 => vez'[r] # 0
    BY DEF Terminar, Tipos, Sockets
  <2>3. \A r \in Procesos, q \in Puertos :
          destino'[r][q] <= vez'[Servidor[q]] /\ (paso'[r] = 0 => destino'[r][q] = 0)
    BY Servidores DEF Terminar, Tipos, Sockets
  <2>4. \A q \in Puertos : paso'[Servidor[q]] = 0 =>
          q \notin escuchan' /\ cola'[q] = << >> /\ aceptados'[q] = << >> /\ respondidos'[q] = {}
    BY Servidores DEF Terminar, Tipos, Sockets
  <2>5. \A q \in Puertos : \A c \in respondidos'[q] :
          \E i \in DOMAIN aceptados'[q] : aceptados'[q][i] = c
    BY DEF Terminar, Sockets
  <2> QED BY <2>1, <2>2, <2>3, <2>4, <2>5 DEF Sockets
<1>n. /\ vez' = vez
      /\ \A r \in Procesos :
           /\ paso'[r] = IF r = p THEN 0 ELSE paso[r]
           /\ espera'[r] = IF r = p THEN FALSE ELSE espera[r]
           /\ r # p => destino'[r] = destino[r]
      /\ \A q \in Puertos :
           /\ Servidor[q] = p => /\ q \notin escuchan' /\ cola'[q] = << >>
                                 /\ aceptados'[q] = << >> /\ respondidos'[q] = {}
           /\ Servidor[q] # p => /\ q \in escuchan' <=> q \in escuchan
                                 /\ cola'[q] = cola[q] /\ aceptados'[q] = aceptados[q]
                                 /\ respondidos'[q] = respondidos[q]
  BY DEF Terminar, Tipos
<1>c. destino'["kernel"]["dispatch"] =
        IF p = "kernel" THEN 0 ELSE destino["kernel"]["dispatch"]
  BY DEF Terminar, Tipos, Procesos, Puertos
<1>v. /\ paso'["cpu"] = IF p = "cpu" THEN 0 ELSE paso["cpu"]
      /\ espera'["cpu"] = IF p = "cpu" THEN FALSE ELSE espera["cpu"]
      /\ paso'["kernel"] = IF p = "kernel" THEN 0 ELSE paso["kernel"]
      /\ espera'["kernel"] = IF p = "kernel" THEN FALSE ELSE espera["kernel"]
      /\ paso'["memoria"] = IF p = "memoria" THEN 0 ELSE paso["memoria"]
      /\ p # "memoria" => /\ aceptados'["memoria"] = aceptados["memoria"]
                          /\ cola'["memoria"] = cola["memoria"]
  BY <1>n, Servidores DEF Procesos, Puertos
<1>d. /\ p = "cpu" => /\ "dispatch" \notin escuchan' /\ "interrupt" \notin escuchan'
                      /\ cola'["dispatch"] = << >> /\ aceptados'["dispatch"] = << >>
                      /\ cola'["interrupt"] = << >> /\ aceptados'["interrupt"] = << >>
      /\ p # "cpu" => /\ "dispatch" \in escuchan' => "dispatch" \in escuchan
                      /\ "interrupt" \in escuchan' => "interrupt" \in escuchan
                      /\ \A q \in {"dispatch", "interrupt"} :
                           /\ cola'[q] = cola[q] /\ aceptados'[q] = aceptados[q]
                           /\ respondidos'[q] = respondidos[q]
  BY <1>n, Servidores DEF Puertos
<1>3. PuertosDeLaCpu'
  BY <1>v, <1>d, Numeros, Cerrados DEF PuertosDeLaCpu
<1>4. TrasLaCpu'
  BY <1>n, <1>v, Numeros, Cerrados DEF TrasLaCpu
<1>5. Primero'
  BY <1>n, Servidores DEF Primero, Procesos, Puertos
<1>6. CpusEnOrden'
  <2>1. CASE p = "memoria"
    BY <1>n, <2>1, Servidores DEF CpusEnOrden, Puertos
  <2>2. CASE p # "memoria"
    BY <1>n, <1>v, <2>2 DEF CpusEnOrden
  <2> QED BY <2>1, <2>2
<1>7. KernelConectado'
  BY <1>n, <1>c, <1>v, <1>d, Numeros, Cerrados DEF KernelConectado, Yo
<1>8. UnKernel'
  <2>1. CASE p = "cpu"
    BY <1>n, <2>1, Servidores DEF UnKernel, Puertos
  <2>2. CASE p # "cpu"
    BY <1>n, <2>2, Servidores DEF UnKernel, Puertos
  <2> QED BY <2>1, <2>2
<1> QED BY <1>1, <1>2, <1>3, <1>4, <1>5, <1>6, <1>7, <1>8

\* main goes on to its next call.
LEMMA Siguiente ==
  ASSUME Tipos, NEW p \in Procesos,
         Hace(p, {"iniciar_servidor"}) \/ espera[p] \/ Hace(p, {"esperar_cliente"}),
         Sockets, paso' = [paso EXCEPT ![p] = @ + 1]
  PROVE  /\ paso' \in [Procesos -> Nat] /\ \A r \in Procesos : paso'[r] <= Len(Main[r])
         /\ paso[p] # 0 /\ paso'[p] = paso[p] + 1
         /\ \A r \in Procesos : r # p => paso'[r] = paso[r]
         /\ p = "cpu" => paso'["cpu"] = paso["cpu"] + 1
         /\ p # "cpu" => paso'["cpu"] = paso["cpu"]
         /\ p = "kernel" => paso'["kernel"] = paso["kernel"] + 1
         /\ p # "kernel" => paso'["kernel"] = paso["kernel"]
         /\ p = "memoria" => paso'["memoria"] = paso["memoria"] + 1
         /\ p # "memoria" => paso'["memoria"] = paso["memoria"]
<1>1. paso \in [Procesos -> Nat] /\ \A r \in Procesos : paso[r] <= Len(Main[r])
  BY DEF Tipos
<1>2. paso' \in [Procesos -> Nat] /\ paso'[p] = paso[p] + 1
      /\ \A r \in Procesos : r # p => paso'[r] = paso[r]
  BY <1>1
<1>3. \/ p = "filesystem" /\ paso[p] = 1
      \/ p = "memoria" /\ (paso[p] = 1 \/ paso[p] = 2 \/ paso[p] = 3)
      \/ p = "cpu" /\ (paso[p] = 1 \/ paso[p] = 2 \/ paso[p] = 3 \/ paso[p] = 4 \/ paso[p] = 5)
      \/ p = "kernel" /\ (paso[p] = 1 \/ paso[p] = 2 \/ paso[p] = 3)
  <2>1. CASE Hace(p, {"iniciar_servidor"})
    BY <2>1, QuienEscucha
  <2>2. CASE espera[p]
    BY <2>2, QuienEspera
  <2>3. CASE Hace(p, {"esperar_cliente"})
    <3>1. Hace(p, {"esperar_cliente", "while esperar_cliente"})
      BY <2>3 DEF Hace
    <3> QED BY <2>3, <3>1, QuienAcepta
  <2> QED BY <2>1, <2>2, <2>3
<1>4. paso'[p] <= Len(Main[p]) /\ paso[p] # 0
  <2>1. CASE p = "filesystem"
    BY <1>2, <1>3, <2>1, Largos
  <2>2. CASE p = "memoria"
    BY <1>2, <1>3, <2>2, Largos
  <2>3. CASE p = "cpu"
    BY <1>2, <1>3, <2>3, Largos
  <2>4. CASE p = "kernel"
    BY <1>2, <1>3, <2>4, Largos
  <2> QED BY <2>1, <2>2, <2>3, <2>4 DEF Procesos
<1>5. /\ p = "cpu" => paso'["cpu"] = paso["cpu"] + 1
      /\ p # "cpu" => paso'["cpu"] = paso["cpu"]
      /\ p = "kernel" => paso'["kernel"] = paso["kernel"] + 1
      /\ p # "kernel" => paso'["kernel"] = paso["kernel"]
      /\ p = "memoria" => paso'["memoria"] = paso["memoria"] + 1
      /\ p # "memoria" => paso'["memoria"] = paso["memoria"]
  BY <1>2 DEF Procesos
<1> QED BY <1>1, <1>2, <1>4, <1>5

LEMMA PasoEscuchar ==
  ASSUME IInv, NEW p \in Procesos, IniciarServidor(p)
  PROVE  IInv'
<1> USE DEF IInv
<1>0. /\ Hace(p, {"iniciar_servidor"})
      /\ escuchan' = escuchan \cup {Puerto(p)} /\ paso' = [paso EXCEPT ![p] = @ + 1]
      /\ UNCHANGED <<vez, espera, destino, cola, aceptados, respondidos>>
  BY DEF IniciarServidor
<1>q. \/ p = "filesystem" /\ paso[p] = 1 /\ Puerto(p) = "fs"
      \/ p = "memoria" /\ paso[p] = 1 /\ Puerto(p) = "memoria"
      \/ p = "cpu" /\ paso[p] = 2 /\ Puerto(p) = "dispatch"
      \/ p = "cpu" /\ paso[p] = 4 /\ Puerto(p) = "interrupt"
  BY <1>0, QuienEscucha
<1>n. /\ paso' \in [Procesos -> Nat] /\ \A r \in Procesos : paso'[r] <= Len(Main[r])
      /\ paso'[p] = paso[p] + 1 /\ \A r \in Procesos : r # p => paso'[r] = paso[r]
  BY <1>0, Siguiente
<1>v. /\ p = "cpu" => paso'["cpu"] = paso["cpu"] + 1
      /\ p # "cpu" => paso'["cpu"] = paso["cpu"]
      /\ paso'["kernel"] = paso["kernel"]
      /\ paso["memoria"] # 0 => paso'["memoria"] # 0
      /\ paso'["memoria"] # 0 => paso["memoria"] # 0
      /\ ~espera[p]
  <2>1. ~espera[p]
    BY <1>q, QuienEspera
  <2>2. /\ p = "cpu" => paso'["cpu"] = paso["cpu"] + 1
        /\ p # "cpu" => paso'["cpu"] = paso["cpu"]
        /\ p # "kernel" => paso'["kernel"] = paso["kernel"]
        /\ p = "memoria" => paso'["memoria"] = paso["memoria"] + 1
        /\ p # "memoria" => paso'["memoria"] = paso["memoria"]
    BY <1>0, Siguiente
  <2>3. CASE p = "memoria"
    BY <1>q, <2>1, <2>2, <2>3, Numeros
  <2>4. CASE p # "memoria"
    BY <1>q, <2>1, <2>2, <2>4, Numeros
  <2> QED BY <2>3, <2>4
<1>1. Tipos'
  BY <1>0, <1>n, <1>q DEF Tipos, Puertos
<1>2. Sockets'
  <2>1. \A r \in Procesos : espera'[r] => Hace(r, {"crear_conexion"})'
    BY <1>0, <1>n, <1>v DEF Sockets, Hace
  <2>2. \A r \in Procesos : paso'[r] = 0 => paso[r] = 0 /\ r # p
    BY <1>n, <1>q
  <2>3. \A r \in Procesos : paso'[r] # 0 => vez'[r] # 0
    BY <1>0, <1>n, <1>q DEF Sockets
  <2>4. \A q \in Puertos : paso'[Servidor[q]] = 0 => q \notin escuchan'
    BY <1>0, <1>q, <2>2, Servidores DEF Sockets
  <2> QED BY <1>0, <2>1, <2>2, <2>3, <2>4, Servidores DEF Sockets
<1>3. PuertosDeLaCpu'
  BY <1>0, <1>q, <1>v, Numeros DEF PuertosDeLaCpu
<1>4. TrasLaCpu'
  BY <1>0, <1>q, <1>v, Numeros DEF TrasLaCpu
<1>5. Primero' /\ UnKernel'
  BY <1>0 DEF Primero, UnKernel
<1>6. CpusEnOrden'
  BY <1>0, <1>q, <1>v, Numeros DEF CpusEnOrden
<1>7. KernelConectado'
  BY <1>0, <1>q, <1>v, Numeros DEF KernelConectado, Yo
<1> QED BY <1>1, <1>2, <1>3, <1>4, <1>5, <1>6, <1>7

LEMMA PasoRecibir ==
  ASSUME IInv, NEW p \in Procesos, RecibirHandshake(p)
  PROVE  IInv'
<1> USE DEF IInv
<1>0. /\ espera[p] /\ paso' = [paso EXCEPT ![p] = @ + 1]
      /\ espera' = [espera EXCEPT ![p] = FALSE]
      /\ UNCHANGED <<vez, destino, escuchan, cola, aceptados, respondidos>>
  BY DEF RecibirHandshake
<1>q. \/ p = "memoria" /\ paso[p] = 2 /\ Puerto(p) = "fs"
      \/ p = "cpu" /\ paso[p] = 1 /\ Puerto(p) = "memoria"
      \/ p = "kernel" /\ paso[p] = 1 /\ Puerto(p) = "dispatch"
      \/ p = "kernel" /\ paso[p] = 2 /\ Puerto(p) = "interrupt"
      \/ p = "kernel" /\ paso[p] = 3 /\ Puerto(p) = "memoria"
  BY <1>0, QuienEspera
<1>n. /\ paso' \in [Procesos -> Nat] /\ \A r \in Procesos : paso'[r] <= Len(Main[r])
      /\ paso'[p] = paso[p] + 1 /\ \A r \in Procesos : r # p => paso'[r] = paso[r]
  BY <1>0, Siguiente
<1>e. espera \in [Procesos -> BOOLEAN]
  BY DEF Tipos
<1>v. /\ paso'["cpu"] = paso["cpu"] \/ (p = "cpu" /\ paso["cpu"] = 1 /\ paso'["cpu"] = 2)
      /\ \/ paso'["kernel"] = paso["kernel"] /\ espera'["kernel"] = espera["kernel"]
         \/ p = "kernel" /\ espera["kernel"] /\ paso["kernel"] # 0
            /\ paso'["kernel"] = paso["kernel"] + 1
      /\ paso["memoria"] # 0 <=> paso'["memoria"] # 0
  <2>1. /\ p = "cpu" => paso'["cpu"] = paso["cpu"] + 1
        /\ p # "cpu" => paso'["cpu"] = paso["cpu"]
        /\ p = "kernel" => paso'["kernel"] = paso["kernel"] + 1
        /\ p # "kernel" => paso'["kernel"] = paso["kernel"]
        /\ p = "memoria" => paso'["memoria"] = paso["memoria"] + 1
        /\ p # "memoria" => paso'["memoria"] = paso["memoria"]
    BY <1>0, Siguiente
  <2>2. p # "kernel" => espera'["kernel"] = espera["kernel"]
    BY <1>0, <1>e DEF Procesos
  <2>3. p = "kernel" => espera["kernel"]
    BY <1>0
  <2>4. CASE p = "memoria"
    BY <1>q, <2>1, <2>2, <2>4, Numeros
  <2>5. CASE p = "cpu"
    BY <1>q, <2>1, <2>2, <2>5
  <2>6. CASE p = "kernel"
    BY <1>q, <2>1, <2>3, <2>6, Numeros
  <2> QED BY <1>q, <2>4, <2>5, <2>6
<1>1. Tipos'
  BY <1>0, <1>n DEF Tipos
<1>2. Sockets'
  <2>1. \A r \in Procesos : espera'[r] => Hace(r, {"crear_conexion"})'
    BY <1>0, <1>e, <1>n DEF Sockets, Hace
  <2>2. \A r \in Procesos : paso'[r] = 0 => paso[r] = 0
    BY <1>n, <1>q
  <2>3. \A r \in Procesos : paso'[r] # 0 => vez'[r] # 0
    BY <1>0, <1>n, <1>q DEF Sockets
  <2> QED BY <1>0, <2>1, <2>2, <2>3, Servidores DEF Sockets
<1>3. PuertosDeLaCpu'
  BY <1>0, <1>v, Numeros DEF PuertosDeLaCpu
<1>4. TrasLaCpu'
  <2> SUFFICES ASSUME vez["memoria"] = 0 \/ (vez["memoria"] = 1 /\ paso["memoria"] # 0),
                      p = "cpu", paso["cpu"] = 1
               PROVE  aceptados["memoria"] # << >>
    BY <1>0, <1>v, Numeros DEF TrasLaCpu
  <2>1. Puerto("cpu") = "memoria"
    BY <1>q
  <2>2. ~Perdido("cpu", "memoria")
    BY Numeros, Cerrados, Servidores DEF Perdido, Vivo
  <2>3. Yo("cpu") \in respondidos["memoria"]
    BY <2>1, <2>2 DEF RecibirHandshake
  <2> QED BY <2>3 DEF Sockets, Puertos
<1>5. Primero' /\ UnKernel'
  BY <1>0 DEF Primero, UnKernel
<1>6. CpusEnOrden'
  BY <1>0, <1>e, <1>n, <1>q, <1>v DEF CpusEnOrden, Procesos
<1>7. KernelConectado'
  <2>1. CASE p = "kernel" /\ paso["kernel"] = 1
    <3>1. paso["cpu"] # 0 /\ destino["kernel"]["dispatch"] = vez["cpu"]
            /\ destino["kernel"]["dispatch"] # 0 => ~Perdido("kernel", "dispatch")
      BY Servidores DEF Perdido, Vivo
    <3>2. Puerto("kernel") = "dispatch"
      BY <1>q, <2>1
    <3> QED BY <1>0, <1>v, <2>1, <3>1, <3>2 DEF KernelConectado, RecibirHandshake, Yo
  <2>2. CASE ~(p = "kernel" /\ paso["kernel"] = 1)
    BY <1>0, <1>v, <1>q, <2>2, Numeros DEF KernelConectado, Yo
  <2> QED BY <2>1, <2>2
<1> QED BY <1>1, <1>2, <1>3, <1>4, <1>5, <1>6, <1>7

LEMMA PasoConectar ==
  ASSUME IInv, NEW p \in Procesos, CrearConexion(p), Puerto(p) \in escuchan
  PROVE  IInv'
<1> USE DEF IInv
<1> DEFINE q == Puerto(p)
<1>0. /\ Hace(p, {"crear_conexion"}) /\ ~espera[p] /\ q \in escuchan
      /\ cola' = [cola EXCEPT ![q] = Append(@, Yo(p))]
      /\ espera' = [espera EXCEPT ![p] = TRUE]
      /\ destino' = [destino EXCEPT ![p][q] = vez[Servidor[q]]]
      /\ UNCHANGED <<paso, vez, escuchan, aceptados, respondidos>>
  BY DEF CrearConexion
<1>q. \/ p = "memoria" /\ paso[p] = 2 /\ q = "fs"
      \/ p = "cpu" /\ paso[p] = 1 /\ q = "memoria"
      \/ p = "kernel" /\ paso[p] = 1 /\ q = "dispatch"
      \/ p = "kernel" /\ paso[p] = 2 /\ q = "interrupt"
      \/ p = "kernel" /\ paso[p] = 3 /\ q = "memoria"
  BY <1>0, QuienConecta
<1>p. q \in Puertos /\ Servidor[q] \in Procesos /\ paso[Servidor[q]] # 0
  BY <1>0, Servidores DEF Tipos, Sockets
<1>y. Yo(p) \in Clientes /\ Yo(p)[1] = p /\ Yo(p)[2] = vez[p] /\ vez[p] \in Nat
  BY DEF Yo, Clientes, Tipos
<1>t. /\ cola \in [Puertos -> Seq(Clientes)] /\ espera \in [Procesos -> BOOLEAN]
      /\ destino \in [Procesos -> [Puertos -> Nat]] /\ vez[Servidor[q]] \in Nat
  BY <1>p DEF Tipos
<1>n. /\ cola'[q] = Append(cola[q], Yo(p)) /\ \A r \in Puertos : r # q => cola'[r] = cola[r]
      /\ espera'[p] /\ \A r \in Procesos : r # p => espera'[r] = espera[r]
      /\ destino'[p][q] = vez[Servidor[q]]
      /\ \A r \in Procesos, s \in Puertos : r # p \/ s # q => destino'[r][s] = destino[r][s]
  BY <1>0, <1>p, <1>t
<1>a. /\ Len(cola'[q]) = Len(cola[q]) + 1 /\ cola'[q] # << >>
      /\ DOMAIN cola'[q] = 1 .. Len(cola[q]) + 1 /\ DOMAIN cola[q] = 1 .. Len(cola[q])
      /\ \A i \in DOMAIN cola[q] : cola'[q][i] = cola[q][i]
      /\ cola'[q][Len(cola[q]) + 1] = Yo(p)
      /\ Len(cola[q]) \in Nat
  BY <1>n, <1>p, <1>t, <1>y
<1>1. Tipos'
  BY <1>0, <1>t, <1>y, <1>p DEF Tipos
<1>2. Sockets'
  <2>1. \A r \in Procesos : espera'[r] => Hace(r, {"crear_conexion"})'
    BY <1>0, <1>n DEF Sockets, Hace
  <2>2. \A r \in Procesos, s \in Puertos :
          destino'[r][s] <= vez'[Servidor[s]] /\ (paso'[r] = 0 => destino'[r][s] = 0)
    BY <1>0, <1>n, <1>q, <1>t DEF Sockets
  <2>3. \A s \in Puertos : paso'[Servidor[s]] = 0 =>
          s \notin escuchan' /\ cola'[s] = << >> /\ aceptados'[s] = << >> /\ respondidos'[s] = {}
    BY <1>0, <1>n, <1>p DEF Sockets
  <2> QED BY <1>0, <2>1, <2>2, <2>3 DEF Sockets
<1>3. PuertosDeLaCpu'
  <2>1. CASE q = "interrupt"
    BY <1>0, <2>1 DEF PuertosDeLaCpu
  <2>2. CASE q # "interrupt"
    BY <1>0, <1>n, <2>2 DEF PuertosDeLaCpu, Puertos
  <2> QED BY <2>1, <2>2
<1>4. TrasLaCpu'
  <2>1. CASE p = "kernel" /\ paso["kernel"] = 1
    BY <1>0, <1>q, <2>1, Numeros DEF TrasLaCpu, PuertosDeLaCpu
  <2>2. CASE ~(p = "kernel" /\ paso["kernel"] = 1)
    BY <1>0, <1>n, <1>q, <2>2 DEF TrasLaCpu, Procesos
  <2> QED BY <2>1, <2>2
<1>5. Primero'
  <2>1. CASE q # "memoria"
    BY <1>0, <1>n, <2>1 DEF Primero, Puertos
  <2>2. CASE p = "cpu" /\ q = "memoria"
    BY <1>0, <1>a, <1>y, <2>2 DEF Primero
  <2>3. CASE p = "kernel" /\ q = "memoria"
    <3>1. vez["memoria"] = 1 => aceptados["memoria"] # << >>
      BY <1>p, <1>q, <2>3, Servidores, Numeros DEF TrasLaCpu
    <3> QED BY <1>0, <2>3, <3>1 DEF Primero
  <2> QED BY <1>q, <2>1, <2>2, <2>3
<1>6. CpusEnOrden'
  <2>1. CASE q # "memoria"
    BY <1>0, <1>n, <1>q, <2>1 DEF CpusEnOrden, Puertos, Procesos
  <2>2. CASE p = "cpu" /\ q = "memoria"
    <3> DEFINE c == cola["memoria"]
               a == aceptados["memoria"]
    <3>1. paso["cpu"] = 1 /\ ~espera["cpu"]
      BY <1>0, <1>q, <2>2
    <3>2. /\ \A i \in DOMAIN c : c[i][2] \in Nat
          /\ \A i \in DOMAIN a : a[i][2] \in Nat
      BY Entradas DEF Puertos
    <3>3. /\ \A i \in DOMAIN c : c[i][1] = "cpu" => c[i][2] < vez["cpu"]
          /\ \A i \in DOMAIN a : a[i][1] = "cpu" => a[i][2] < vez["cpu"]
      BY <3>1, <3>2, Numeros DEF CpusEnOrden
    <3>4. /\ espera'["cpu"] /\ Yo("cpu")[2] = vez["cpu"]
      BY <1>n, <1>y, <2>2
    <3>5. \A i \in DOMAIN c' :
            (i \in DOMAIN c /\ c'[i] = c[i]) \/ (i = Len(c) + 1 /\ c'[i] = Yo("cpu"))
      BY <1>a, <2>2
    <3>6. DOMAIN c = 1 .. Len(c) /\ Len(c) \in Nat
      BY <1>a, <2>2
    <3>7. \A i \in DOMAIN c' : c'[i][1] = "cpu" => c'[i][2] <= vez["cpu"]
      BY <3>2, <3>3, <3>4, <3>5, Numeros
    <3>8. \A i, j \in DOMAIN c' :
            i < j /\ c'[i][1] = "cpu" /\ c'[j][1] = "cpu" => c'[i][2] < c'[j][2]
      BY <3>3, <3>4, <3>5, <3>6 DEF CpusEnOrden
    <3>9. \A i \in DOMAIN a, j \in DOMAIN c' :
            a[i][1] = "cpu" /\ c'[j][1] = "cpu" => a[i][2] < c'[j][2]
      BY <3>3, <3>4, <3>5 DEF CpusEnOrden
    <3>10. a' = a /\ vez'["cpu"] = vez["cpu"]
      BY <1>0
    <3>11. \A i, j \in DOMAIN a : i < j =>
             (a[i][1] = "cpu" /\ a[j][1] = "cpu" => a[i][2] < a[j][2])
      BY DEF CpusEnOrden, a
    <3>12. \A i \in DOMAIN a : a[i][1] = "cpu" => a[i][2] <= vez["cpu"]
      BY DEF CpusEnOrden, a
    <3> QED BY <3>4, <3>7, <3>8, <3>9, <3>10, <3>11, <3>12 DEF CpusEnOrden
  <2>3. CASE p = "kernel" /\ q = "memoria"
    BY <1>0, <1>a, <1>n, <1>y, <2>3 DEF CpusEnOrden, Procesos
  <2> QED BY <1>q, <2>1, <2>2, <2>3
<1>7. KernelConectado'
  <2>1. CASE p = "kernel" /\ q = "dispatch"
    <3>1. vez["cpu"] # 0
      BY <1>p, <2>1, Servidores, Cerrados
    <3> QED BY <1>0, <1>n, <1>q, <2>1, <3>1, Servidores, Numeros DEF KernelConectado
  <2>2. CASE ~(p = "kernel" /\ q = "dispatch")
    <3>1. destino'["kernel"]["dispatch"] = destino["kernel"]["dispatch"]
      BY <1>n, <2>2 DEF Procesos, Puertos
    <3>2. cola'["dispatch"] = cola["dispatch"]
      BY <1>n, <1>q, <2>2 DEF Puertos
    <3>3. espera'["kernel"] = espera["kernel"] \/ paso["kernel"] > 1
      BY <1>n, <1>q, <2>2 DEF Procesos
    <3> QED BY <1>0, <3>1, <3>2, <3>3 DEF KernelConectado, Yo
  <2> QED BY <2>1, <2>2
<1>8. UnKernel'
  <2>1. CASE q # "interrupt"
    BY <1>0, <1>n, <2>1 DEF UnKernel, Puertos
  <2>2. CASE q = "interrupt"
    <3>1. p = "kernel" /\ paso["kernel"] = 2 /\ paso["cpu"] >= 5
      BY <1>0, <1>q, <2>2 DEF PuertosDeLaCpu
    <3>2. Len(aceptados["dispatch"]) = 1 /\ aceptados["dispatch"] # << >>
      BY <3>1, Numeros DEF PuertosDeLaCpu
    <3>3. Yo("kernel") \in respondidos["dispatch"]
      BY <3>1, <3>2, Numeros DEF KernelConectado
    <3>4. aceptados["dispatch"][1] = Yo("kernel")
      BY <3>2, <3>3, Entradas DEF Sockets, Puertos
    <3>5. \A i \in DOMAIN cola'["interrupt"] : cola'["interrupt"][i] = aceptados["dispatch"][1]
      BY <1>a, <2>2, <3>1, <3>4 DEF UnKernel
    <3> QED BY <1>0, <3>5 DEF UnKernel
  <2> QED BY <2>1, <2>2
<1> QED BY <1>1, <1>2, <1>3, <1>4, <1>5, <1>6, <1>7, <1>8

LEMMA Sacar ==
  ASSUME NEW S, NEW s \in Seq(S), s # << >>
  PROVE  /\ Head(s) \in S /\ Head(s) = s[1] /\ 1 \in DOMAIN s
         /\ Tail(s) \in Seq(S)
         /\ DOMAIN s = 1 .. Len(s) /\ Len(s) \in Nat \ {0}
         /\ DOMAIN Tail(s) = 1 .. Len(s) - 1
         /\ \A i \in DOMAIN Tail(s) : i + 1 \in DOMAIN s /\ Tail(s)[i] = s[i + 1]
OBVIOUS

LEMMA Agregar ==
  ASSUME NEW S, NEW s \in Seq(S), NEW e \in S
  PROVE  /\ Append(s, e) \in Seq(S) /\ Append(s, e) # << >>
         /\ DOMAIN s = 1 .. Len(s) /\ Len(s) \in Nat
         /\ Len(Append(s, e)) = Len(s) + 1
         /\ DOMAIN Append(s, e) = 1 .. Len(s) + 1
         /\ \A i \in DOMAIN s : Append(s, e)[i] = s[i]
         /\ Append(s, e)[Len(s) + 1] = e
OBVIOUS

\* Nothing new for memoria's clients, and the CPU not back where it connects from.
LEMMA MismoOrden ==
  ASSUME CpusEnOrden, vez' = vez, espera' = espera, paso'["cpu"] = 1 => paso["cpu"] = 1,
         aceptados'["memoria"] = aceptados["memoria"], cola'["memoria"] = cola["memoria"]
  PROVE  CpusEnOrden'
BY DEF CpusEnOrden

\* The server at the other end of port q takes the client at the head of its queue.
LEMMA PasoAceptarEn ==
  ASSUME IInv, NEW p \in Procesos, NEW q \in Puertos, NEW cliente \in Clientes,
         NEW enLista \in BOOLEAN,
         \/ p = "filesystem" /\ paso[p] = 2 /\ q = "fs" /\ ~enLista
         \/ p = "memoria" /\ paso[p] = 3 /\ q = "memoria" /\ enLista
         \/ p = "memoria" /\ paso[p] = 4 /\ q = "memoria" /\ ~enLista
         \/ p = "cpu" /\ paso[p] = 3 /\ q = "dispatch" /\ enLista
         \/ p = "cpu" /\ paso[p] = 5 /\ q = "interrupt" /\ enLista,
         cola[q] # << >>, cliente = Head(cola[q]),
         cola' = [cola EXCEPT ![q] = Tail(@)],
         aceptados' = [aceptados EXCEPT ![q] = Append(@, cliente)],
         respondidos' = [respondidos EXCEPT ![q] = @ \cup {cliente}],
         paso' \in [Procesos -> Nat], \A r \in Procesos : paso'[r] <= Len(Main[r]),
         \A r \in Procesos : r # p => paso'[r] = paso[r],
         enLista => paso'[p] = paso[p] + 1,
         ~enLista => paso' = paso,
         UNCHANGED <<vez, espera, destino, escuchan>>
  PROVE  IInv'
<1> USE DEF IInv
<1>0. UNCHANGED <<vez, espera, destino, escuchan>>
  OBVIOUS
<1>q. \/ p = "filesystem" /\ paso[p] = 2 /\ q = "fs" /\ ~enLista
      \/ p = "memoria" /\ paso[p] = 3 /\ q = "memoria" /\ enLista
      \/ p = "memoria" /\ paso[p] = 4 /\ q = "memoria" /\ ~enLista
      \/ p = "cpu" /\ paso[p] = 3 /\ q = "dispatch" /\ enLista
      \/ p = "cpu" /\ paso[p] = 5 /\ q = "interrupt" /\ enLista
  OBVIOUS
<1>p. Servidor[q] = p
  BY <1>q, Servidores
<1>t. /\ cola \in [Puertos -> Seq(Clientes)] /\ aceptados \in [Puertos -> Seq(Clientes)]
      /\ respondidos \in [Puertos -> SUBSET Clientes]
  BY DEF Tipos
<1>n. paso'[p] # 0 /\ \A r \in Procesos : r # p => paso'[r] = paso[r]
  BY <1>q
<1>v. /\ p = "cpu" => paso'["cpu"] = paso["cpu"] + 1
      /\ p # "cpu" => paso'["cpu"] = paso["cpu"]
      /\ paso'["kernel"] = paso["kernel"]
      /\ paso["memoria"] # 0 <=> paso'["memoria"] # 0
  <2>1. p = "cpu" => paso'["cpu"] = paso["cpu"] + 1
    BY <1>q
  <2>2. p # "cpu" => paso'["cpu"] = paso["cpu"]
    BY DEF Procesos
  <2>3. paso'["kernel"] = paso["kernel"]
    BY <1>q DEF Procesos
  <2>4. paso["memoria"] # 0 <=> paso'["memoria"] # 0
    BY <1>n, <1>q DEF Procesos
  <2> QED BY <2>1, <2>2, <2>3, <2>4
<1>c. /\ cola'[q] = Tail(cola[q]) /\ aceptados'[q] = Append(aceptados[q], cliente)
      /\ respondidos'[q] = respondidos[q] \cup {cliente}
  BY <1>t
<1>r. \A r \in Puertos : r # q => /\ cola'[r] = cola[r] /\ aceptados'[r] = aceptados[r]
                                  /\ respondidos'[r] = respondidos[r]
  BY <1>t
<1>s. /\ DOMAIN cola'[q] = 1 .. Len(cola[q]) - 1 /\ DOMAIN cola[q] = 1 .. Len(cola[q])
      /\ \A i \in DOMAIN cola'[q] : i + 1 \in DOMAIN cola[q] /\ cola'[q][i] = cola[q][i + 1]
      /\ Len(cola[q]) \in Nat \ {0} /\ cliente = cola[q][1] /\ 1 \in DOMAIN cola[q]
      /\ cola'[q] \in Seq(Clientes)
  <2>1. cola[q] \in Seq(Clientes)
    BY <1>t
  <2>2. cola[q] # << >> /\ cliente = Head(cola[q])
    OBVIOUS
  <2>3. /\ Head(cola[q]) = cola[q][1] /\ 1 \in DOMAIN cola[q]
        /\ Tail(cola[q]) \in Seq(Clientes)
        /\ DOMAIN cola[q] = 1 .. Len(cola[q]) /\ Len(cola[q]) \in Nat \ {0}
        /\ DOMAIN Tail(cola[q]) = 1 .. Len(cola[q]) - 1
        /\ \A i \in DOMAIN Tail(cola[q]) :
             i + 1 \in DOMAIN cola[q] /\ Tail(cola[q])[i] = cola[q][i + 1]
    BY <2>1, <2>2, Sacar
  <2> QED BY <1>c, <2>2, <2>3, Zenon
<1>a. /\ Len(aceptados'[q]) = Len(aceptados[q]) + 1 /\ aceptados'[q] # << >>
      /\ DOMAIN aceptados'[q] = 1 .. Len(aceptados[q]) + 1
      /\ DOMAIN aceptados[q] = 1 .. Len(aceptados[q]) /\ Len(aceptados[q]) \in Nat
      /\ \A i \in DOMAIN aceptados[q] : aceptados'[q][i] = aceptados[q][i]
      /\ aceptados'[q][Len(aceptados[q]) + 1] = cliente
      /\ aceptados'[q] \in Seq(Clientes)
  <2>1. aceptados[q] \in Seq(Clientes)
    BY <1>t
  <2>2. ASSUME NEW s, s = aceptados[q]
        PROVE  /\ DOMAIN s = 1 .. Len(s) /\ Len(s) \in Nat
               /\ Append(s, cliente) \in Seq(Clientes) /\ Append(s, cliente) # << >>
               /\ Len(Append(s, cliente)) = Len(s) + 1
               /\ DOMAIN Append(s, cliente) = 1 .. Len(s) + 1
               /\ \A i \in DOMAIN s : Append(s, cliente)[i] = s[i]
               /\ Append(s, cliente)[Len(s) + 1] = cliente
    <3>1. s \in Seq(Clientes)
      BY <2>1, <2>2
    <3>2. DOMAIN s = 1 .. Len(s) /\ Len(s) \in Nat /\ Append(s, cliente) \in Seq(Clientes)
      BY <3>1
    <3>3. /\ Len(Append(s, cliente)) = Len(s) + 1
          /\ DOMAIN Append(s, cliente) = 1 .. Len(s) + 1
      BY <3>1
    <3>4. /\ \A i \in DOMAIN s : Append(s, cliente)[i] = s[i]
          /\ Append(s, cliente)[Len(s) + 1] = cliente
      BY <3>1, Agregar
    <3>5. Append(s, cliente) # << >>
      <4>1. Len(<< >>) = 0
        OBVIOUS
      <4>2. Len(s) + 1 # 0
        BY <3>2
      <4> QED BY <3>3, <4>1, <4>2, Zenon
    <3> QED BY <3>2, <3>3, <3>4, <3>5
  <2>3. /\ DOMAIN aceptados[q] = 1 .. Len(aceptados[q]) /\ Len(aceptados[q]) \in Nat
        /\ Append(aceptados[q], cliente) \in Seq(Clientes)
        /\ Append(aceptados[q], cliente) # << >>
        /\ Len(Append(aceptados[q], cliente)) = Len(aceptados[q]) + 1
        /\ DOMAIN Append(aceptados[q], cliente) = 1 .. Len(aceptados[q]) + 1
        /\ \A i \in DOMAIN aceptados[q] : Append(aceptados[q], cliente)[i] = aceptados[q][i]
        /\ Append(aceptados[q], cliente)[Len(aceptados[q]) + 1] = cliente
    BY <2>2, Zenon
  <2>4. aceptados'[q] = Append(aceptados[q], cliente)
    BY <1>c
  <2> QED BY <2>3, <2>4, Zenon
<1>1. Tipos'
  <2>1. paso' \in [Procesos -> Nat] /\ \A r \in Procesos : paso'[r] <= Len(Main[r])
    OBVIOUS
  <2>2. cola' \in [Puertos -> Seq(Clientes)]
    BY <1>c, <1>s, <1>t
  <2>3. aceptados' \in [Puertos -> Seq(Clientes)]
    BY <1>a, <1>c, <1>t
  <2>4. respondidos' \in [Puertos -> SUBSET Clientes]
    BY <1>c, <1>t
  <2>5. /\ vez' \in [Procesos -> Nat] /\ espera' \in [Procesos -> BOOLEAN]
        /\ destino' \in [Procesos -> [Puertos -> Nat]] /\ escuchan' \subseteq Puertos
    BY <1>0 DEF Tipos
  <2> QED BY <2>1, <2>2, <2>3, <2>4, <2>5 DEF Tipos
<1>2. Sockets'
  <2>1. \A r \in Procesos : espera'[r] => Hace(r, {"crear_conexion"})'
    <3>1. ~espera[p]
      BY <1>q, QuienEspera
    <3> QED BY <1>0, <1>n, <3>1 DEF Sockets, Hace
  <2>2. \A r \in Procesos : paso'[r] = 0 <=> paso[r] = 0
    BY <1>n, <1>q
  <2>3. \A r \in Puertos : paso'[Servidor[r]] = 0 =>
          r \notin escuchan' /\ cola'[r] = << >> /\ aceptados'[r] = << >> /\ respondidos'[r] = {}
    <3> TAKE r \in Puertos
    <3> HAVE paso'[Servidor[r]] = 0
    <3>1. r # q
      BY <1>n, <1>p
    <3>2. paso[Servidor[r]] = 0
      BY <2>2, Servidores
    <3>3. r \notin escuchan /\ cola[r] = << >> /\ aceptados[r] = << >> /\ respondidos[r] = {}
      BY <3>2 DEF Sockets
    <3> QED BY <1>0, <1>r, <3>1, <3>3
  <2>4. \A r \in Puertos : \A k \in respondidos'[r] :
          \E i \in DOMAIN aceptados'[r] : aceptados'[r][i] = k
    <3>1. ASSUME NEW k \in respondidos'[q]
          PROVE  \E i \in DOMAIN aceptados'[q] : aceptados'[q][i] = k
      <4>1. CASE k = cliente
        <5>1. Len(aceptados[q]) + 1 \in DOMAIN aceptados'[q]
          BY <1>a
        <5> QED BY <1>a, <4>1, <5>1
      <4>2. CASE k \in respondidos[q]
        <5>1. PICK i \in DOMAIN aceptados[q] : aceptados[q][i] = k
          BY <4>2 DEF Sockets
        <5>2. i \in DOMAIN aceptados'[q] /\ aceptados'[q][i] = k
          BY <1>a, <5>1
        <5> QED BY <5>2
      <4> QED BY <1>c, <3>1, <4>1, <4>2
    <3>2. ASSUME NEW r \in Puertos, r # q, NEW k \in respondidos'[r]
          PROVE  \E i \in DOMAIN aceptados'[r] : aceptados'[r][i] = k
      <4>1. respondidos'[r] = respondidos[r] /\ aceptados'[r] = aceptados[r]
        BY <1>r, <3>2
      <4>2. k \in respondidos[r]
        BY <3>2, <4>1
      <4>3. \E i \in DOMAIN aceptados[r] : aceptados[r][i] = k
        BY <4>2 DEF Sockets
      <4> QED BY <4>1, <4>3
    <3> TAKE r \in Puertos
    <3> TAKE k \in respondidos'[r]
    <3>3. CASE r = q
      BY <3>1, <3>3
    <3>4. CASE r # q
      BY <3>2, <3>4
    <3> QED BY <3>3, <3>4
  <2>5. \A r \in Procesos : paso'[r] # 0 => vez'[r] # 0
    BY <1>0, <2>2 DEF Sockets
  <2>6. \A r \in Procesos, s \in Puertos :
          destino'[r][s] <= vez'[Servidor[s]] /\ (paso'[r] = 0 => destino'[r][s] = 0)
    BY <1>0, <2>2 DEF Sockets
  <2> QED BY <2>1, <2>3, <2>4, <2>5, <2>6 DEF Sockets
<1>3. PuertosDeLaCpu'
  <2>1. CASE p # "cpu"
    BY <1>0, <1>c, <1>r, <1>q, <1>v, <2>1 DEF PuertosDeLaCpu, Puertos
  <2>2. CASE q = "dispatch"
    <3>1. paso["cpu"] = 3 /\ paso'["cpu"] = 4
      BY <1>q, <1>v, <2>2
    <3>2. Len(aceptados'["dispatch"]) = 1
      BY <1>a, <2>2, <3>1 DEF PuertosDeLaCpu
    <3>3. aceptados'["interrupt"] = aceptados["interrupt"] /\ cola'["interrupt"] = cola["interrupt"]
      BY <1>r, <2>2 DEF Puertos
    <3>4. /\ ~("interrupt" \in escuchan \/ cola["interrupt"] # << >>)
          /\ Len(aceptados["interrupt"]) = 0
      BY <3>1 DEF PuertosDeLaCpu
    <3> QED BY <1>0, <3>1, <3>2, <3>3, <3>4 DEF PuertosDeLaCpu
  <2>3. CASE q = "interrupt"
    <3>1. paso["cpu"] = 5 /\ paso'["cpu"] = 6
      BY <1>q, <1>v, <2>3
    <3>2. Len(aceptados'["interrupt"]) = 1
      BY <1>a, <2>3, <3>1 DEF PuertosDeLaCpu
    <3>3. Len(aceptados'["dispatch"]) = 1
      BY <1>r, <2>3, <3>1 DEF PuertosDeLaCpu, Puertos
    <3> QED BY <1>0, <3>1, <3>2, <3>3 DEF PuertosDeLaCpu
  <2> QED BY <1>q, <2>1, <2>2, <2>3
<1>4. TrasLaCpu'
  <2>1. CASE q = "memoria"
    BY <1>a, <2>1 DEF TrasLaCpu
  <2>2. CASE q # "memoria"
    BY SMTT(30), <1>0, <1>c, <1>r, <1>q, <1>v, <2>2, Numeros DEF TrasLaCpu, PuertosDeLaCpu, Puertos
  <2> QED BY <2>1, <2>2
<1>5. Primero'
  <2>1. CASE q = "memoria"
    <3> SUFFICES ASSUME vez["memoria"] = 1 PROVE aceptados'["memoria"][1][1] = "cpu"
      BY <1>0, <1>a, <2>1 DEF Primero
    <3>1. CASE aceptados["memoria"] # << >>
      <4>1. 1 \in DOMAIN aceptados["memoria"]
        BY <1>t, <3>1 DEF Puertos
      <4> QED BY <1>a, <2>1, <3>1, <4>1 DEF Primero
    <3>2. CASE aceptados["memoria"] = << >>
      <4>1. cliente[1] = "cpu"
        BY <1>s, <2>1, <3>2 DEF Primero
      <4>2. aceptados'["memoria"][1] = cliente
        BY <1>a, <2>1, <3>2
      <4> QED BY <4>1, <4>2
    <3> QED BY <3>1, <3>2
  <2>2. CASE q # "memoria"
    BY <1>0, <1>c, <1>r, <2>2 DEF Primero, Puertos
  <2> QED BY <2>1, <2>2
<1>6. CpusEnOrden'
  <2>1. CASE q = "memoria"
    <3> DEFINE c == cola["memoria"]
               a == aceptados["memoria"]
    <3>1. \A i \in DOMAIN a' :
            (i \in DOMAIN a /\ a'[i] = a[i]) \/ (i = Len(a) + 1 /\ a'[i] = c[1])
      BY <1>a, <1>c, <1>r, <2>1
    <3>2. \A i \in DOMAIN c' : i \in Nat /\ 0 < i /\ i + 1 \in DOMAIN c /\ c'[i] = c[i + 1]
      BY <1>s, <2>1
    <3>3. 1 \in DOMAIN c /\ DOMAIN a = 1 .. Len(a) /\ Len(a) \in Nat
      BY <1>a, <1>s, <2>1
    <3>4. paso'["cpu"] = paso["cpu"] /\ vez' = vez /\ espera' = espera
      BY <1>0, <1>q, <1>v, <2>1
    <3>5. \A i, j \in DOMAIN a' :
            i < j /\ a'[i][1] = "cpu" /\ a'[j][1] = "cpu" => a'[i][2] < a'[j][2]
      BY SMTT(30), <3>1, <3>3 DEF CpusEnOrden
    <3>6. \A i, j \in DOMAIN c' :
            i < j /\ c'[i][1] = "cpu" /\ c'[j][1] = "cpu" => c'[i][2] < c'[j][2]
      BY SMTT(30), <3>2 DEF CpusEnOrden
    <3>7. \A i \in DOMAIN a', j \in DOMAIN c' :
            a'[i][1] = "cpu" /\ c'[j][1] = "cpu" => a'[i][2] < c'[j][2]
      <4> SUFFICES ASSUME NEW i \in DOMAIN a', NEW j \in DOMAIN c',
                          a'[i][1] = "cpu", c'[j][1] = "cpu"
                   PROVE  a'[i][2] < c'[j][2]
        OBVIOUS
      <4>1. j \in Nat /\ 1 < j + 1 /\ j + 1 \in DOMAIN c /\ c'[j] = c[j + 1]
        BY <3>2
      <4>2. CASE i \in DOMAIN a /\ a'[i] = a[i]
        BY <4>1, <4>2 DEF CpusEnOrden
      <4>3. CASE a'[i] = c[1]
        BY SMTT(30), <3>3, <4>1, <4>3 DEF CpusEnOrden
      <4> QED BY <3>1, <4>2, <4>3
    <3>8. \A i \in DOMAIN a' : a'[i][1] = "cpu" =>
            /\ a'[i][2] <= vez["cpu"]
            /\ paso["cpu"] = 1 /\ ~espera["cpu"] => a'[i][2] # vez["cpu"]
      BY <3>1, <3>3 DEF CpusEnOrden
    <3>9. \A i \in DOMAIN c' : c'[i][1] = "cpu" =>
            /\ c'[i][2] <= vez["cpu"]
            /\ paso["cpu"] = 1 /\ ~espera["cpu"] => c'[i][2] # vez["cpu"]
      BY <3>2 DEF CpusEnOrden
    <3> QED BY <3>4, <3>5, <3>6, <3>7, <3>8, <3>9 DEF CpusEnOrden
  <2>2. CASE q # "memoria"
    <3>1. aceptados'["memoria"] = aceptados["memoria"] /\ cola'["memoria"] = cola["memoria"]
      BY <1>r, <2>2 DEF Puertos
    <3>2. vez' = vez /\ espera' = espera
      BY <1>0
    <3>3. paso'["cpu"] = 1 => paso["cpu"] = 1
      BY <1>q, <1>v
    <3> QED BY <3>1, <3>2, <3>3, MismoOrden
  <2> QED BY <2>1, <2>2
<1>7. KernelConectado'
  <2>1. CASE q = "dispatch"
    BY <1>0, <1>c, <1>r, <1>q, <1>v, <2>1, Numeros DEF KernelConectado, Yo
  <2>2. CASE q # "dispatch"
    BY <1>0, <1>c, <1>r, <1>q, <1>v, <2>2, Numeros DEF KernelConectado, Yo, Puertos
  <2> QED BY <2>1, <2>2
<1>8. UnKernel'
  <2>1. CASE q = "dispatch"
    <3>1. cola["interrupt"] = << >> /\ aceptados["interrupt"] = << >>
      BY <1>q, <2>1, Entradas DEF PuertosDeLaCpu, Puertos
    <3> QED BY <1>c, <1>r, <2>1, <3>1 DEF UnKernel, Puertos
  <2>2. CASE q = "interrupt"
    BY <1>a, <1>c, <1>r, <1>s, <2>2 DEF UnKernel, Puertos
  <2>3. CASE q # "dispatch" /\ q # "interrupt"
    BY <1>c, <1>r, <2>3 DEF UnKernel, Puertos
  <2> QED BY <2>1, <2>2, <2>3
<1> QED BY <1>1, <1>2, <1>3, <1>4, <1>5, <1>6, <1>7, <1>8

LEMMA PasoAceptar ==
  ASSUME IInv, NEW p \in Procesos, EsperarCliente(p)
  PROVE  IInv'
<1> DEFINE q == Puerto(p)
           cliente == Head(cola[q])
           enLista == Hace(p, {"esperar_cliente"})
<1>0. /\ Hace(p, {"esperar_cliente", "while esperar_cliente"}) /\ cola[q] # << >>
      /\ cola' = [cola EXCEPT ![q] = Tail(@)]
      /\ aceptados' = [aceptados EXCEPT ![q] = Append(@, cliente)]
      /\ respondidos' = [respondidos EXCEPT ![q] = @ \cup {cliente}]
      /\ paso' = IF enLista THEN [paso EXCEPT ![p] = @ + 1] ELSE paso
      /\ UNCHANGED <<vez, espera, destino, escuchan>>
  BY DEF EsperarCliente, Contesta
<1>q. \/ p = "filesystem" /\ paso[p] = 2 /\ q = "fs" /\ ~enLista
      \/ p = "memoria" /\ paso[p] = 3 /\ q = "memoria" /\ enLista
      \/ p = "memoria" /\ paso[p] = 4 /\ q = "memoria" /\ ~enLista
      \/ p = "cpu" /\ paso[p] = 3 /\ q = "dispatch" /\ enLista
      \/ p = "cpu" /\ paso[p] = 5 /\ q = "interrupt" /\ enLista
  BY <1>0, QuienAcepta DEF IInv
<1>p. q \in Puertos
  BY <1>q DEF Puertos
<1>b. enLista \in BOOLEAN
  BY DEF Hace
<1>t. /\ paso \in [Procesos -> Nat] /\ \A r \in Procesos : paso[r] <= Len(Main[r])
      /\ cola[q] \in Seq(Clientes)
  BY <1>p DEF IInv, Tipos
<1>c. cliente \in Clientes
  <2> HIDE DEF q
  <2> QED BY <1>0, <1>t, Sacar
<1>n. /\ paso' \in [Procesos -> Nat] /\ \A r \in Procesos : paso'[r] <= Len(Main[r])
      /\ \A r \in Procesos : r # p => paso'[r] = paso[r]
      /\ enLista => paso'[p] = paso[p] + 1
      /\ ~enLista => paso' = paso
  <2>1. CASE enLista
    <3>1. paso' = [paso EXCEPT ![p] = @ + 1]
      BY <1>0, <2>1
    <3> QED BY <2>1, <3>1, <1>t, Siguiente DEF IInv
  <2>2. CASE ~enLista
    <3>1. paso' = paso
      BY <1>0, <2>2
    <3> QED BY <1>t, <2>2, <3>1
  <2> QED BY <2>1, <2>2
<1> HIDE DEF q, enLista
<1> QED BY <1>0, <1>q, <1>p, <1>b, <1>c, <1>n, PasoAceptarEn

-----------------------------------------------------------------------------

LEMMA SpecIInv == Spec => []IInv
<1>1. IInv /\ [Next]_vars => IInv'
  <2> SUFFICES ASSUME IInv, [Next]_vars PROVE IInv'
    OBVIOUS
  <2>1. ASSUME NEW p \in Procesos, Arrancar(p) PROVE IInv'
    BY <2>1, PasoArrancar
  <2>2. ASSUME NEW p \in Procesos, Parar(p) \/ PerderConexion(p) PROVE IInv'
    BY <2>2, PasoTerminar DEF Parar, PerderConexion
  <2>3. ASSUME NEW p \in Procesos, IniciarServidor(p) PROVE IInv'
    BY <2>3, PasoEscuchar
  <2>4. ASSUME NEW p \in Procesos, CrearConexion(p) PROVE IInv'
    <3>1. CASE Puerto(p) \in escuchan
      BY <2>4, <3>1, PasoConectar
    <3>2. CASE Puerto(p) \notin escuchan
      BY <2>4, <3>2, PasoTerminar DEF CrearConexion, Hace
    <3> QED BY <3>1, <3>2
  <2>5. ASSUME NEW p \in Procesos, RecibirHandshake(p) PROVE IInv'
    BY <2>5, PasoRecibir
  <2>6. ASSUME NEW p \in Procesos, EsperarCliente(p) PROVE IInv'
    BY <2>6, PasoAceptar
  <2>7. CASE UNCHANGED vars
    <3>1. Tipos' /\ Sockets' /\ PuertosDeLaCpu'
      BY <2>7 DEF vars, IInv, Tipos, Sockets, PuertosDeLaCpu, Hace
    <3>2. TrasLaCpu' /\ Primero' /\ UnKernel'
      BY <2>7 DEF vars, IInv, TrasLaCpu, Primero, UnKernel
    <3>3. CpusEnOrden'
      BY <2>7 DEF vars, IInv, CpusEnOrden
    <3>4. KernelConectado'
      BY <2>7 DEF vars, IInv, KernelConectado, Yo
    <3> QED BY <3>1, <3>2, <3>3, <3>4 DEF IInv
  <2> QED BY <2>1, <2>2, <2>3, <2>4, <2>5, <2>6, <2>7 DEF Next
<1>2. QED BY InicioIInv, <1>1, PTL DEF Spec

\* Nobody is taken by memoria for another while the one it is taken for is there.
THEOREM QuienEsQuien == Spec => []CadaUnoPorQuienEs
<1>1. IInv => PrimeroLaCpu
  BY DEF IInv, Primero, PrimeroLaCpu
<1>2. IInv => CpuPorKernel
  <2> SUFFICES ASSUME IInv, NEW i \in DOMAIN aceptados["memoria"], i > 1,
                      vez["memoria"] = 1, aceptados["memoria"][i][1] = "cpu"
               PROVE  ~Vivo(aceptados["memoria"][1])
    BY DEF CpuPorKernel
  <2> DEFINE a == aceptados["memoria"]
  <2>1. a \in Seq(Clientes) /\ \A k \in DOMAIN a : a[k][2] \in Nat
    BY Entradas DEF IInv, Puertos
  <2>2. 1 \in DOMAIN a /\ a # << >> /\ 1 < i
    BY <2>1
  <2>3. a[1][1] = "cpu"
    BY <2>2 DEF IInv, Primero
  <2>4. a[1][2] < a[i][2] /\ a[i][2] <= vez["cpu"]
    BY <2>2, <2>3 DEF IInv, CpusEnOrden
  <2> QED BY <2>1, <2>2, <2>3, <2>4, Numeros DEF IInv, Vivo
<1>3. IInv => CadaUnoPorQuienEs
  BY <1>1, <1>2 DEF CadaUnoPorQuienEs
<1>4. QED BY <1>3, SpecIInv, PTL

\* The kernel the CPU listens to for interruptions is the one it takes threads from,
\* however often either is started again.
THEOREM UnSoloKernel == Spec => []MismoKernel
<1>1. IInv => MismoKernel
  <2> SUFFICES ASSUME IInv, aceptados["interrupt"] # << >>
               PROVE  aceptados["interrupt"] = aceptados["dispatch"]
    BY DEF MismoKernel
  <2>1. aceptados["interrupt"] \in Seq(Clientes) /\ aceptados["dispatch"] \in Seq(Clientes)
    BY Entradas DEF IInv, Puertos
  <2>2. Len(aceptados["interrupt"]) = 1 /\ Len(aceptados["dispatch"]) = 1
    BY <2>1, Numeros DEF IInv, PuertosDeLaCpu
  <2>3. aceptados["interrupt"][1] = aceptados["dispatch"][1]
    BY <2>1, <2>2 DEF IInv, UnKernel
  <2> QED BY <2>1, <2>2, <2>3
<1>2. QED BY <1>1, SpecIInv, PTL

-----------------------------------------------------------------------------
(* Started in order and not stopped *)

\* Who is in a port's queue, or was.
Llegados(q) == {cola[q][i] : i \in DOMAIN cola[q]} \cup {aceptados[q][i] : i \in DOMAIN aceptados[q]}

\* Nobody ends but a kernel refused on the second port of the CPU, which is on no queue of
\* that port: each listener hears of a client that is there.
Arranque ==
  /\ rechazos \subseteq {<<"kernel", "interrupt">>}
  /\ \A p \in Procesos : vez[p] <= 1
  /\ \A p \in Procesos : p # "kernel" /\ vez[p] # 0 => paso[p] # 0
  /\ vez["memoria"] # 0 => "fs" \in escuchan
  /\ vez["cpu"] # 0 => "memoria" \in escuchan
  /\ vez["kernel"] # 0 => "dispatch" \in escuchan
  /\ \A q \in Puertos : \A c \in Llegados(q) : c[2] = 1 /\ vez[c[1]] # 0
  /\ \A c \in Llegados("fs") : c[1] = "memoria"
  /\ \A c \in Llegados("interrupt") : c[1] = "kernel"
  /\ Llegados("interrupt") # {} =>
       paso["kernel"] >= 2 /\ (paso["kernel"] = 2 => espera["kernel"])

Sano == enOrden /\ ~caido => Arranque

\* A step that starts and ends nobody and brings no client.
LEMMA SigueElArranque ==
  ASSUME Tipos, Tipos', Arranque, vez' = vez, rechazos' = rechazos, escuchan \subseteq escuchan',
         \A p \in Procesos : paso[p] # 0 => paso'[p] # 0,
         \A q \in Puertos : Llegados(q)' \subseteq Llegados(q),
         \/ paso'["kernel"] = paso["kernel"] /\ espera'["kernel"] = espera["kernel"]
         \/ paso'["kernel"] = paso["kernel"] + 1
  PROVE  Arranque'
<1>1. paso["kernel"] \in Nat /\ paso'["kernel"] \in Nat /\ \A p \in Procesos : vez'[p] <= 1
  BY DEF Tipos, Procesos, Arranque
<1>2. "interrupt" \in Puertos /\ "fs" \in Puertos
  BY DEF Puertos
<1>3. \A q \in Puertos : \A c \in Llegados(q)' : c[2] = 1 /\ vez'[c[1]] # 0
  BY DEF Arranque
<1>4. /\ \A c \in Llegados("fs")' : c[1] = "memoria"
      /\ \A c \in Llegados("interrupt")' : c[1] = "kernel"
  BY <1>2 DEF Arranque
<1>5. Llegados("interrupt")' # {} =>
        paso'["kernel"] >= 2 /\ (paso'["kernel"] = 2 => espera'["kernel"])
  <2>1. Llegados("interrupt")' # {} => Llegados("interrupt") # {}
    BY <1>2
  <2> QED BY <1>1, <2>1 DEF Arranque
<1>6. /\ rechazos' \subseteq {<<"kernel", "interrupt">>}
      /\ \A p \in Procesos : p # "kernel" /\ vez'[p] # 0 => paso'[p] # 0
      /\ vez'["memoria"] # 0 => "fs" \in escuchan'
      /\ vez'["cpu"] # 0 => "memoria" \in escuchan'
      /\ vez'["kernel"] # 0 => "dispatch" \in escuchan'
  BY DEF Arranque
<1> QED BY <1>1, <1>3, <1>4, <1>5, <1>6 DEF Arranque

LEMMA SanoArrancar ==
  ASSUME IInv, Arranque, NEW p \in Procesos, Arrancar(p), EnTurno(p)
  PROVE  Arranque'
<1>0. /\ paso' = [paso EXCEPT ![p] = 1] /\ paso[p] = 0 /\ vez[p] = 0
      /\ vez' = [vez EXCEPT ![p] = @ + 1]
      /\ UNCHANGED <<espera, escuchan, cola, aceptados, rechazos>>
  BY DEF Arrancar, EnTurno
<1>1. paso \in [Procesos -> Nat] /\ vez \in [Procesos -> Nat]
  BY DEF IInv, Tipos
<1>2. /\ paso'[p] = 1 /\ vez'[p] = 1
      /\ \A r \in Procesos : r # p => paso'[r] = paso[r] /\ vez'[r] = vez[r]
  BY <1>0, <1>1
<1>3. \A q : Llegados(q)' = Llegados(q)
  BY <1>0 DEF Llegados
<1>4. \A r \in Procesos : vez'[r] <= 1 /\ (r # "kernel" /\ vez'[r] # 0 => paso'[r] # 0)
  BY <1>2 DEF Arranque
<1>5. /\ vez'["memoria"] # 0 => "fs" \in escuchan'
      /\ vez'["cpu"] # 0 => "memoria" \in escuchan'
      /\ vez'["kernel"] # 0 => "dispatch" \in escuchan'
  BY <1>0, <1>2 DEF Arranque, EnTurno, Procesos
<1>6. \A q \in Puertos : \A c \in Llegados(q) : c[1] \in Procesos
  <2> SUFFICES ASSUME NEW q \in Puertos PROVE \A c \in Llegados(q) : c[1] \in Procesos
    OBVIOUS
  <2> QED BY Entradas DEF IInv, Llegados, Clientes
<1>7. \A q \in Puertos : \A c \in Llegados(q) : c[2] = 1 /\ vez'[c[1]] # 0
  BY <1>2, <1>6 DEF Arranque
<1>8. Llegados("interrupt") # {} =>
        paso'["kernel"] >= 2 /\ (paso'["kernel"] = 2 => espera'["kernel"])
  <2>1. CASE p = "kernel"
    <3>1. paso["kernel"] = 0
      BY <1>0, <2>1
    <3> QED BY <3>1 DEF Arranque
  <2>2. CASE p # "kernel"
    BY <1>0, <1>2, <2>2 DEF Arranque, Procesos
  <2> QED BY <2>1, <2>2
<1>9. /\ \A c \in Llegados("fs") : c[1] = "memoria"
      /\ \A c \in Llegados("interrupt") : c[1] = "kernel"
      /\ rechazos' \subseteq {<<"kernel", "interrupt">>}
  BY <1>0 DEF Arranque
<1> QED BY <1>3, <1>4, <1>5, <1>7, <1>8, <1>9 DEF Arranque

LEMMA SanoEscuchar ==
  ASSUME IInv, Arranque, NEW p \in Procesos, IniciarServidor(p)
  PROVE  Arranque'
<1>0. /\ Hace(p, {"iniciar_servidor"}) /\ paso' = [paso EXCEPT ![p] = @ + 1]
      /\ escuchan \subseteq escuchan'
      /\ UNCHANGED <<vez, espera, cola, aceptados, rechazos>>
  BY DEF IniciarServidor
<1>1. /\ paso[p] # 0 /\ paso'[p] = paso[p] + 1 /\ \A r \in Procesos : r # p => paso'[r] = paso[r]
      /\ p # "kernel" => paso'["kernel"] = paso["kernel"]
      /\ p = "kernel" => paso'["kernel"] = paso["kernel"] + 1
  BY <1>0, Siguiente DEF IInv
<1>2. \A r \in Procesos : paso[r] # 0 => paso'[r] # 0
  BY <1>1 DEF IInv, Tipos
<1>3. \A q : Llegados(q)' = Llegados(q)
  BY <1>0 DEF Llegados
<1>4. Tipos /\ Tipos'
  BY PasoEscuchar DEF IInv
<1> QED BY <1>0, <1>1, <1>2, <1>3, <1>4, SigueElArranque

LEMMA SanoRecibir ==
  ASSUME IInv, Arranque, NEW p \in Procesos, RecibirHandshake(p)
  PROVE  Arranque'
<1>0. /\ espera[p] /\ paso' = [paso EXCEPT ![p] = @ + 1]
      /\ espera' = [espera EXCEPT ![p] = FALSE]
      /\ UNCHANGED <<vez, escuchan, cola, aceptados, rechazos>>
  BY DEF RecibirHandshake
<1>1. /\ paso[p] # 0 /\ paso'[p] = paso[p] + 1 /\ \A r \in Procesos : r # p => paso'[r] = paso[r]
      /\ p # "kernel" => paso'["kernel"] = paso["kernel"]
      /\ p = "kernel" => paso'["kernel"] = paso["kernel"] + 1
  BY <1>0, Siguiente DEF IInv
<1>2. \A r \in Procesos : paso[r] # 0 => paso'[r] # 0
  BY <1>1 DEF IInv, Tipos
<1>3. \A q : Llegados(q)' = Llegados(q)
  BY <1>0 DEF Llegados
<1>4. Tipos /\ Tipos'
  BY PasoRecibir DEF IInv
<1>5. p # "kernel" => espera'["kernel"] = espera["kernel"]
  BY <1>0, <1>4 DEF Tipos, Procesos
<1> QED BY <1>0, <1>1, <1>2, <1>3, <1>4, <1>5, SigueElArranque

LEMMA SanoAceptar ==
  ASSUME IInv, Arranque, NEW p \in Procesos, EsperarCliente(p)
  PROVE  Arranque'
<1>1. PICK q \in Puertos : q = Puerto(p) /\ p # "kernel"
  BY QuienAcepta DEF EsperarCliente, IInv, Puertos
<1>0. /\ Hace(p, {"esperar_cliente", "while esperar_cliente"}) /\ cola[q] # << >>
      /\ cola' = [cola EXCEPT ![q] = Tail(@)]
      /\ aceptados' = [aceptados EXCEPT ![q] = Append(@, Head(cola[q]))]
      /\ paso' = IF Hace(p, {"esperar_cliente"}) THEN [paso EXCEPT ![p] = @ + 1] ELSE paso
      /\ UNCHANGED <<vez, espera, escuchan, rechazos>>
  BY <1>1 DEF EsperarCliente
<1>2. Tipos /\ Tipos'
  BY PasoAceptar DEF IInv
<1>3. \A r \in Procesos : (paso[r] # 0 => paso'[r] # 0) /\ (r # p => paso'[r] = paso[r])
  <2>1. CASE Hace(p, {"esperar_cliente"})
    <3>1. paso' = [paso EXCEPT ![p] = @ + 1]
      BY <1>0, <2>1
    <3> QED BY <1>2, <3>1 DEF Tipos
  <2>2. CASE ~Hace(p, {"esperar_cliente"})
    BY <1>0, <2>2
  <2> QED BY <2>1, <2>2
<1>4. paso'["kernel"] = paso["kernel"]
  BY <1>1, <1>3 DEF Procesos
<1>5. \A r \in Puertos : Llegados(r)' \subseteq Llegados(r)
  <2> SUFFICES ASSUME NEW r \in Puertos PROVE Llegados(r)' \subseteq Llegados(r)
    OBVIOUS
  <2>1. CASE r # q
    <3>1. cola'[r] = cola[r] /\ aceptados'[r] = aceptados[r]
      BY <1>0, <1>2, <2>1 DEF Tipos
    <3> QED BY <3>1 DEF Llegados
  <2>2. CASE r = q
    <3>1. cola[q] \in Seq(Clientes) /\ aceptados[q] \in Seq(Clientes)
      BY <1>1, <1>2 DEF Tipos
    <3>2. cola'[q] = Tail(cola[q]) /\ aceptados'[q] = Append(aceptados[q], Head(cola[q]))
      BY <1>0, <1>1, <1>2 DEF Tipos
    <3> DEFINE s == cola[q]
               a == aceptados[q]
    <3>3. /\ s \in Seq(Clientes) /\ s # << >> /\ a \in Seq(Clientes)
          /\ cola'[q] = Tail(s) /\ aceptados'[q] = Append(a, Head(s))
      BY <1>0, <3>1, <3>2
    <3>4. Llegados(q) = {s[i] : i \in DOMAIN s} \cup {a[i] : i \in DOMAIN a}
      BY DEF Llegados
    <3>5. Llegados(q)' = {cola'[q][i] : i \in DOMAIN cola'[q]}
                           \cup {aceptados'[q][i] : i \in DOMAIN aceptados'[q]}
      BY DEF Llegados
    <3> HIDE DEF s, a
    <3>6. /\ Head(s) \in Clientes /\ Head(s) = s[1] /\ 1 \in DOMAIN s
          /\ \A i \in DOMAIN Tail(s) : i + 1 \in DOMAIN s /\ Tail(s)[i] = s[i + 1]
      BY <3>3, Sacar
    <3>7. /\ DOMAIN a = 1 .. Len(a) /\ Len(a) \in Nat
          /\ DOMAIN Append(a, Head(s)) = 1 .. Len(a) + 1
          /\ \A i \in DOMAIN a : Append(a, Head(s))[i] = a[i]
          /\ Append(a, Head(s))[Len(a) + 1] = Head(s)
      BY <3>3, <3>6, Agregar
    <3>8. \A i \in DOMAIN Append(a, Head(s)) : i \in DOMAIN a \/ i = Len(a) + 1
      BY <3>7
    <3> QED BY <2>2, <3>3, <3>4, <3>5, <3>6, <3>7, <3>8
  <2> QED BY <2>1, <2>2
<1> QED BY <1>0, <1>2, <1>3, <1>4, <1>5, SigueElArranque

LEMMA SanoConectar ==
  ASSUME IInv, Arranque, NEW p \in Procesos, CrearConexion(p), Puerto(p) \in escuchan
  PROVE  Arranque'
<1>q. PICK q \in Puertos :
        /\ q = Puerto(p)
        /\ \/ p = "memoria" /\ paso[p] = 2 /\ q = "fs"
           \/ p = "cpu" /\ paso[p] = 1 /\ q = "memoria"
           \/ p = "kernel" /\ paso[p] = 1 /\ q = "dispatch"
           \/ p = "kernel" /\ paso[p] = 2 /\ q = "interrupt"
           \/ p = "kernel" /\ paso[p] = 3 /\ q = "memoria"
  BY QuienConecta DEF CrearConexion, IInv, Puertos
<1>0. /\ Hace(p, {"crear_conexion"}) /\ ~espera[p]
      /\ cola' = [cola EXCEPT ![q] = Append(@, Yo(p))]
      /\ espera' = [espera EXCEPT ![p] = TRUE]
      /\ UNCHANGED <<paso, vez, escuchan, aceptados, rechazos>>
  BY <1>q DEF CrearConexion
<1>1. q \in Puertos /\ paso[p] # 0
  BY <1>q
<1>5. Llegados(q)' = {cola'[q][i] : i \in DOMAIN cola'[q]}
                       \cup {aceptados'[q][i] : i \in DOMAIN aceptados'[q]}
  BY DEF Llegados
<1>2. /\ cola \in [Puertos -> Seq(Clientes)] /\ espera \in [Procesos -> BOOLEAN]
      /\ vez \in [Procesos -> Nat]
  BY DEF IInv, Tipos
<1>3. vez[p] = 1
  BY <1>1, <1>2 DEF IInv, Sockets, Arranque
<1>4. Yo(p) \in Clientes /\ Yo(p)[1] = p /\ Yo(p)[2] = 1
  BY <1>3 DEF Yo, Clientes
<1>6. \A r \in Puertos : r # q => Llegados(r)' = Llegados(r)
  BY <1>0, <1>2 DEF Llegados
<1>7. Llegados(q)' = Llegados(q) \cup {Yo(p)}
  <2> DEFINE s == cola[q]
  <2>1. /\ s \in Seq(Clientes) /\ cola'[q] = Append(s, Yo(p)) /\ aceptados'[q] = aceptados[q]
    BY <1>0, <1>1, <1>2
  <2>2. Llegados(q) = {s[i] : i \in DOMAIN s} \cup {aceptados[q][i] : i \in DOMAIN aceptados[q]}
    BY DEF Llegados
  <2> HIDE DEF s
  <2>3. /\ DOMAIN s = 1 .. Len(s) /\ Len(s) \in Nat
        /\ DOMAIN Append(s, Yo(p)) = 1 .. Len(s) + 1
        /\ \A i \in DOMAIN s : Append(s, Yo(p))[i] = s[i]
        /\ Append(s, Yo(p))[Len(s) + 1] = Yo(p)
    BY <1>4, <2>1, Agregar
  <2>4. /\ DOMAIN Append(s, Yo(p)) = DOMAIN s \cup {Len(s) + 1}
    BY <2>3
  <2>5. {Append(s, Yo(p))[i] : i \in DOMAIN Append(s, Yo(p))}
          = {s[i] : i \in DOMAIN s} \cup {Yo(p)}
    BY <2>3, <2>4
  <2> QED BY <1>5, <2>1, <2>2, <2>5
<1>8. \A r \in Puertos : \A c \in Llegados(r)' : c[2] = 1 /\ vez'[c[1]] # 0
  BY <1>0, <1>3, <1>4, <1>6, <1>7 DEF Arranque
<1>9. /\ \A c \in Llegados("fs")' : c[1] = "memoria"
      /\ \A c \in Llegados("interrupt")' : c[1] = "kernel"
  BY <1>q, <1>4, <1>6, <1>7 DEF Arranque, Puertos
<1>10. Llegados("interrupt")' # {} =>
         paso'["kernel"] >= 2 /\ (paso'["kernel"] = 2 => espera'["kernel"])
  <2>1. CASE q = "interrupt"
    BY <1>0, <1>q, <1>2, <2>1
  <2>2. CASE q # "interrupt"
    <3>1. Llegados("interrupt")' = Llegados("interrupt")
      BY <1>6, <2>2 DEF Puertos
    <3>2. espera["kernel"] => espera'["kernel"]
      BY <1>0, <1>2 DEF Procesos
    <3> QED BY <1>0, <3>1, <3>2 DEF Arranque
  <2> QED BY <2>1, <2>2
<1>11. /\ \A r \in Procesos : vez'[r] <= 1 /\ (r # "kernel" /\ vez'[r] # 0 => paso'[r] # 0)
       /\ rechazos' \subseteq {<<"kernel", "interrupt">>}
       /\ vez'["memoria"] # 0 => "fs" \in escuchan'
       /\ vez'["cpu"] # 0 => "memoria" \in escuchan'
       /\ vez'["kernel"] # 0 => "dispatch" \in escuchan'
  BY <1>0 DEF Arranque
<1> QED BY <1>8, <1>9, <1>10, <1>11 DEF Arranque

\* Only the kernel is refused, and on the second port: the others are started after the
\* one they connect to is listening, and memoria listens before the CPU does.
LEMMA SanoRechazar ==
  ASSUME IInv, Arranque, NEW p \in Procesos, CrearConexion(p), Puerto(p) \notin escuchan
  PROVE  Arranque'
<1>0. /\ Hace(p, {"crear_conexion"}) /\ ~espera[p] /\ Terminar(p)
      /\ rechazos' = rechazos \cup {<<p, Puerto(p)>>}
  BY DEF CrearConexion
<1>q. \/ p = "memoria" /\ paso[p] = 2 /\ Puerto(p) = "fs"
      \/ p = "cpu" /\ paso[p] = 1 /\ Puerto(p) = "memoria"
      \/ p = "kernel" /\ paso[p] = 1 /\ Puerto(p) = "dispatch"
      \/ p = "kernel" /\ paso[p] = 2 /\ Puerto(p) = "interrupt"
      \/ p = "kernel" /\ paso[p] = 3 /\ Puerto(p) = "memoria"
  BY <1>0, QuienConecta DEF IInv
<1>1. vez[p] # 0
  BY <1>q DEF IInv, Sockets
<1>2. "dispatch" \in escuchan => "memoria" \in escuchan
  <2>1. "dispatch" \in escuchan => paso["cpu"] # 0
    BY Numeros DEF IInv, PuertosDeLaCpu
  <2>2. paso["cpu"] # 0 => vez["cpu"] # 0
    BY DEF IInv, Sockets, Procesos
  <2> QED BY <2>1, <2>2 DEF Arranque
<1>3. p = "kernel" /\ paso["kernel"] = 2 /\ Puerto(p) = "interrupt"
  BY <1>q, <1>1, <1>2 DEF Arranque
<1>4. Llegados("interrupt") = {}
  BY <1>0, <1>3 DEF Arranque
<1>5. /\ vez' = vez /\ escuchan' = escuchan
      /\ \A r \in Puertos : cola'[r] = cola[r] /\ aceptados'[r] = aceptados[r]
  <2>1. {r \in Puertos : Servidor[r] = p} = {}
    BY <1>3 DEF Servidor, Puertos
  <2> QED BY <1>0, <2>1 DEF Terminar
<1>6. \A r \in Procesos : r # "kernel" => paso'[r] = paso[r]
  BY <1>0, <1>3 DEF Terminar, IInv, Tipos
<1>7. \A r \in Puertos : Llegados(r)' = Llegados(r)
  BY <1>5 DEF Llegados
<1>8. Llegados("interrupt")' = {} /\ Llegados("fs")' = Llegados("fs")
  BY <1>4, <1>7 DEF Puertos
<1>9. rechazos' \subseteq {<<"kernel", "interrupt">>}
  BY <1>0, <1>3 DEF Arranque
<1>10. \A r \in Puertos : \A c \in Llegados(r)' : c[2] = 1 /\ vez'[c[1]] # 0
  BY <1>5, <1>7 DEF Arranque
<1>11. /\ \A r \in Procesos : vez'[r] <= 1 /\ (r # "kernel" /\ vez'[r] # 0 => paso'[r] # 0)
       /\ vez'["memoria"] # 0 => "fs" \in escuchan'
       /\ vez'["cpu"] # 0 => "memoria" \in escuchan'
       /\ vez'["kernel"] # 0 => "dispatch" \in escuchan'
  BY <1>5, <1>6 DEF Arranque
<1> QED BY <1>8, <1>9, <1>10, <1>11 DEF Arranque

\* No listener has lost its other end.
LEMMA NadieSePierde ==
  ASSUME IInv, Arranque, NEW p \in Procesos, PerderConexion(p)
  PROVE  FALSE
<1>1. /\ \A r \in Procesos : vez[r] \in Nat /\ vez[r] <= 1
      /\ \A r \in Procesos : r # "kernel" /\ vez[r] # 0 => vez[r] = 1 /\ paso[r] # 0
      /\ paso[p] # 0
  BY DEF IInv, Tipos, Arranque, PerderConexion
<1>2. \A r \in Procesos, q \in Puertos : r = p => ~Perdido(r, q) \/ Servidor[q] = "kernel"
  <2> SUFFICES ASSUME NEW q \in Puertos, destino[p][q] # 0, Servidor[q] # "kernel"
               PROVE  Vivo(<<Servidor[q], destino[p][q]>>)
    BY DEF Perdido
  <2>1. Servidor[q] \in Procesos /\ destino[p][q] \in Nat /\ destino[p][q] <= vez[Servidor[q]]
    BY Servidores DEF IInv, Tipos, Sockets
  <2>2. vez[Servidor[q]] = 1 /\ destino[p][q] = 1 /\ paso[Servidor[q]] # 0
    BY <1>1, <2>1
  <2> QED BY <2>2 DEF Vivo
<1>3. \A q \in Puertos : ~Perdido(p, q)
  BY <1>2 DEF Servidor, Puertos
<1>4. ~KernelSinCpu \/ p # "kernel"
  BY <1>3 DEF KernelSinCpu, Puertos
<1>5. ~EscuchaFSSinFS \/ p # "memoria"
  BY <1>3 DEF EscuchaFSSinFS, Puertos
<1>6. \A q \in Puertos : \A i \in DOMAIN aceptados[q] :
        /\ aceptados[q][i] \in Llegados(q) /\ aceptados[q][i][1] \in Procesos
        /\ aceptados[q][i][2] = 1 /\ vez[aceptados[q][i][1]] # 0
  <2> SUFFICES ASSUME NEW q \in Puertos, NEW i \in DOMAIN aceptados[q]
               PROVE  /\ aceptados[q][i] \in Llegados(q) /\ aceptados[q][i][1] \in Procesos
                      /\ aceptados[q][i][2] = 1 /\ vez[aceptados[q][i][1]] # 0
    OBVIOUS
  <2>1. aceptados[q][i] \in Llegados(q)
    BY DEF Llegados
  <2>2. aceptados[q][i] \in Clientes
    BY Entradas DEF IInv
  <2> QED BY <2>1, <2>2 DEF Arranque, Clientes
<1>7. \A q \in Puertos : \A i \in DOMAIN aceptados[q] :
        aceptados[q][i][1] # "kernel" => Vivo(aceptados[q][i])
  BY <1>1, <1>6 DEF Vivo
<1>8. ~FSSinMemoria
  BY <1>6, <1>7 DEF FSSinMemoria, Puertos, Arranque
<1>9. \A q \in Puertos : aceptados[q] # << >> => 1 \in DOMAIN aceptados[q]
  <2> SUFFICES ASSUME NEW q \in Puertos, aceptados[q] # << >> PROVE 1 \in DOMAIN aceptados[q]
    OBVIOUS
  <2>1. aceptados[q] \in Seq(Clientes)
    BY Entradas DEF IInv
  <2> QED BY <2>1, Sacar
<1>10. ~CpuSinKernel
  <2> SUFFICES ASSUME aceptados["interrupt"] # << >> PROVE Vivo(aceptados["interrupt"][1])
    BY DEF CpuSinKernel
  <2>1. 1 \in DOMAIN aceptados["interrupt"]
    BY <1>9 DEF Puertos
  <2>2. /\ aceptados["interrupt"][1] \in Llegados("interrupt")
        /\ aceptados["interrupt"][1][2] = 1 /\ vez[aceptados["interrupt"][1][1]] # 0
    BY <1>6, <2>1 DEF Puertos
  <2>3. aceptados["interrupt"][1][1] = "kernel" /\ paso["kernel"] >= 2
    BY <2>2 DEF Arranque
  <2>4. vez["kernel"] = 1 /\ paso["kernel"] # 0
    BY <1>1, <2>2, <2>3, Numeros DEF Procesos, IInv
  <2> QED BY <2>2, <2>3, <2>4 DEF Vivo
<1>11. ~EscucharCpuSinCpu \/ p # "memoria"
  <2> SUFFICES ASSUME aceptados["memoria"] # << >>, p = "memoria"
               PROVE  Vivo(aceptados["memoria"][1])
    BY DEF EscucharCpuSinCpu
  <2>1. vez["memoria"] = 1
    BY <1>1 DEF IInv, Sockets
  <2>2. aceptados["memoria"][1][1] = "cpu"
    BY <2>1 DEF IInv, Primero
  <2>3. 1 \in DOMAIN aceptados["memoria"]
    BY <1>9 DEF Puertos
  <2> QED BY <1>7, <2>2, <2>3 DEF Puertos
<1> QED BY <1>4, <1>5, <1>8, <1>10, <1>11 DEF PerderConexion

\* Started in the right order, only the kernel may be refused, and only on the port the CPU
\* opens after it has answered on the first, whatever the interleaving of their mains
\* (c_conexiones.c:76, 86; k_conexiones.c:84, 93).
THEOREM UnSoloRechazo == Spec => []SoloInterruptRechaza
<1>1. Init => Sano
  <2>1. Init => rechazos = {} /\ \A p \in Procesos : vez[p] = 0
    BY DEF Init
  <2>2. ASSUME Init, NEW q \in Puertos PROVE Llegados(q) = {}
    BY <2>2 DEF Init, Llegados
  <2> QED BY <2>1, <2>2 DEF Sano, Arranque, Procesos, Puertos
<1>2. IInv /\ Sano /\ [Next]_vars => Sano'
  <2> SUFFICES ASSUME IInv, Sano, [Next]_vars, enOrden', ~caido' PROVE Arranque'
    BY DEF Sano
  <2>1. ASSUME NEW p \in Procesos, Arrancar(p) PROVE Arranque'
    <3>1. enOrden /\ ~caido /\ EnTurno(p)
      BY <2>1 DEF Arrancar
    <3> QED BY <2>1, <3>1, SanoArrancar DEF Sano
  <2>2. ASSUME NEW p \in Procesos, Parar(p) PROVE Arranque'
    BY <2>2 DEF Parar
  <2>3. ASSUME NEW p \in Procesos, IniciarServidor(p) PROVE Arranque'
    <3>1. enOrden /\ ~caido
      BY <2>3 DEF IniciarServidor, historia
    <3> QED BY <2>3, <3>1, SanoEscuchar DEF Sano
  <2>4. ASSUME NEW p \in Procesos, CrearConexion(p) PROVE Arranque'
    <3>1. enOrden /\ ~caido
      BY <2>4 DEF CrearConexion, historia
    <3> QED BY <2>4, <3>1, SanoConectar, SanoRechazar DEF Sano
  <2>5. ASSUME NEW p \in Procesos, RecibirHandshake(p) PROVE Arranque'
    <3>1. enOrden /\ ~caido
      BY <2>5 DEF RecibirHandshake
    <3> QED BY <2>5, <3>1, SanoRecibir DEF Sano
  <2>6. ASSUME NEW p \in Procesos, EsperarCliente(p) PROVE Arranque'
    <3>1. enOrden /\ ~caido
      BY <2>6 DEF EsperarCliente, historia
    <3> QED BY <2>6, <3>1, SanoAceptar DEF Sano
  <2>7. ASSUME NEW p \in Procesos, PerderConexion(p) PROVE Arranque'
    <3>1. enOrden /\ ~caido
      BY <2>7 DEF PerderConexion, historia
    <3> QED BY <2>7, <3>1, NadieSePierde DEF Sano
  <2>8. CASE UNCHANGED vars
    <3>1. Arranque /\ UNCHANGED vars
      BY <2>8 DEF Sano, vars
    <3>2. \A q : Llegados(q)' = Llegados(q)
      BY <2>8 DEF vars, Llegados
    <3>3. UNCHANGED <<paso, vez, espera, escuchan, rechazos>>
      BY <2>8 DEF vars
    <3> QED BY <3>1, <3>2, <3>3 DEF Arranque
  <2> QED BY <2>1, <2>2, <2>3, <2>4, <2>5, <2>6, <2>7, <2>8 DEF Next
<1>3. Sano => SoloInterruptRechaza
  BY DEF Sano, Arranque, SoloInterruptRechaza
<1> QED BY <1>1, <1>2, <1>3, SpecIInv, PTL DEF Spec
=============================================================================
