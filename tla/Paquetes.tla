------------------------------ MODULE Paquetes ------------------------------
(***************************************************************************)
(* The packets of src/utils/src/utils/serializar.c and the socket they go  *)
(* through, byte by byte: how each serializar_X lays its fields out in a   *)
(* t_buffer, enviar_paquete, the three recv of recibir_paquete and how     *)
(* each deserializar_X reads them back.  One connection at a time: several *)
(* threads of one process send, a thread of another one receives.          *)
(*                                                                         *)
(* A byte is <<v, i>>, the i-th of those that hold the value v, and a      *)
(* value is a pair: <<"op", operation>>, <<"num", size or length>> or      *)
(* <<field, number of the message>>.                                       *)
(*                                                                         *)
(* Nothing sets the offset of a t_buffer that crear_buffer or              *)
(* recibir_paquete allocates: it is any of Offsets.  What is written past  *)
(* the end of a block is lost here, and what is read past it is garbage.   *)
(***************************************************************************)
EXTENDS Integers, Sequences, FiniteSets, SequencesExt

CONSTANTS
  Hilos,         \* the threads of the sender
  Largos,        \* strlen of the strings sent
  Offsets,       \* what malloc may leave in buffer->offset
  MaxEnviados    \* bound: packets built

ASSUME ParametrosPaquetes ==
  /\ Largos \subseteq Nat /\ Offsets \subseteq Nat /\ MaxEnviados \in Nat

VARIABLES
  conexion,      \* which socket
  hilos,         \* thread -> [mensaje, falta]: its packet, and what it has yet to send
  socket,        \* bytes sent and not received
  abierto,       \* the sender has not closed it
  lector,        \* the receiver: [fase, op, size, stream, offset], and of the deserialiser
                 \* [pos, leidos, datos]: where it is, fields read and what it read
  armados,       \* packets built, for the bound
  pendientes,    \* messages sent and not delivered, for the properties
  entregado,     \* the last one delivered, for the properties
  justo          \* every block so far, of those with no garbage offset, has been just full

vars == <<conexion, hilos, socket, abierto, lector, armados, pendientes, entregado, justo>>

-----------------------------------------------------------------------------
(* Bytes *)

Bytes(v, n) == [i \in 1 .. n |-> <<v, i>>]

Indefinido == << <<"basura", 0>>, 0 >>
Indefinidos(n) == [i \in 1 .. n |-> Indefinido]

\* memcpy to the byte after the first off of a block; what falls out of it is lost.
Copiar(bloque, off, bytes) ==
  IF off >= Len(bloque) THEN bloque
  ELSE SubSeq(SubSeq(bloque, 1, off) \o bytes
                \o SubSeq(bloque, off + Len(bytes) + 1, Len(bloque)), 1, Len(bloque))

\* memcpy from there.
Tomar(bloque, off, n) ==
  [i \in 1 .. n |-> IF off + i \in DOMAIN bloque THEN bloque[off + i] ELSE Indefinido]

\* What bytes mean: a value and its width, or garbage.
Valor(bytes) ==
  IF bytes # << >> /\ bytes = Bytes(bytes[1][1], Len(bytes))
  THEN <<bytes[1][1], Len(bytes)>> ELSE Indefinido

EsNumero(bytes) == Valor(bytes) # Indefinido /\ bytes[1][1][1] = "num"
Numero(bytes)   == bytes[1][1][2]

\* The operation they are, or none.
Operacion(bytes) ==
  IF Valor(bytes) # Indefinido /\ bytes[1][1][1] = "op" THEN bytes[1][1][2] ELSE ""

-----------------------------------------------------------------------------
(* Fields and layouts *)

\* A field: the word copied, how far the pointer moves, and whether it is the length of
\* a string that follows.
Campo(nombre, copia, avance, cadena) ==
  [nombre |-> nombre, copia |-> copia, avance |-> avance, cadena |-> cadena]

U32(nombre)         == Campo(nombre, 4, 4, FALSE)
Cadena(nombre)      == Campo(nombre, 4, 4, TRUE)
CadenaSizeT(nombre) == Campo(nombre, 8, 8, TRUE)

\* `agregar' and `leer' go through buffer->offset, and agregar makes the stream grow;
\* `memcpy' copies to a block of the size the serialiser computes, and from one of at
\* least the size the deserialiser asks for.
Agregar(campos)        == [modo |-> "offset", campos |-> campos]
Leer(campos)           == [modo |-> "offset", campos |-> campos]
Memcpy(tamanio, campos) == [modo |-> "memcpy", tamanio |-> tamanio, campos |-> campos]

\* A stream being written: what it holds, where the next write goes, and whether all
\* have been inside.  agregar_buffer_Uint32, agregar_buffer_int and agregar_buffer_string
\* realloc to size plus what comes, and memcpy to offset.
Escribir(modo, e, bytes, avance) ==
  LET bloque == IF modo = "offset" THEN e.stream \o Indefinidos(Len(bytes)) ELSE e.stream
  IN [stream |-> Copiar(bloque, e.pos, bytes),
      pos    |-> e.pos + avance,
      dentro |-> e.dentro /\ e.pos + Len(bytes) <= Len(bloque)]

\* Of a string, the length first, and the text with its NUL.
EscribirCampo(modo, e, campo, m) ==
  LET numero == Escribir(modo, e, Bytes(<<"num", m.largo + 1>>, campo.copia), campo.avance)
  IN IF campo.cadena
     THEN Escribir(modo, numero, Bytes(<<campo.nombre, m.n>>, m.largo + 1), m.largo + 1)
     ELSE Escribir(modo, e, Bytes(<<campo.nombre, m.n>>, campo.copia), campo.avance)

\* The block a serialiser starts with.
Inicio(formato, offset) ==
  IF formato.modo = "offset" THEN [stream |-> << >>, pos |-> offset, dentro |-> TRUE]
  ELSE [stream |-> Indefinidos(formato.tamanio), pos |-> 0, dentro |-> TRUE]

Serializar(formato, m, offset) ==
  LET tras[k \in 0 .. Len(formato.campos)] ==
        IF k = 0 THEN Inicio(formato, offset)
        ELSE EscribirCampo(formato.modo, tras[k - 1], formato.campos[k], m)
  IN tras[Len(formato.campos)]

-----------------------------------------------------------------------------
(* What each operation carries: serializar_X writes it, deserializar_X reads it *)

Pid == U32("pid")
Tid == U32("tid")
PidTid == <<Pid, Tid>>

\* From the kernel to memoria.
serializar_asignar_memoria(m) == Memcpy(4 + 4, <<Pid, U32("tamanio")>>)
deserializar_asignar_memoria  == Leer(<<Pid, U32("tamanio")>>)

\* The length counted without the NUL that is copied.
serializar_hilo_ready_SinNul(m) ==
  Memcpy(2 * 4 + 4 + m.largo + 8, PidTid \o <<Campo("prioridad", 8, 4, FALSE), CadenaSizeT("path")>>)

\* memcpy takes sizeof(size_t) bytes of an int; the length then covers those in excess.
serializar_hilo_ready(m) ==
  Memcpy(2 * 4 + 4 + (m.largo + 1) + 8,
         PidTid \o <<Campo("prioridad", 8, 4, FALSE), CadenaSizeT("path")>>)
deserializar_crear_hilo ==
  Memcpy(0, PidTid \o <<U32("prioridad"), CadenaSizeT("path")>>)

agregar_pid  == Agregar(<<Pid>>)
finalizar_proceso == Leer(<<Pid>>)

\* The pid twice.
serializar_finalizar_hilo   == Agregar(<<Pid, Pid>>)
deserializar_finalizar_hilo == Leer(PidTid)

serializar_datos_dump_memory   == Agregar(PidTid)
deserializar_datos_dump_memory == Leer(PidTid)

\* From memoria to the kernel.
serializar_proceso_memoria(m) == Memcpy(4 + 4, <<Pid, U32("bit_confirmacion")>>)
deserializar_proceso_memoria  == Memcpy(0, <<Pid, U32("bit_confirmacion")>>)

serializar_hilo_memoria(m)         == Memcpy(3 * 4, PidTid \o <<U32("bit_confirmacion")>>)
deserializar_creacion_hilo_memoria == Memcpy(3 * 4, PidTid \o <<U32("bit_confirmacion")>>)

\* From the kernel to the CPU, and from the CPU to memoria.
serializar_hilo_cpu(m)      == Memcpy(2 * 4, PidTid)
deserializar_enviar_contexto == Leer(PidTid)

serializar_obtener_instruccion(m) == Memcpy(3 * 4, <<U32("pc"), Tid, Pid>>)
deserializar_obtener_instruccion  == Memcpy(0, <<U32("pc"), Tid, Pid>>)

serializar_write_mem   == Agregar(<<U32("dir_fis"), U32("valor")>> \o PidTid)
deserializar_write_mem == Leer(<<U32("dir_fis"), U32("valor")>> \o PidTid)

serializar_read_mem   == Agregar(<<U32("dir_fis")>> \o PidTid)
deserializar_read_mem == Leer(<<U32("dir_fis")>> \o PidTid)

\* Both ways between the CPU and memoria: eight registers.
Contexto == <<Tid, U32("pc"), U32("base"), U32("limite"), Pid, Campo("registros", 32, 32, FALSE)>>
serializar_enviar_contexto_cpu(m) == Memcpy(4 + 4 + 4 + 4 + 4 + 32, Contexto)
deserializar_enviar_contexto_cpu  == Memcpy(0, Contexto)

\* From memoria to the CPU.
serializar_enviar_instruccion(m) == Memcpy(4 + (m.largo + 1), <<Cadena("instruccion")>>)
deserializar_enviar_instruccion  == Memcpy(0, <<Cadena("instruccion")>>)

serializar_int(m) == Memcpy(4, <<U32("numero")>>)
deserializar_int  == Memcpy(0, <<U32("numero")>>)

\* The listener of the CPU reads nothing of these.
SinLeer == Leer(<< >>)

\* From the CPU to the kernel.
serializar_datos_esenciales   == Agregar(PidTid)
deserializar_datos_esenciales == Leer(PidTid)

serializar_process_create ==
  Agregar(PidTid \o <<Cadena("archivo"), U32("tamanio"), U32("prioridad")>>)
deserializar_process_create ==
  Leer(PidTid \o <<Cadena("archivo"), U32("tamanio"), U32("prioridad")>>)

serializar_thread_create(m) ==
  Memcpy(3 * 4 + 8 + (m.largo + 1), PidTid \o <<CadenaSizeT("archivo"), U32("prioridad")>>)
deserializar_thread_create ==
  Memcpy(0, PidTid \o <<CadenaSizeT("archivo"), U32("prioridad")>>)

serializar_thread_join_y_cancel   == Agregar(PidTid \o <<U32("tid_pedido")>>)
deserializar_thread_join_y_cancel == Leer(PidTid \o <<U32("tid_pedido")>>)

serializar_IO   == Agregar(PidTid \o <<U32("tiempo")>>)
deserializar_IO == Leer(PidTid \o <<U32("tiempo")>>)

serializar_mutex   == Agregar(PidTid \o <<Cadena("recurso")>>)
deserializar_mutex == Leer(PidTid \o <<Cadena("recurso")>>)

-----------------------------------------------------------------------------
(* Who sends what to whom *)

Operaciones ==
  [ kernel_memoria |-> {"ASIGNAR_MEMORIA", "HILO_READY", "FINALIZAR_PROCESO", "FINALIZAR_HILO",
                        "DUMP_MEMORY"},
    memoria_kernel |-> {"CONFIRMAR_ESPACIO_PROCESO", "CONFIRMAR_CREACION_HILO"},
    kernel_cpu     |-> {"RECIBIR_TID"},
    cpu_memoria    |-> {"OBTENER_CONTEXTO", "ACTUALIZAR_CONTEXTO", "OBTENER_INSTRUCCION",
                        "WRITE_MEM", "READ_MEM"},
    memoria_cpu    |-> {"ENVIAR_CONTEXTO", "ENVIAR_INSTRUCCION", "CONFIRMAR_CONTEXTO_ACTUALIZADO",
                        "CONFIRMAR_WRITE_MEM", "ENVIAR_READ_MEM"},
    cpu_kernel     |-> {"PROCESS_CREATE", "PROCESS_EXIT", "THREAD_CREATE", "THREAD_JOIN",
                        "THREAD_CANCEL", "THREAD_EXIT", "MUTEX_CREATE", "MUTEX_LOCK",
                        "MUTEX_UNLOCK", "DUMP_MEMORY", "IO"} ]

\* The serialiser each sender calls.
Escribe(con, op, m) ==
  CASE op = "ASIGNAR_MEMORIA"     -> serializar_asignar_memoria(m)
    [] op = "HILO_READY"          -> serializar_hilo_ready(m)
    [] op = "FINALIZAR_PROCESO"   -> agregar_pid
    [] op = "FINALIZAR_HILO"      -> serializar_finalizar_hilo
    [] op = "CONFIRMAR_ESPACIO_PROCESO" -> serializar_proceso_memoria(m)
    [] op = "CONFIRMAR_CREACION_HILO"   -> serializar_hilo_memoria(m)
    [] op \in {"RECIBIR_TID", "OBTENER_CONTEXTO"}        -> serializar_hilo_cpu(m)
    [] op \in {"ACTUALIZAR_CONTEXTO", "ENVIAR_CONTEXTO"} -> serializar_enviar_contexto_cpu(m)
    [] op = "OBTENER_INSTRUCCION" -> serializar_obtener_instruccion(m)
    [] op = "WRITE_MEM"           -> serializar_write_mem
    [] op = "READ_MEM"            -> serializar_read_mem
    [] op = "ENVIAR_INSTRUCCION"  -> serializar_enviar_instruccion(m)
    [] op \in {"CONFIRMAR_CONTEXTO_ACTUALIZADO", "CONFIRMAR_WRITE_MEM", "ENVIAR_READ_MEM"} ->
         serializar_int(m)
    [] op = "PROCESS_CREATE"      -> serializar_process_create
    [] op = "THREAD_CREATE"       -> serializar_thread_create(m)
    [] op \in {"THREAD_JOIN", "THREAD_CANCEL"} -> serializar_thread_join_y_cancel
    [] op \in {"MUTEX_CREATE", "MUTEX_LOCK", "MUTEX_UNLOCK"} -> serializar_mutex
    [] op = "IO"                  -> serializar_IO
    [] op \in {"PROCESS_EXIT", "THREAD_EXIT"} -> serializar_datos_esenciales
    [] op = "DUMP_MEMORY" -> IF con = "cpu_kernel" THEN serializar_datos_esenciales
                             ELSE serializar_datos_dump_memory

\* The deserialiser of the case of each listener's switch.
Lee(con, op) ==
  CASE op = "ASIGNAR_MEMORIA"     -> deserializar_asignar_memoria
    [] op = "HILO_READY"          -> deserializar_crear_hilo
    [] op = "FINALIZAR_PROCESO"   -> finalizar_proceso
    [] op = "FINALIZAR_HILO"      -> deserializar_finalizar_hilo
    [] op = "CONFIRMAR_ESPACIO_PROCESO" -> deserializar_proceso_memoria
    [] op = "CONFIRMAR_CREACION_HILO"   -> deserializar_creacion_hilo_memoria
    [] op \in {"RECIBIR_TID", "OBTENER_CONTEXTO"}        -> deserializar_enviar_contexto
    [] op \in {"ACTUALIZAR_CONTEXTO", "ENVIAR_CONTEXTO"} -> deserializar_enviar_contexto_cpu
    [] op = "OBTENER_INSTRUCCION" -> deserializar_obtener_instruccion
    [] op = "WRITE_MEM"           -> deserializar_write_mem
    [] op = "READ_MEM"            -> deserializar_read_mem
    [] op = "ENVIAR_INSTRUCCION"  -> deserializar_enviar_instruccion
    [] op = "CONFIRMAR_CONTEXTO_ACTUALIZADO"             -> deserializar_int
    [] op \in {"CONFIRMAR_WRITE_MEM", "ENVIAR_READ_MEM"} -> SinLeer
    [] op = "PROCESS_CREATE"      -> deserializar_process_create
    [] op = "THREAD_CREATE"       -> deserializar_thread_create
    [] op \in {"THREAD_JOIN", "THREAD_CANCEL"} -> deserializar_thread_join_y_cancel
    [] op \in {"MUTEX_CREATE", "MUTEX_LOCK", "MUTEX_UNLOCK"} -> deserializar_mutex
    [] op = "IO"                  -> deserializar_IO
    [] op \in {"PROCESS_EXIT", "THREAD_EXIT"} -> deserializar_datos_esenciales
    [] op = "DUMP_MEMORY" -> IF con = "cpu_kernel" THEN deserializar_datos_esenciales
                             ELSE deserializar_datos_dump_memory

\* The one deserialiser that looks at the size first, and returns NULL.
Corto(formato, size) == formato.modo = "memcpy" /\ size < formato.tamanio

\* For the properties.  What the reader is to find, each under its own name...
Pedido(con, m) ==
  { <<campo.nombre, << <<campo.nombre, m.n>>,
                       IF campo.cadena THEN m.largo + 1 ELSE campo.copia >> >> :
      campo \in Range(Lee(con, m.op).campos) }

\* ...and whether it can: no garbage offset on either side, and not the one operation
\* whose sender writes the wrong field.
Limpio(m, offset) ==
  m.op # "FINALIZAR_HILO" /\ m.offset = 0 /\ offset = 0

-----------------------------------------------------------------------------
(* The connection *)

Ninguno  == [op |-> "", n |-> 0, largo |-> 0, offset |-> 0, datos |-> {}]
EnEspera == [fase |-> "op", op |-> "", size |-> 0, stream |-> << >>, offset |-> 0,
             pos |-> 0, leidos |-> 0, datos |-> {}]

Init ==
  /\ conexion \in DOMAIN Operaciones
  /\ hilos = [h \in Hilos |-> [mensaje |-> Ninguno, falta |-> << >>]]
  /\ socket = << >> /\ abierto = TRUE /\ lector = EnEspera
  /\ armados = 0 /\ pendientes = << >> /\ justo = TRUE
  /\ entregado = [op |-> "", datos |-> {}, limpio |-> FALSE]

\* The header and the body in a send each.
EnTrozos_Dos(op, stream) ==
  <<Bytes(<<"op", op>>, 4) \o Bytes(<<"num", Len(stream)>>, 4), stream>>

\* The size with the header.
EnTrozos_ConCabecera(op, stream) ==
  <<Bytes(<<"op", op>>, 4) \o Bytes(<<"num", Len(stream) + 8>>, 4) \o stream>>

\* serializar_paquete, and the one send of enviar_paquete.
EnTrozos(op, stream) ==
  <<Bytes(<<"op", op>>, 4) \o Bytes(<<"num", Len(stream)>>, 4) \o stream>>

\* crear_paquete and the serialiser.
Armar(h, op, largo, offset) ==
  LET sin     == [op |-> op, n |-> armados + 1, largo |-> largo, offset |-> offset, datos |-> {}]
      m       == [sin EXCEPT !.datos = Pedido(conexion, sin)]
      formato == Escribe(conexion, op, m)
      escrito == Serializar(formato, m, offset)
  IN /\ abierto /\ hilos[h].falta = << >> /\ armados < MaxEnviados
     /\ formato.modo = "memcpy" => offset = 0
     /\ (\A i \in DOMAIN formato.campos : ~formato.campos[i].cadena) => largo = 0
     /\ hilos' = [hilos EXCEPT ![h] = [mensaje |-> m, falta |-> EnTrozos(op, escrito.stream)]]
     /\ justo' = (justo /\ (offset = 0 => escrito.dentro /\ escrito.pos = Len(escrito.stream)))
     /\ armados' = armados + 1
     /\ UNCHANGED <<conexion, socket, abierto, lector, pendientes, entregado>>

\* send; the message counts as sent with its first byte.
Enviar(h) ==
  LET falta == hilos[h].falta
      m     == hilos[h].mensaje
  IN /\ abierto /\ falta # << >>
     /\ socket' = socket \o Head(falta)
     /\ hilos' = [hilos EXCEPT ![h] = [mensaje |-> Ninguno, falta |-> Tail(falta)]]
     /\ pendientes' = IF m = Ninguno THEN pendientes ELSE Append(pendientes, m)
     /\ UNCHANGED <<conexion, abierto, lector, armados, entregado, justo>>

\* The sender's process ends; what it sent stays to be received.
Cerrar ==
  /\ abierto /\ abierto' = FALSE
  /\ hilos' = [h \in Hilos |-> [mensaje |-> Ninguno, falta |-> << >>]]
  /\ UNCHANGED <<conexion, socket, lector, armados, pendientes, entregado, justo>>

\* recibir_operacion: -1 when the other end has closed.
RecibirOperacion ==
  /\ lector.fase = "op"
  /\ \/ /\ Len(socket) >= 4
        /\ lector' = [lector EXCEPT !.fase = "size", !.op = Operacion(SubSeq(socket, 1, 4))]
        /\ socket' = SubSeq(socket, 5, Len(socket))
     \/ /\ ~abierto /\ socket = << >>
        /\ lector' = [lector EXCEPT !.fase = "fin"]
        /\ UNCHANGED socket
  /\ UNCHANGED <<conexion, hilos, abierto, armados, pendientes, entregado, justo>>

\* The first recv of recibir_buffer, and its malloc.
RecibirTamanio ==
  /\ lector.fase = "size" /\ Len(socket) >= 4
  /\ LET bytes == SubSeq(socket, 1, 4)
     IN lector' = IF EsNumero(bytes)
                  THEN [lector EXCEPT !.fase = "stream", !.size = Numero(bytes)]
                  ELSE [lector EXCEPT !.fase = "fin"]
  /\ socket' = SubSeq(socket, 5, Len(socket))
  /\ UNCHANGED <<conexion, hilos, abierto, armados, pendientes, entregado, justo>>

\* Its second recv, the t_buffer of recibir_paquete, and the listener's switch: the
\* default case takes no notice of an operation it does not know.
RecibirContenido ==
  /\ lector.fase = "stream" /\ Len(socket) >= lector.size
  /\ socket' = SubSeq(socket, lector.size + 1, Len(socket))
  /\ \/ /\ lector.op \notin Operaciones[conexion]
        /\ lector' = EnEspera
     \/ /\ lector.op \in Operaciones[conexion]
        /\ LET formato == Lee(conexion, lector.op)
           IN \E offset \in IF formato.modo = "offset" THEN Offsets ELSE {0} :
                lector' = [lector EXCEPT
                             !.fase = IF Corto(formato, lector.size) THEN "fin" ELSE "leer",
                             !.stream = SubSeq(socket, 1, lector.size),
                             !.offset = offset, !.pos = offset]
  /\ UNCHANGED <<conexion, hilos, abierto, armados, pendientes, entregado, justo>>

Campos == Lee(conexion, lector.op).campos

\* The next field of the deserialiser.  Garbage for the length of a string is a malloc and
\* a memcpy of any size: the thread falls.
LeerCampo ==
  LET campo   == Campos[lector.leidos + 1]
      palabra == Tomar(lector.stream, lector.pos, campo.copia)
      texto   == lector.pos + campo.avance
      Lectura(bytes, pos) ==
        [lector EXCEPT !.pos = pos, !.leidos = @ + 1,
                       !.datos = @ \cup {<<campo.nombre, Valor(bytes)>>}]
  IN /\ lector.fase = "leer" /\ lector.leidos < Len(Campos)
     /\ lector' =
          IF ~campo.cadena THEN Lectura(palabra, texto)
          ELSE IF EsNumero(palabra)
          THEN Lectura(Tomar(lector.stream, texto, Numero(palabra)), texto + Numero(palabra))
          ELSE [lector EXCEPT !.fase = "fin"]
     /\ UNCHANGED <<conexion, hilos, socket, abierto, armados, pendientes, entregado, justo>>

\* The deserialiser returns: the rest of the case has its data, and the listener goes on.
Entregar ==
  /\ lector.fase = "leer" /\ lector.leidos = Len(Campos)
  /\ entregado' = [op |-> lector.op, datos |-> lector.datos,
                   limpio |-> Limpio(Head(pendientes), lector.offset)]
  /\ pendientes' = Tail(pendientes)
  /\ lector' = EnEspera
  /\ UNCHANGED <<conexion, hilos, socket, abierto, armados, justo>>

Next ==
  \/ \E h \in Hilos : \E op \in Operaciones[conexion], largo \in Largos, offset \in Offsets :
       Armar(h, op, largo, offset)
  \/ \E h \in Hilos : Enviar(h)
  \/ Cerrar
  \/ RecibirOperacion \/ RecibirTamanio \/ RecibirContenido \/ LeerCampo \/ Entregar

Recibir == RecibirOperacion \/ RecibirTamanio \/ RecibirContenido \/ LeerCampo \/ Entregar

Spec == Init /\ [][Next]_vars

\* The listener is a loop on a blocking recv; nothing makes a sender send.
FairSpec == Spec /\ WF_vars(Recibir)

-----------------------------------------------------------------------------
(* Properties *)

CANAL == INSTANCE Canal WITH cola <- pendientes

\* Whatever threads send at once and wherever the listener is, packets come out whole, in
\* the order of their sends, with the operation sent and, for each of the pairs of
\* serialiser and deserialiser, with each field where the reader takes it from; a garbage
\* offset spoils the fields of its packet and never those of another one
\* (serializar.c:286-344, utils.c:247-256).
ImplementaCanal == CANAL!Spec

\* The block of a serialiser that starts at its beginning is of the size it computes for
\* it: nothing is written past the end and no byte is sent that was not written
\* (serializar.c:456, c_conexiones.c:403).
BloqueJusto == justo

\* Every packet sent is delivered, those sent before the other process ended too, unless
\* the listener falls in one that garbage spoiled (serializar.c:316-344).
TodoLlega ==
  pendientes # << >> ~>
    \/ pendientes = << >>
    \/ lector.fase = "fin" /\ ~Limpio(Head(pendientes), lector.offset)

=============================================================================
