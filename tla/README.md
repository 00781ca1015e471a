# Verification of *The Last of C*

TLA+ models, model-checking runs and machine-checked proofs of the operating-system
simulator in `src/`: five programs in C that talk over TCP sockets: a **kernel**, a
**memoria**, a **cpu** and a **filesystem**, with a common library **utils**. Names in
the modules are those of the code, Spanish included.

1. [The system](#1-the-system): inventory of its parts
2. [Modules](#2-modules): what models what
3. [Runs](#3-runs): what is checked, with which bounds
4. [Fairness](#4-fairness)
5. [Proofs](#5-proofs)
6. [Divergences](#6-where-the-code-and-its-comments-disagree)
7. [Not modelled](#7-what-is-not-modelled)
8. [Plan](#8-plan)

## 1. The system

### Kernel (`src/kernel/src`)

State. `cola_new` (processes waiting for memory); `lista_procesos` (PCBs with a counter
of tids and a list of mutexes); `lista_tcbs`, `lista_ready`, `lista_blocked` (threads);
the semaphores `mutex` (meant to protect the lists), `sem_plani_largo_plazo` (a process
may ask for memory) and `TCBaPlanificar` (there is a thread to dispatch).

Threads. `main` creates the first process (`PLANI_PROC`, size 32) and joins the
*long-term planner*, which never returns: `planificador_cortoPlazo` at `kernel.c:34` is
never reached. The *memoria listener* (`kernel_escucha_memoria`) takes confirmations; the
second one, `CONFIRMAR_CREACION_HILO`, makes it call `planificador_corto_plazo` itself,
and it never comes back. The *dispatch listener* (`kernel_escucha_cpu_dispatch`) serves
the system calls the CPU sends, and for some of them reads the socket of memoria.
The *interrupt listener* logs, and exits when
the CPU is gone.

Operations. Eleven system calls (PROCESS_CREATE/EXIT, THREAD_CREATE/JOIN/CANCEL/EXIT,
MUTEX_CREATE/LOCK/UNLOCK, DUMP_MEMORY, IO), two confirmations, two planners.

Hard behaviour. Two listeners share unprotected lists; the semaphore `mutex` is posted
twice where it should be waited for and posted; TCBs are freed while lists hold them and
malloc reuses their addresses; `finalizar_proceso` and `finalizar_hilo` nest their waits;
two threads read one socket. Correct when: tids name one thread, mutex queues agree with
the blocked threads, a blocked thread can be found again, the listeners never overlap, no
wait is missed, the planner goes on with whoever is ready. The last is false.

### Memoria (`src/memoria/src`)

State. `lista_particiones` (base, limite, tamanio, libre, pid), `lista_contextos` (one
per thread, with copies of base and limite), the user memory. One thread serves the
kernel, one the CPU, one the file system.

Operations. From the kernel: ASIGNAR_MEMORIA (search FIRST/BEST/WORST in FIJAS or
DINAMICAS partitions, split), FINALIZAR_PROCESO (free, merge), HILO_READY,
FINALIZAR_HILO, DUMP_MEMORY. From the CPU: contexts, instructions, READ_MEM, WRITE_MEM.

Hard behaviour. Partitions are found by a `pid` field that is not initialised; contexts
keep copies of a geometry that changes; splits and merges in long sequences; a refusal in
each scheme. Correct when: what is confirmed is what is held, address ranges are
disjoint, memory is conserved, a process's partition is left alone by the others.

### CPU (`src/cpu/src`)

State. `PidHilo`/`TidHilo`, `control_key`, `instruccionActual`, `sem_instruccion`,
`sem_syscall`, `parteActual`, and the context the cycle works on.

Threads. The dispatch listener, the interrupt listener, the memoria listener (which
starts the instruction cycle as a thread), the cycle.

Hard behaviour. They share their variables with no lock; the cycle waits for replies the
listener posts, and READ_MEM reads the listener's socket. Correct when: what is executed
is the instruction at the PC, the context is in memoria before the kernel is told of a
system call, one call leaves per dispatch.

### File system (`src/filesystem/src`)

State. `bitmap.dat`, `bloques.dat`, both truncated at every start. One listener.
Operation: DUMP_MEMORY (`crear_archivo`: count blocks, reserve bits, write blocks). It
answers nothing: the calls that would are commented out.

Hard behaviour. The bits reserved are whatever is free, the blocks written are in a row;
size 0, exact multiples, a full bitmap; a crash with bits set. Correct when: dumps lie in
reserved blocks, do not overlap, stay as written, and no block is lost.

### utils (`src/utils/src`)

Packets (`t_buffer`, `serializar_*`, `deserializar_*`), sockets, handshakes,
configuration, log. No state but the packet being built or read.

Hard behaviour. Sizes of blocks computed by hand; readers that walk a raw stream and
readers that go through `buffer->offset`, which no constructor sets; several threads that
send on one socket. Correct when: a packet leaves and arrives whole, and each field is read
back from where it was written.

### How they interact

    kernel  --ASIGNAR_MEMORIA, HILO_READY, FINALIZAR_*, DUMP_MEMORY-->  memoria
    memoria --CONFIRMAR_ESPACIO_PROCESO, CONFIRMAR_CREACION_HILO-->     kernel
    kernel  --the tid to run (dispatch socket)-->                       cpu
    cpu     --system calls (dispatch socket)-->                         kernel
    cpu     --OBTENER_*, ACTUALIZAR_CONTEXTO, READ_MEM, WRITE_MEM-->    memoria
    memoria --ENVIAR_*, CONFIRMAR_*-->                                  cpu
    memoria --DUMP_MEMORY-->                                            filesystem

Start. The file system listens; memoria listens, connects to the file system and takes its
first client for the CPU and all others for the kernel; the CPU connects to memoria and
then opens its two ports, one after the other; the kernel connects to dispatch, interrupt
and memoria, and creates the first process. Each connection begins with a handshake whose
contents nobody looks at. When a peer is lost, some listeners return, some try again, some
exit and some use a NULL packet.

A consequence of the two planners' structure is that **the kernel dispatches exactly one
thread in its life** (theorem `Despacho`), and the CPU makes one system call per dispatch:
what the closed system does, modelled in `Sistema`, is short. `Kernel` still explores every
sequence of system calls of any runnable thread, so that the handlers are checked as code
and not only along the one path the defect leaves.

The hazards this structure exposes are in `PROJECT.json`, each at its line with the
properties that watch it.

## 2. Modules

| Module | Models | State | Actions |
|---|---|---|---|
| `Kernel` | `k_conexiones.c`, the two listeners, `planificadores.c`, `kernel.c` | the lists, PCBs, TCBs, semaphores, the position of each thread, the sockets as queues | one per system call, per confirmation, per planner; a handler that waits in the middle is two or more (`FinIO`, `FinHilo`, `RespuestaFinProceso`, `RecorrerHilos`, `FinProceso`) |
| `Memoria` | `escuchar_kernel.c`, `m_conexiones.c` | partitions, contexts, and the kernel's side of the protocol (`pcb`, `hilos`, `espera`) | `PedirProceso`, `PedirBasura` (ASIGNAR_MEMORIA, the second with the unwritten PCB the planner sends when `cola_new` is empty), `FinalizarProceso`, `CrearHilo` (HILO_READY), `FinalizarHilo`: one thread runs them, so each handler is one step |
| `FileSystem` | `escuchar_memoria.c`, `filesystem.c` | bits, blocks, the history of dumps | the outcomes of `crear_archivo`: written, crash while reserving, size 0, refused; restart |
| `AsignadorBloques` | what `crear_archivo` promises | blocks of each dump | `Asignar`, `Reiniciar`; refined by `FileSystem` |
| `Cpu` | `ciclo_de_instruccion.c`, `c_conexiones.c`, the listeners, memoria's `escuchar_cpu.c` | the shared variables, the cycle's position, the sockets, the PCs in memoria's contexts | each phase of the cycle, each message of each listener |
| `Sistema` | the three of them joined: `K == INSTANCE Kernel`, `M == INSTANCE Memoria`, `C == INSTANCE Cpu` over shared sockets, and memoria's replies to the kernel | that of the three | theirs, as the ten threads' actions; the guesses each module makes of its environment are replaced by the others |
| `Dump` | DUMP_MEMORY through `escuchar_kernel.c`, `memoria_escucha_FS.c` and the file system's `escuchar_memoria.c`, word by word | the three sockets, where each thread is | the request, `envio_datos_a_FS` and its `recv`, the kernel's listener up to the planner, each read of the file system, the listeners' reaction to a closed socket, the end of a process |
| `Paquetes` | `serializar.c` and `recibir_*`: blocks as sequences of bytes, each serialiser's layout, each deserialiser's walk | the packets being built, the bytes in the socket, the reader's position | `Armar`, `Enviar`, the three reads of `recibir_paquete`, one field at a time, `Entregar`; `Cerrar` |
| `Canal` | what the other modules take a socket to be: a queue of messages | messages sent, the last delivered | `Mandar`, `Entregar`; refined by `Paquetes` |
| `Conexiones` | the four `main`s up to their listeners, handshakes, loss of a connection, restarts | for each process its place in `main`, what it is connected to, the queues of each port | start, stop, each call of `main`, each listener losing its peer |
| `MCKernel`, `MCMemoria`, `MCCpu`, `MCSistema` | values of constants for TLC | | |
| `KernelProofs`, `MemoriaProofs`, `FileSystemProofs`, `CpuProofs`, `SistemaProofs`, `PaquetesProofs`, `DumpProofs`, `ConexionesProofs` | theorems | | |

Operators named `X_Y` after an operator `X` are `X` with a bug of the kind the code could
have had; no specification uses them.

Abstractions, by module.

* `Kernel`. A TCB is an address with the fields the code reads. `free` makes the address
  available and overwrites the first words (pid, tid), as malloc does, so
  a freed entry of `lista_tcbs` matches no search. The CPU is the most general one: after
  the dispatch any thread that is neither blocked nor ended may make the next call.
  `recibir_mensajeV2` reads a size, so it takes a packet of another kind apart: from then
  on `desfasado` is TRUE and a read may take anything or block. The listener's log through
  a pointer of another `case` (`kernel_escucha_memoria.c:49`) is taken to be harmless. A NULL or
  integer used as a pointer makes `viva` FALSE: the process has ended.
* `Memoria`. A pid not yet written is any member of `PidBasura`; the theorems about
  contents assume garbage is not a pid in use, and a request of the planner with an
  uninitialised PCB (`PedirBasura`) carries a pid that no live process has. Arithmetic is
  modulo `Modulo` (2^32).
* `Cpu`. Registers hold nothing; a program gives each memory access its logical address.
  Instructions on unknown registers, or with PC as an operand, are not modelled. JNZ's write
  through the PC ends the process.
* `FileSystem`. A block holds the number of the dump and how many of its bytes. A crash
  while reserving comes when the scan has set its bits, not in the middle of it; a restart
  truncates both files, so nothing is left of either.
* `Sistema`. The configuration of the repository (FIJAS, FIRST, FIFO, one process created
  by `main`); its file of instructions is any of nine scripts. When memoria dies the others
  wait: what they do with a closed socket is in `Conexiones`.
* `Dump`. Contents are not kept: a word of the socket is an op code or a size. The thread
  that asks for a dump is any, once the kernel's listener of memoria is in the short-term
  planner, which is when there is a thread to run; no script of the CPU gets to DUMP_MEMORY
  (section 6). From then on that listener reads nothing, so what memoria sends stays in the
  socket: the reads of the dispatch listener, in the end of a thread or a process, are in
  `Kernel`. Of the start only HILO_READY is kept.
* `Paquetes`. A byte knows which value it is part of, so a field read from the wrong place
  is seen. What is written past the end of a block is lost; a `send` is never partial; the
  CPU cycle's own `recv` of a READ_MEM is in `Cpu`.
* `Conexiones`. One process of each kind at a time, on one machine.
* In `Kernel`, `Memoria`, `Cpu` and `Sistema` a socket is a queue of whole messages, which
  theorem `PaquetesEsUnCanal` justifies (for packets whose offset is 0, those that are
  written where they are read), and peers do not die.

## 3. Runs

Twelve runs, `tlc -config <run>.cfg <module>` with the module `PROJECT.json` names; state
counts are of complete searches. The proofs: `tlapm <module>Proofs.tla`.

| Run | Bounds | States | Shows |
|---|---|---|---|
| `Kernel` | 3 TCB addresses (symmetric), 1 mutex name, 2 processes, tids to 3, 5 system calls, memoria answers the end of a thread or not | 1 405 140 | tids are unique among living threads; mutex queues, owners and blocked threads agree; blocked threads are in `lista_blocked`; listeners do not overlap; no bad pointer before the dispatch; `mutex` never reaches 0 |
| `MemoriaFijas` | partitions 2, 1, 3; BEST; 2 processes of sizes 1, 2; 2 tids; garbage pids 0, 99 | 539 796 | a confirmed process has one partition, large enough, others none; the contexts of running processes are disjoint; partitions are stable |
| `MemoriaDinamicas` | 6 units; FIRST; 3 processes of sizes 1 to 3 | 448 787 | sizes add up; partitions are stable; splits keep extents disjoint |
| `FileSystem` | blocks of 2 bytes, 7 blocks (8 bits), sizes 0, 1, 2, 3, 4, 5, 16, 40 | 8 948 | no hole in the bitmap; dumps stay as written; no block lost; implements `AsignadorBloques`, so dumps never overlap |
| `Cpu` | 8 programs with the shape of the scripts, memory of 16 | 190 | instruction at the PC; context saved before the call leaves |
| `Sistema` | 9 scripts, partitions 1, 1, 2, 3, 2 addresses, 2 processes, garbage sizes 1, 2, 9 | 52 600 | requests keep memoria's protocol; the caller is in EXEC; what the CPU asks for exists and nobody frees it meanwhile; kernel and CPU see of each other what their modules assume; the first process runs and its call is served |
| `Paquetes` | 2 sending threads, 2 packets in all, each of the connections, strings of 0 and 3, offsets 0 and 5 | 130 052 | blocks just full; implements `Canal`; every packet arrives |
| `Conexiones` | each process started twice at most | 155 104 | who is taken for whom; which connection may be refused; the system starts; the end of kernel or CPU ends all |
| `KernelFinDuenio`, `CpuExit` | as `Kernel` and `Cpu` | | divergences of section 6 |
| `KernelReady` | 2 addresses, 1 system call, memoria answers the end of a thread or not | 594 | a divergence: what comes to `lista_ready` after the dispatch stays there |
| `Dump` | 3 threads, one without a partition, 2 HILO_READY | 1 391 | a divergence: a dump is never answered |

Why the bounds are enough. *Kernel*: three addresses are a caller, a thread it waits for
and a third to queue behind or to reuse a freed address; five calls are create, create,
mutex create, lock, lock, or create, lock, exit, create with reuse. Two processes are the
least with which PROCESS_EXIT must leave other threads alone. One mutex name suffices,
since a call touches one. *Memoria*: sizes give an exact fit, a fit with rest and no fit;
three dynamic processes give a free partition between two others, a merge on each side and
a split after it. Garbage 0 is what fresh pages hold, 99 no pid at all. *FileSystem*: sizes
give an empty, a partial, an exact and several blocks, the whole bitmap and more than it;
seven blocks in eight bits has the round-up of `filesystem.c:38`. *Cpu*: each program is deterministic
but for the interleaving, so states are few; they cover every instruction class, both
outcomes of the MMU and a wrap-around of 32 bits (`Modulo` 64). *Sistema*: the closed system
serves one system call, so a script has what comes before it, the call and what would come
after; the garbage sizes are one that fits, one that fits exactly and one that kills memoria.
*Paquetes*: two packets are a spoiled one and the one after it; the deserialisers have no
state that outlives a packet. Offset 0 is a fresh page; 5 is what malloc leaves in a block it
hands out again, any number that is not the start of a field. *KernelReady*, *Dump*: enough
for the counterexample, and no bound is what stops it: in the first all that is left to happen
is up to the CPU, which waits for a dispatch; in the second two threads wait for each other.
*Conexiones*: a second start is an old peer's successor; a third one meets nothing a second does not, and for `PrimeroLaCpu` and
`MismoKernel` the theorems say so.

Deadlock is checked in `FileSystem`. The other systems do stop: the kernel when it has died, when
memoria never answers or at the bounds; memoria after a NULL; the CPU after its one call; a
listener when nothing else is sent to it.

Each property of the eight passing runs is paired in `PROJECT.json` with a mutation of a
modelled definition that makes TLC refute it.

Not every property is of the fixed code. `MutexNoSeAgota` holds *because* the lists'
semaphore is posted twice per thread (with the usual wait and post `finalizar_proceso` would
block for ever in its nested waits: the mutation `AgregarHilo_EsperaYPost` shows it);
`SinCarreras` holds *because* the memoria listener is lost inside the planner
and `ContextosSinCarrera` *because* there is one dispatch. Whoever repairs one must look at
the other; this is what these properties are for.

## 4. Fairness

Weak fairness of each kernel thread's actions (`LargoPlazo`, `EscuchaMemoria`,
`SigueSyscall`), of each CPU thread's, and of memoria serving its socket: they are POSIX
threads in loops that block only in a semaphore or a `recv`, so one whose step stays enabled
takes it. The CPU, as the kernel's environment, owes nothing: no fairness on
`AtiendeSyscall`. `SigueSinDesfase` leaves out of the assumption the reads made after a
packet was taken apart: they may wait for bytes that never come. That memoria serves its socket
does not mean that it answers: `KernelReady` lets it leave the two FINALIZAR requests
unanswered, as the code does, and its counterexample has none of them. No strong fairness is
needed: no semaphore with two waiters matters to the properties.

`Sistema` takes weak fairness of each thread of the three processes, the same assumption
with no environment left. `Paquetes` of the listener that receives, and not of those that
send. `Dump` of the kernel's listener of memoria, which takes a step only until it is in the
planner, of memoria's two threads (the one that serves the kernel, when its `recv` can
return) and of the file system's: the property is violated though all of them go on whenever
they can. Not of those who ask, and not of a process falling. `Conexiones` of each process
going on with its `main` and of each listener noticing that its peer is gone, which it does even while `main` goes round its
accept loop; nobody has to start or stop a process.

## 5. Proofs

All by TLAPS, for every value of the constants that satisfies the modules' ASSUMEs, which
say that bounds are naturals, that memory is less than the range of an address and that the
fixed partitions fit in it, that scripts are made of the CPU's instructions. `Sistema` has
them by name for its three components (`CotasValidas`, `MemoriaValida`, `CpuValida`) and one
of its own, `ParteDelPrimero`: the partition the CPU's module is given is the first one the
first process fits in. Each is evaluated by the runs of its module. Every safety
property of a passing run is stated by a theorem.

**KernelProofs.** `Fases`: `Fase == EnNew \/ Creando \/ Listo \/ Despachado` is inductive.
Before the dispatch nothing is served for the CPU (`Quieto`), and the only token is, in
turn, in the planner's semaphore, the request, the confirmation, `HILO_READY`, its
confirmation, and `TCBaPlanificar`. After it the memoria listener is inside the planner
with no post to come, and `Cuenta` relates `mutex` to the waits not yet answered.
`SinCarreras` and `UnSoloDespacho` (one dispatch) are not inductive alone: that the listener does not
leave the planner needs to know that nobody posts, which needs to know where the token is.
From `Fases`: `ListasSinCarrera`, `Despacho`, `Arranque`, `MutexDisponible`. `Despacho` is no
guarantee of the code but the measure of a defect: it is why `ListoSeDespacha` fails.

`EnOrden` is a second invariant, `IInv`, inductive with the help of `Fase`; only process 1
ever has threads. `HilosEnOrden`: a living thread is in `lista_tcbs`, its tid was handed out,
and what blocks it, if anything, is itself. With `tid_contador` only going up, no two have
one tid (`HilosUnicos`). `MutexesEnOrden`: an owner is alive, whoever is queued is alive and
BLOCKED, in one queue, once (`MutexesCoherentes`). `BloqueadoEnLista` is kept by each handler
(`BloqueadosEnLista`). The hard case is the end of a process: `finalizar_proceso` frees its
threads one by one, with a reply of memoria to read for each, and in between a mutex may
belong to a thread that is gone. `Correo` and `EnCurso` say why the checked invariants hold
all the same: once a thread is created after the dispatch, what the loop would read first is
not a reply (`Envenenado`: a confirmation of `HILO_READY` or of a process is ahead of it, and
the read takes that packet apart). It stays so: the listener of memoria, which would have
taken that message, does not come back from the planner. So the loop runs with one TCB or
not at all (`BucleDeUnHilo`).

**MemoriaProofs.** `Tipos` for both schemes and any configuration. For fixed partitions
(`Fijas == Esquema = "FIJAS" /\ PidBasura \cap Pids = {}`) the invariant `IFijas` is
TypeOK, `UnaParticionPorProceso`, `LibreSinProceso` (the pid of a free partition is no
process's), `ContextoConProceso` (no thread
is announced before its process is confirmed), `ContextoEnSuParticion`, and `EnSuLugar` (the
geometry is the one `configurar_particiones` laid out). A FINALIZAR_PROCESO finds its
partition by pid without looking at `libre`; only `LibreSinProceso` makes that the right
one. From it `UnaParticion`, `Contextos`, and `Aislamiento` (with `Separadas`, about the sums
of sizes).

For both schemes, and whatever the garbage pids are, `Estabilidad`: while a process stays
READY no request touches its partition. A split only inserts after the partition taken, and
a merge, which removes list entries and moves others, only ever merges free ones. For
dynamic partitions `Conservacion`: a split and a merge keep the sum of the sizes
(`SumaConservada`, a fold over the list, whose lemmas are proved by a least counterexample:
the positions where a claim about prefixes fails would have a least one). And `Division`: no
request but the end of a process makes disjoint partitions overlap, as long as the
addresses do not wrap (`SinDarVuelta`). That condition came out of the proof attempt, and is
the code's: a merge of list neighbours that are not neighbours in memory can leave a
partition that reaches past the memory, the base of what is next split off it then wraps
to 0, and overlaps what is there. `MemoriaDinamicas` has `Modulo` 8, so that it happens.

**FileSystemProofs.** Everything rests on `Prefijo`: the bits set are always the first
ones (`SinHuecos`). Lemma `Reserva` then gives that the bits reserved are the blocks in a
row that get written. From it `DumpsReservados`, `DumpsDisjuntos` and `Implementacion`: the
refinement of `AsignadorBloques`, assuming `SinDesborde`, that size + BLOCK_SIZE - 1 does
not overflow 32 bits. `BitsConDuenio` (`SinBloquesPerdidos`) adds that a dump takes exactly
the bits it writes to, and `Intactos` (`ContenidoIntacto`), again with `SinDesborde`, that
the blocks of an earlier dump, which are reserved, are not among those of a later one, and
that the last block holds the rest of the bytes (`BytesEscritos`).

**CpuProofs.** The cycle, the listener to memoria and memoria share an instruction, a context
and two semaphores with no lock. They are right because one token goes round: the dispatch,
the request of the context and the context (`Despachos`); then, for each instruction, the
request, its answer and the post (`Instrucciones`); and for a system call the context sent,
its confirmation and the post (`Guardados`). `IInv` says that at most one of each round is
anywhere, that it is about the thread and PC the cycle is at, and in which phase of the cycle
it may exist; `Quieto` says that the cycle holds the token and nobody owes it anything. From it
`InstruccionPropia` and `ContextoAntes`, for every program (a sequence of `Instruccion`),
partition and memory, with the one dispatch the kernel makes. That memoria found the
instruction at the PC, so it answers nothing past the end of a file, is what keeps the round
in the program.

**SistemaProofs.** `Kernel_en_Sistema`: `Sistema` implements `Kernel` under the mapping that
takes the kernel's variables and its socket with memoria as they are. Memoria's answers are
steps `MemoriaAtiende` (`Respuesta`, `PasoDeMemoria`), what it does not answer and what the
CPU does alone are stutters (`Tartamudeo`), and the rest are the kernel's own actions
(`PasoDeKernel`). So the environment `Kernel` assumes contains the memoria that is really
there, and the theorems of `KernelProofs` hold in the system.

`Cpu_en_Sistema` and `Memoria_en_Sistema` say the same of the other two. They need more: that
the CPU's memoria always has the context it asks for, in the partition its module was given;
that the kernel sends memoria the requests its module allows, no other. So the three are
proved together: `Junto` has the invariants of `KernelProofs`, `MemoriaProofs` and `CpuProofs`
(cited through `KP`, `MP` and `CP`, instances of those modules) and `IInv`, what joins
them. `Turno` is the long-term planner's token: its semaphore, one request, or the post that
is due. `Procesos`: no process but the first is confirmed before the planner gets to it.
`Pedidos`: of the other requests there is one at a time, about process 1, which is READY
and, for HILO_READY, has no context for that tid yet. `Contextos`: the main thread has its
context from the confirmation on, with the base and limite of the process's partition.
`LadoKernel`: nothing of the kernel's runs past what memoria answers. `LadoCpu`: the CPU asks
nothing before its one dispatch or after its one call, and for an access to memory it waits.
From it `EnProtocolo`, `LlamadorSigue`, `PedidosConContexto` and `SinCarreraDeContextos`. They
assume `PidsLimpios`, as `MemoriaProofs` does: that the pid left in a partition nobody wrote
is not that of a process. The code does not see to it (`t_particiones` comes from malloc);
with a garbage pid in use a FINALIZAR_PROCESO frees another partition.

**PaquetesProofs.** *Justeza.* `serializar.c` computes the size of a block by hand and then
writes the fields one by one. `SerializarEs` says what `Serializar`, a fold over the fields,
gives: one `Escritura` per field, in order. From a format and the block's size,
`Lugares` is where each field goes and `Cabe` that the last one ends at or before the end;
`TodosCaben` goes through the serialisers (the offset of a packet the reader never resets is
0 or not), and `BloqueJusto` follows for every length of the strings.
*PaquetesEsUnCanal.* `Paquetes` implements `Canal`. `Casan`: each deserialiser asks for the
fields its serialiser wrote, with their widths and in their order, but that of FINALIZAR_HILO,
which is sent the pid twice (section 6). `CanalIInv` is TiposP, `PaqueteEntero` (a packet ready
to be sent is its op code, its size and its block), `EnElCable` and `Leyendo` (what the reader
has read is a beginning of the message at the head). Several senders share the socket, and
a byte belongs to whichever wrote it, so what is in the socket is a relation between bytes
and messages: `Cables` is the least set of pairs closed under appending a packet. When the
reader is between packets the bytes are a pair with the messages not delivered; inside one,
what is missing of it comes first. `CableCabeza` takes the first packet off such a pair: it
is what `recibir_paquete` reads, byte for byte. `Enviar` then is `Mandar`, `Entregar` is
`Entregar`, and every other step stutters.

**DumpProofs.** Why `DumpRespondido` fails, for any number of threads and requests.
`NingunDumpTermina` (`RespuestaSoloSiCae`, `DumpNoLlega`) from `DumpEnCamino`: `EnCamino` has
the four places where the two words of a dump's packet (op code and a size that is 0) may be
while both processes live. Memoria waits for an answer; the file system takes the two words
for an operation and a packet and waits for a buffer. Neither is sent, so the four are all:
memoria never goes back to its listener, and the kernel gets no integer for it (`SinInt`).

**ConexionesProofs.** That nobody is served as another follows from who got past which
handshake, through a chain of processes: the kernel reaches memoria after a CPU answered it,
the CPU answers after memoria accepted it. `IInv` keeps that chain: `Sockets` (a stopped
process has no socket, whoever was answered was accepted), `PuertosDeLaCpu` (the CPU's place
in `main` says how many clients each port has had), `TrasLaCpu` and `Primero` (in memoria's
first life nobody is ahead of the CPU in its queue), `CpusEnOrden` (the starts of the CPU
come to memoria in order, so all but the last are dead), `KernelConectado` and `UnKernel`
(who is on the interrupt port is the one accepted on dispatch). From it `QuienEsQuien` and
`UnSoloKernel`, for any number of restarts. `UnSoloRechazo` (`SoloInterruptRechaza`) is about
a system started in order with nobody stopped: `Arranque` says that nobody has ended but a
refused kernel, that who is started after another found its port open, and that nothing is
queued on the CPU's second port before the kernel has been answered on the first. So the only
connection that can be refused, whatever the interleaving of the four `main`s, is that one.

Only model-checked: the liveness properties, for fairness and ENABLED are out of the
prover's reach: `ArranqueLlega`, `SyscallAtendida`, `TodoLlega`, `ArrancaOSeCorta` and
`CaenTodos`. `FinDelDuenio`, `TodaSyscallLlega`, `ListoSeDespacha` and `DumpRespondido` are
false, and their runs show it. No theorem rests on a RECURSIVE operator: what the modules
compute over lists they do with folds or recursive functions, and where a claim about every
prefix is needed the proof takes the least prefix where it would fail, since the library's
rules of induction cannot be instantiated.

## 6. Where the code and its comments disagree

With a run that exhibits it:

| Run | Divergence |
|---|---|
| `KernelFinDuenio` | a thread that ends with waited-for mutexes makes the kernel use a tid as a pointer (`k_conexiones.c:462`) |
| `CpuExit` | four system calls are not decoded and are fetched for ever (`ciclo_de_instruccion.c:82`) |
| `KernelReady` | the short-term planner does not go round while there are TCBs in `lista_ready`, as the comment of `planificadores.c:20` says: it serves the first thread only (theorem `Despacho`). It waits for `TCBaPlanificar`, which is posted before the call of the planner by the listener that makes that call and never comes back (`kernel_escucha_memoria.c:61-62`) |
| `Dump` | no dump is answered, with OK or with an error, as the comments of memoria say (`escuchar_kernel.c:324`, 364-365): memoria waits in a `recv` (367) for what the file system does not send, for its answers are commented out (`escuchar_memoria.c:49`, 60), and the packet of the dump goes out empty (`escuchar_kernel.c:360`), so the file system waits for the rest of it (theorem `NingunDumpTermina`) |

Met while modelling, present in the models' actions, without a run of their own.

Kernel:

* THREAD_JOIN stores the caller's tid as the blocker (`kernel_escucha_cpu_dispatch.c:105`,
  against 89).
* THREAD_CANCEL ends its caller (`kernel_escucha_cpu_dispatch.c:120`, against 116).
* MUTEX_UNLOCK does not return its caller to READY (224).
* THREAD_CREATE increments the tid counter twice (60, 62): tids are 0, 1, 3, 5.
* `kernel_escucha_memoria.c:73` is never reached.

Kernel and memoria:

* memoria does not answer FINALIZAR_PROCESO and FINALIZAR_HILO, and the kernel waits for it
  (`k_conexiones.c:422`, 493; with `MemoriaResponde = {FALSE}` the dispatch listener never
  returns). That every system call ends is therefore not stated; `MemoriaResponde` is
  `{TRUE, FALSE}` in the runs of `Kernel`, and `{FALSE}` in `Sistema`.
* FINALIZAR_HILO names thread (pid, pid) (`serializar.c:700`, against 697).
* A request that does not fit gets no answer with DINAMICAS (`escuchar_kernel.c:88`, where
  `kernel_escucha_memoria.c:39` expects one), and an exact fit is taken and reported as
  refused (92).
* A refusal in fixed partitions dereferences NULL (`escuchar_kernel.c:73`).
* The kernel dials the CPU's first port with the address of memoria (`k_conexiones.c:83`);
  all addresses are the same in the configuration files.

CPU:

* The cycle's `recv` of a READ_MEM competes with the listener (`c_conexiones.c:169`).
* JNZ writes through the value of the PC (`ciclo_de_instruccion.c:159`).
* The MMU adds the last address of a partition, called `limite`, to its base
  (`c_conexiones.c:266`, `m_conexiones.h:32`).
* The second port opens after the first has been answered (`c_conexiones.c:86`); a kernel
  that gets there before is refused and ends (`SoloInterruptRechaza`).
* `case INTERRUPCION` of the interrupt listener falls through to the exit
  (`escuchar_kernel_interrupt.c:13-18`).

## 7. What is not modelled

* The scan of PRIORIDADES (`planificadores.c:47-68`): `kernel.config` selects FIFO, and the
  planner would scan once, before its one dispatch, with one thread in READY.
* Interruptions (op code INTERRUPCION): the kernel never sends one, and `check_interrupt`
  has nothing to do.
* DUMP_MEMORY in `Sistema`: the CPU does not decode it, so the closed system never gets to
  it. `Kernel` models its effect on the kernel, `Dump` the rest.
* What a serialiser that writes past its block overwrites, and `send`s that are cut short,
  in `Paquetes`.
* What the kernel and the CPU of `Sistema` do with a socket whose peer, memoria, has died:
  `Conexiones` has it, with no requests under way.
* Reading the configuration files, logs, and the text of the files of instructions.

## 8. Plan

Done: every module of section 2; the interleaving of memoria's two threads on
`lista_contextos` became `ContextosSinCarrera` of `Sistema`, and the packet with an
arbitrary offset part of `Paquetes`.

What could follow:

1. An abstract `Reserva` (who holds how much memory), refined by `Memoria` with fixed
   partitions, and its proof from `IFijas`.
2. Once the planner dispatches more than once: the scan of PRIORIDADES, interruptions, and
   `Sistema` with larger scripts.
