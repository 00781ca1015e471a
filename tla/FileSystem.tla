----------------------------- MODULE FileSystem -----------------------------
(***************************************************************************)
(* The file system process (src/filesystem/src): bitmap.dat, bloques.dat   *)
(* and crear_archivo, the handler of DUMP_MEMORY.  One thread runs it, so  *)
(* a whole handler is one step.  Files are never deleted, and no metadata  *)
(* of them is written (the call in filesystem.c:17 is commented out): what *)
(* was created is in the history variable archivos.                        *)
(***************************************************************************)
EXTENDS Integers, Sequences, FiniteSets

CONSTANTS
  BlockSize,     \* BLOCK_SIZE of filesystem.config
  BlockCount,    \* BLOCK_COUNT
  Modulo,        \* 2^32 in the code: the range of a uint32_t
  Tamanios       \* the sizes of the dumps tried

ASSUME ConfiguracionFS ==
  /\ BlockSize \in Nat \ {0} /\ BlockCount \in Nat \ {0}
  /\ Modulo \in Nat \ {0}
  /\ Tamanios \subseteq 0 .. Modulo - 1

VARIABLES
  bitmap,        \* the bits of bitmap.dat that are set
  bloques,       \* bloques.dat: for each block, the file and bytes last written
  archivos,      \* sequence of [tamanio, primero, n]: the dumps written
  viva           \* FALSE once the process has crashed

vars == <<bitmap, bloques, archivos, viva>>

\* bitmap.dat has whole bytes, and every bit of it counts as a block.
Bits == 0 .. 8 * ((BlockCount + 7) \div 8) - 1

Vacio == [archivo |-> 0, bytes |-> 0]

\* Both files are truncated and written again at every start.
Init ==
  /\ bitmap = {}
  /\ bloques = [b \in Bits |-> Vacio]
  /\ archivos = << >>
  /\ viva = TRUE

-----------------------------------------------------------------------------
(* crear_archivo *)

\* The addition is done in 32 bits.
BloquesNecesarios(tamanio) == ((tamanio + BlockSize - 1) % Modulo) \div BlockSize

Libres == Bits \ bitmap

EspacioDisponible(n) == Cardinality(Libres) >= n

\* The scan with its inner loop from 1: the first bit of each byte is skipped.
Marcados_DesdeUno(u) == {b \in Libres : b <= u /\ b % 8 # 0}

\* The free bits the scan of reservar_bloques has set when it gets to bit u.
Marcados(u) == {b \in Libres : b <= u}

\* primer_bloque written again at every bit: the last one is returned.
ReservarBloques_Ultimo(n, u, primero) ==
  u \in Libres /\ Cardinality(Marcados(u)) = n /\ primero = u

\* It stops when n bits are set, and primer_bloque is the first of them.
ReservarBloques(n, u, primero) ==
  /\ u \in Libres /\ Cardinality(Marcados(u)) = n
  /\ primero \in Marcados(u) /\ \A b \in Marcados(u) : primero <= b

Extension(a) == a.primero .. a.primero + a.n - 1

\* A whole block every time.
BytesDelBloque_Entero(a, b) == BlockSize

BytesDelBloque(a, b) ==
  LET restante == a.tamanio - (b - a.primero) * BlockSize
  IN IF restante > BlockSize THEN BlockSize ELSE restante

\* n blocks in a row from the first one, whatever bits were reserved.
EscribirContenidoBloques(a, id) ==
  [b \in Bits |-> IF b \in Extension(a)
                  THEN [archivo |-> id, bytes |-> BytesDelBloque(a, b)]
                  ELSE bloques[b]]

CrearArchivo(tamanio) ==
  LET n == BloquesNecesarios(tamanio)
  IN /\ viva /\ n > 0 /\ EspacioDisponible(n)
     /\ \E u, primero \in Bits :
          /\ ReservarBloques(n, u, primero)
          /\ bitmap' = bitmap \cup Marcados(u)
          /\ LET a == [tamanio |-> tamanio, primero |-> primero, n |-> n]
             IN /\ archivos' = Append(archivos, a)
                /\ bloques' = EscribirContenidoBloques(a, Len(archivos'))
     /\ UNCHANGED viva

\* The count of free blocks for the log line reads bitmap.dat through a FILE that
\* fclose has freed: the process may die there, bits set and nothing written.
CaerReservando(tamanio) ==
  LET n == BloquesNecesarios(tamanio)
  IN /\ viva /\ n > 0 /\ EspacioDisponible(n)
     /\ \E u, primero \in Bits :
          /\ ReservarBloques(n, u, primero)
          /\ bitmap' = bitmap \cup Marcados(u)
     /\ viva' = FALSE
     /\ UNCHANGED <<bloques, archivos>>

\* With no block to reserve the count never equals the number wanted: the scan sets
\* every bit and returns -1, and nothing is written.
CrearArchivoVacio(tamanio) ==
  /\ viva /\ BloquesNecesarios(tamanio) = 0
  /\ bitmap' = Bits
  /\ UNCHANGED <<bloques, archivos, viva>>

\* No space: logged, and that is all; memoria is told nothing.
Rechazar(tamanio) ==
  /\ viva /\ ~EspacioDisponible(BloquesNecesarios(tamanio))
  /\ UNCHANGED vars

\* bitmap.dat opened with "rb+": the bits of the last life stay.
Arrancar_SinTruncar ==
  /\ ~viva
  /\ bloques' = [b \in Bits |-> Vacio]
  /\ archivos' = << >>
  /\ viva' = TRUE
  /\ UNCHANGED bitmap

\* The process is started again.
Arrancar ==
  /\ ~viva
  /\ bitmap' = {}
  /\ bloques' = [b \in Bits |-> Vacio]
  /\ archivos' = << >>
  /\ viva' = TRUE

Next ==
  \/ \E t \in Tamanios :
       CrearArchivo(t) \/ CaerReservando(t) \/ CrearArchivoVacio(t) \/ Rechazar(t)
  \/ Arrancar

Spec == Init /\ [][Next]_vars

-----------------------------------------------------------------------------
(* Properties *)

Archivo == [tamanio : Nat, primero : Bits, n : Nat \ {0}]

\* Type correctness of the two files and of the history of dumps.
TypeOK ==
  /\ bitmap \subseteq Bits
  /\ bloques \in [Bits -> [archivo : Nat, bytes : Int]]
  /\ archivos \in Seq(Archivo)
  /\ viva \in BOOLEAN

\* reservar_bloques takes whatever bits are free and escribir_contenido_bloques
\* writes blocks in a row (escuchar_memoria.c:115, 164).  They agree because the bits
\* set are always the first ones: there is never a hole to reserve.
Prefijo == \A b \in bitmap : 0 .. b \subseteq bitmap

\* So every dump lies in bits that are set, inside the bitmap ...
ArchivosReservados ==
  \A i \in DOMAIN archivos : Extension(archivos[i]) \subseteq bitmap

\* ... and no two dumps share a block.
ArchivosDisjuntos ==
  \A i, j \in DOMAIN archivos :
    i # j => Extension(archivos[i]) \cap Extension(archivos[j]) = {}

\* A dump stays as it was written, whatever is dumped later: each of its blocks holds
\* its bytes, the last block the rest of them (escuchar_memoria.c:154-164).
ContenidoIntacto ==
  \A i \in DOMAIN archivos : \A b \in Extension(archivos[i]) :
    /\ bloques[b].archivo = i
    /\ bloques[b].bytes =
         IF b = archivos[i].primero + archivos[i].n - 1
         THEN archivos[i].tamanio - (archivos[i].n - 1) * BlockSize
         ELSE BlockSize

\* No bit is lost: those set are the blocks of the dumps, unless a dump of size 0 has
\* set them all (escuchar_memoria.c:126).
SinBloquesPerdidos ==
  viva => \/ bitmap = UNION {Extension(archivos[i]) : i \in DOMAIN archivos}
          \/ bitmap = Bits

\* crear_archivo keeps the promise of AsignadorBloques: the blocks a dump is written
\* to, counted from the first one reserved, are free ones, and just enough.
Asignador == INSTANCE AsignadorBloques WITH
  Bloques   <- Bits,
  asignados <- [i \in DOMAIN archivos |-> Extension(archivos[i])],
  tamanios  <- [i \in DOMAIN archivos |-> archivos[i].tamanio]

ImplementaAsignador == Asignador!Spec
=============================================================================
