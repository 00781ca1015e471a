-------------------------- MODULE FileSystemProofs --------------------------
(***************************************************************************)
(* Proofs about FileSystem, for every block size, block count and set of   *)
(* dumps.  The one idea they rest on is Prefijo: the bits set are always   *)
(* the first ones, so the bits the scan reserves are in a row and are the  *)
(* blocks escribir_contenido_bloques writes.                               *)
(***************************************************************************)
EXTENDS FileSystem, FiniteSetTheorems, TLAPS

\* The number of bits of bitmap.dat.
NBits == 8 * ((BlockCount + 7) \div 8)

LEMMA NBitsNat == NBits \in Nat /\ Bits = 0 .. NBits - 1
BY ConfiguracionFS DEF NBits, Bits

LEMMA BloquesNat == \A t \in Tamanios : BloquesNecesarios(t) \in Nat
BY ConfiguracionFS DEF BloquesNecesarios

\* What the scan of reservar_bloques sets, when no set bit follows a free one: the
\* bits from primero to u, which come right after those already set.
LEMMA Reserva ==
  ASSUME bitmap \subseteq Bits, Prefijo,
         NEW n \in Nat, NEW u \in Bits, NEW primero \in Bits,
         ReservarBloques(n, u, primero)
  PROVE  /\ Marcados(u) = primero .. u
         /\ bitmap = 0 .. primero - 1
         /\ n = u - primero + 1
         /\ primero <= u
<1>0. /\ NBits \in Nat /\ Bits = 0 .. NBits - 1
      /\ u \in Int /\ primero \in Int
  BY NBitsNat
<1>1. /\ primero \in Libres /\ primero <= u
      /\ \A b \in Libres : b <= u => primero <= b
      /\ u \notin bitmap /\ primero \notin bitmap
  BY DEF ReservarBloques, Marcados, Libres
<1>2. \A b \in bitmap : b < primero
  <2>1. SUFFICES ASSUME NEW b \in bitmap, ~(b < primero) PROVE FALSE
    OBVIOUS
  <2>2. b \in Int /\ primero \in 0 .. b
    BY <1>0, <2>1
  <2>3. QED BY <2>2, <1>1 DEF Prefijo
<1>3. \A b \in 0 .. primero - 1 : b \in bitmap
  BY <1>0, <1>1 DEF Libres
<1>4. bitmap = 0 .. primero - 1
  <2>1. \A b \in bitmap : b \in 0 .. primero - 1
    BY <1>0, <1>2
  <2>2. QED BY <2>1, <1>3
<1>5. Marcados(u) = primero .. u
  BY <1>0, <1>1, <1>4 DEF Marcados, Libres
<1>6. Cardinality(primero .. u) = u - primero + 1
  BY <1>0, <1>1, FS_Interval
<1>7. QED BY <1>1, <1>4, <1>5, <1>6 DEF ReservarBloques

-----------------------------------------------------------------------------
(* Where the dumps are *)

\* TypeOK without the contents of bloques.dat, and what ties the dumps to the bitmap.
IInv ==
  /\ bitmap \subseteq Bits
  /\ archivos \in Seq(Archivo)
  /\ Prefijo
  /\ ArchivosReservados
  /\ ArchivosDisjuntos

\* One dump more.
LEMMA CrearArchivoIInv ==
  ASSUME IInv, NEW t \in Tamanios, CrearArchivo(t) PROVE IInv'
<1> DEFINE n == BloquesNecesarios(t)
<1>0. n \in Nat /\ NBits \in Nat /\ Bits = 0 .. NBits - 1 /\ t \in Nat
  BY NBitsNat, BloquesNat, ConfiguracionFS
<1>1. PICK u \in Bits, primero \in Bits :
        /\ ReservarBloques(n, u, primero)
        /\ bitmap' = bitmap \cup Marcados(u)
        /\ archivos' = Append(archivos, [tamanio |-> t, primero |-> primero, n |-> n])
  BY DEF CrearArchivo
<1> DEFINE a == [tamanio |-> t, primero |-> primero, n |-> n]
<1>2. /\ Marcados(u) = primero .. u
      /\ bitmap = 0 .. primero - 1
      /\ n = u - primero + 1
      /\ primero <= u
  BY <1>0, <1>1, Reserva DEF IInv
<1>3. a \in Archivo /\ Extension(a) = primero .. u
  BY <1>0, <1>2 DEF Archivo, Extension
<1>4. bitmap' = 0 .. u
  BY <1>0, <1>1, <1>2
<1>5. /\ DOMAIN archivos = 1 .. Len(archivos) /\ Len(archivos) \in Nat
      /\ DOMAIN archivos' = 1 .. Len(archivos) + 1
      /\ \A i \in DOMAIN archivos : archivos'[i] = archivos[i]
      /\ archivos'[Len(archivos) + 1] = a
      /\ archivos' \in Seq(Archivo)
  BY <1>1, <1>3 DEF IInv
<1> HIDE DEF a
<1>6. \A i \in DOMAIN archivos :
        /\ Extension(archivos'[i]) \subseteq bitmap
        /\ Extension(archivos'[i]) \cap Extension(a) = {}
  BY <1>0, <1>2, <1>3, <1>5 DEF IInv, ArchivosReservados
<1>7. ArchivosReservados'
  BY <1>0, <1>1, <1>2, <1>3, <1>5, <1>6 DEF ArchivosReservados
<1>8. ArchivosDisjuntos'
  <2>1. \A i, j \in DOMAIN archivos : i # j =>
          Extension(archivos'[i]) \cap Extension(archivos'[j]) = {}
    BY <1>5 DEF IInv, ArchivosDisjuntos
  <2>2. \A i \in DOMAIN archivos :
          Extension(archivos'[i]) \cap Extension(archivos'[Len(archivos) + 1]) = {}
    BY <1>5, <1>6
  <2>3. \A i, j \in 1 .. Len(archivos) + 1 : i # j =>
          Extension(archivos'[i]) \cap Extension(archivos'[j]) = {}
    <3>1. \A i \in 1 .. Len(archivos) + 1 :
            i \in DOMAIN archivos \/ i = Len(archivos) + 1
      BY <1>5
    <3>2. QED BY <2>1, <2>2, <3>1
  <2>4. (\A i, j \in DOMAIN archivos : i # j =>
           Extension(archivos[i]) \cap Extension(archivos[j]) = {})'
    BY <2>3, <1>5 DEF Extension
  <2>5. QED BY <2>4 DEF ArchivosDisjuntos
<1>9. bitmap' \subseteq Bits /\ Prefijo'
  BY <1>0, <1>4 DEF Prefijo
<1>10. QED BY <1>5, <1>7, <1>8, <1>9 DEF IInv

\* Bits set and no dump: the bits are those of a dump that was never written.
LEMMA CaerReservandoIInv ==
  ASSUME IInv, NEW t \in Tamanios, CaerReservando(t) PROVE IInv'
<1> DEFINE n == BloquesNecesarios(t)
<1>0. n \in Nat /\ NBits \in Nat /\ Bits = 0 .. NBits - 1
  BY NBitsNat, BloquesNat
<1>1. PICK u \in Bits, primero \in Bits :
        ReservarBloques(n, u, primero) /\ bitmap' = bitmap \cup Marcados(u)
  BY DEF CaerReservando
<1>2. Marcados(u) = primero .. u /\ bitmap = 0 .. primero - 1 /\ primero <= u
  BY <1>0, <1>1, Reserva DEF IInv
<1>3. bitmap' = 0 .. u /\ bitmap \subseteq bitmap'
  BY <1>0, <1>1, <1>2
<1>4. bitmap' \subseteq Bits /\ Prefijo'
  BY <1>0, <1>3 DEF Prefijo
<1>5. archivos' = archivos
  BY DEF CaerReservando
<1>6. ArchivosReservados' /\ ArchivosDisjuntos'
  BY <1>3, <1>5 DEF IInv, ArchivosReservados, ArchivosDisjuntos
<1>7. QED BY <1>4, <1>5, <1>6 DEF IInv

LEMMA InitIInv == Init => IInv
<1> SUFFICES ASSUME Init PROVE IInv
  OBVIOUS
<1>1. archivos \in Seq(Archivo) /\ DOMAIN archivos = {}
  BY DEF Init
<1>2. QED
  BY <1>1 DEF Init, IInv, Prefijo, ArchivosReservados, ArchivosDisjuntos

LEMMA NextIInv == IInv /\ [Next]_vars => IInv'
<1> SUFFICES ASSUME IInv, [Next]_vars PROVE IInv'
  OBVIOUS
<1>1. CASE \E t \in Tamanios : CrearArchivo(t)
  BY <1>1, CrearArchivoIInv
<1>2. CASE \E t \in Tamanios : CaerReservando(t)
  BY <1>2, CaerReservandoIInv
<1>3. CASE \E t \in Tamanios : CrearArchivoVacio(t)
  <2>1. bitmap' = Bits /\ archivos' = archivos
    BY <1>3 DEF CrearArchivoVacio
  <2>2. Prefijo'
    BY <2>1, NBitsNat DEF Prefijo
  <2>3. QED
    BY <2>1, <2>2 DEF IInv, ArchivosReservados, ArchivosDisjuntos
<1>4. CASE Arrancar
  <2>1. bitmap' = {} /\ archivos' = << >>
    BY <1>4 DEF Arrancar
  <2>2. archivos' \in Seq(Archivo) /\ DOMAIN archivos' = {}
    BY <2>1
  <2>3. QED
    BY <2>1, <2>2 DEF IInv, Prefijo, ArchivosReservados, ArchivosDisjuntos
<1>5. CASE UNCHANGED vars
  BY <1>5 DEF vars, IInv, Prefijo, ArchivosReservados, ArchivosDisjuntos
<1>6. CASE \E t \in Tamanios : Rechazar(t)
  BY <1>5, <1>6 DEF Rechazar
<1>7. QED BY <1>1, <1>2, <1>3, <1>4, <1>5, <1>6 DEF Next

LEMMA SpecIInv == Spec => []IInv
BY InitIInv, NextIInv, PTL DEF Spec

\* No hole ever appears in the bitmap.
THEOREM SinHuecos == Spec => []Prefijo
<1>1. IInv => Prefijo
  BY DEF IInv
<1>2. QED BY <1>1, SpecIInv, PTL

\* Every dump lies in blocks that were reserved.
THEOREM DumpsReservados == Spec => []ArchivosReservados
<1>1. IInv => ArchivosReservados
  BY DEF IInv
<1>2. QED BY <1>1, SpecIInv, PTL

\* No two dumps share a block.
THEOREM DumpsDisjuntos == Spec => []ArchivosDisjuntos
<1>1. IInv => ArchivosDisjuntos
  BY DEF IInv
<1>2. QED BY <1>1, SpecIInv, PTL

-----------------------------------------------------------------------------
(* Types *)

LEMMA BytesTipo ==
  ASSUME NEW a, a.tamanio \in Nat, a.primero \in Int, NEW b \in Bits
  PROVE  BytesDelBloque(a, b) \in Int
<1>1. b \in Int /\ BlockSize \in Int
  BY NBitsNat, ConfiguracionFS
<1>2. (b - a.primero) * BlockSize \in Int
  BY <1>1
<1>3. QED BY <1>1, <1>2 DEF BytesDelBloque

\* The two files and the history of dumps keep their types.
THEOREM Tipos == Spec => []TypeOK
<1>1. Init => TypeOK
  BY DEF Init, TypeOK, Vacio
<1>2. TypeOK /\ IInv /\ IInv' /\ [Next]_vars => TypeOK'
  <2> SUFFICES ASSUME TypeOK, IInv, IInv', [Next]_vars PROVE TypeOK'
    OBVIOUS
  <2>1. bitmap' \subseteq Bits /\ archivos' \in Seq(Archivo)
    BY DEF IInv
  <2>2. viva' \in BOOLEAN
    BY DEF TypeOK, Next, vars, CrearArchivo, CaerReservando, CrearArchivoVacio,
           Rechazar, Arrancar
  <2>3. ASSUME NEW t \in Tamanios, CrearArchivo(t)
        PROVE  bloques' \in [Bits -> [archivo : Nat, bytes : Int]]
    <3>1. PICK a, id : /\ bloques' = EscribirContenidoBloques(a, id)
                       /\ a.tamanio \in Nat /\ a.primero \in Int /\ id \in Nat
      <4>1. PICK u \in Bits, primero \in Bits :
              LET a == [tamanio |-> t, primero |-> primero, n |-> BloquesNecesarios(t)]
              IN /\ archivos' = Append(archivos, a)
                 /\ bloques' = EscribirContenidoBloques(a, Len(archivos'))
        BY <2>3 DEF CrearArchivo
      <4>2. t \in Nat /\ primero \in Int /\ Len(archivos') \in Nat
        BY <2>1, ConfiguracionFS, NBitsNat
      <4>3. QED BY <4>1, <4>2
    <3>2. \A b \in Bits : BytesDelBloque(a, b) \in Int
      BY <3>1, BytesTipo
    <3>3. QED BY <3>1, <3>2 DEF EscribirContenidoBloques, TypeOK
  <2>4. bloques' \in [Bits -> [archivo : Nat, bytes : Int]]
    <3>1. CASE \E t \in Tamanios : CrearArchivo(t)
      BY <3>1, <2>3
    <3>2. CASE ~ \E t \in Tamanios : CrearArchivo(t)
      <4>1. bloques' = bloques \/ bloques' = [b \in Bits |-> Vacio]
        BY <3>2 DEF Next, vars, CaerReservando, CrearArchivoVacio, Rechazar, Arrancar
      <4>2. QED BY <4>1 DEF TypeOK, Vacio
    <3>3. QED BY <3>1, <3>2
  <2>5. QED BY <2>1, <2>2, <2>4 DEF TypeOK
<1>3. QED BY <1>1, <1>2, SpecIInv, PTL DEF Spec

-----------------------------------------------------------------------------
(* FileSystem implements AsignadorBloques *)

\* The sum of BloquesNecesarios fits in 32 bits, as it does for any dump of a memory
\* smaller than 2^32 - BLOCK_SIZE.
SinDesborde == \A t \in Tamanios : t + BlockSize - 1 < Modulo

\* n blocks are enough for t bytes, and n - 1 are not.
LEMMA Techo ==
  ASSUME NEW t \in Nat, NEW b \in Nat \ {0}, NEW n \in Nat, n = (t + b - 1) \div b
  PROVE  t <= n * b /\ (n - 1) * b < t
<1>1. n * b <= t + b - 1 /\ t + b - 1 < (n + 1) * b
  OBVIOUS
<1>2. (n + 1) * b = n * b + b /\ (n - 1) * b = n * b - b
  OBVIOUS
<1>3. n * b \in Int
  OBVIOUS
<1>4. QED BY <1>1, <1>2, <1>3

asignados == [i \in DOMAIN archivos |-> Extension(archivos[i])]
tamanios  == [i \in DOMAIN archivos |-> archivos[i].tamanio]

LEMMA CrearArchivoAsigna ==
  ASSUME SinDesborde, IInv, NEW t \in Tamanios, CrearArchivo(t)
  PROVE  Asignador!Asignar
<1> DEFINE n == BloquesNecesarios(t)
<1>0. n \in Nat /\ NBits \in Nat /\ Bits = 0 .. NBits - 1 /\ t \in Nat
  BY NBitsNat, BloquesNat, ConfiguracionFS
<1>1. PICK u \in Bits, primero \in Bits :
        /\ ReservarBloques(n, u, primero)
        /\ archivos' = Append(archivos, [tamanio |-> t, primero |-> primero, n |-> n])
  BY DEF CrearArchivo
<1> DEFINE a == [tamanio |-> t, primero |-> primero, n |-> n]
           S == primero .. u
<1>2. bitmap = 0 .. primero - 1 /\ n = u - primero + 1 /\ primero <= u
  BY <1>0, <1>1, Reserva DEF IInv
<1>3. Extension(a) = S /\ a.tamanio = t
  BY <1>0, <1>2 DEF Extension
<1>4. S \in SUBSET (Bits \ UNION {asignados[i] : i \in DOMAIN asignados})
  <2>1. \A i \in DOMAIN archivos : Extension(archivos[i]) \subseteq bitmap
    BY DEF IInv, ArchivosReservados
  <2>2. \A i \in DOMAIN asignados : asignados[i] \subseteq bitmap
    BY <2>1 DEF asignados
  <2>3. S \subseteq Bits /\ S \cap bitmap = {}
    BY <1>0, <1>2
  <2>4. QED BY <2>2, <2>3
<1>5. Cardinality(S) = n /\ n > 0
  BY <1>0, <1>2, FS_Interval
<1>6. n = (t + BlockSize - 1) \div BlockSize
  BY <1>0, ConfiguracionFS DEF SinDesborde, BloquesNecesarios
<1>7. t <= n * BlockSize /\ (n - 1) * BlockSize < t
  BY <1>0, <1>6, Techo, ConfiguracionFS
<1>8. t # 0
  <2>1. (n - 1) * BlockSize >= 0
    BY <1>0, <1>5, ConfiguracionFS
  <2>2. QED BY <2>1, <1>0, <1>7, ConfiguracionFS
<1>9. /\ archivos \in Seq(Archivo)
      /\ DOMAIN archivos = 1 .. Len(archivos) /\ Len(archivos) \in Nat
      /\ DOMAIN archivos' = 1 .. Len(archivos) + 1
      /\ \A i \in DOMAIN archivos : archivos'[i] = archivos[i]
      /\ archivos'[Len(archivos) + 1] = a
  BY <1>1 DEF IInv
<1> HIDE DEF a, S, n
<1>10. /\ Len(asignados) = Len(archivos) /\ Len(tamanios) = Len(archivos)
       /\ Append(asignados, S) =
            [i \in 1 .. Len(archivos) + 1 |->
               IF i = Len(archivos) + 1 THEN S ELSE Extension(archivos[i])]
       /\ Append(tamanios, t) =
            [i \in 1 .. Len(archivos) + 1 |->
               IF i = Len(archivos) + 1 THEN t ELSE archivos[i].tamanio]
  BY <1>9 DEF asignados, tamanios
<1>11. asignados' = Append(asignados, S)
  BY <1>3, <1>9, <1>10 DEF asignados, Extension
<1>12. tamanios' = Append(tamanios, t)
  BY <1>3, <1>9, <1>10 DEF tamanios
<1>13. Asignador!Alcanza(S, t)
  <2>1. Asignador!Cardinality(S) = Cardinality(S)
    BY DEF Asignador!Cardinality, Cardinality
  <2>2. QED BY <2>1, <1>5, <1>7 DEF Asignador!Alcanza
<1>14. QED
  BY <1>4, <1>8, <1>11, <1>12, <1>13
  DEF Asignador!Asignar, Asignador!Ocupados, asignados, tamanios

\* Every step of the file system is a step of AsignadorBloques, or none.
LEMMA PasoAsigna ==
  ASSUME SinDesborde, IInv, [Next]_vars
  PROVE  [Asignador!Asignar \/ Asignador!Reiniciar]_<<asignados, tamanios>>
<1>1. CASE \E t \in Tamanios : CrearArchivo(t)
  BY <1>1, CrearArchivoAsigna
<1>2. CASE Arrancar
  <2>1. archivos' = << >>
    BY <1>2 DEF Arrancar
  <2>2. QED BY <2>1 DEF Asignador!Reiniciar, asignados, tamanios
<1>3. CASE UNCHANGED archivos
  BY <1>3 DEF asignados, tamanios
<1>4. QED
  BY <1>1, <1>2, <1>3 DEF Next, vars, CaerReservando, CrearArchivoVacio, Rechazar

\* crear_archivo keeps the promise of the allocator, for every configuration.
THEOREM Implementacion ==
  ASSUME SinDesborde PROVE Spec => ImplementaAsignador
<1>1. Init => Asignador!Init
  BY DEF Init, Asignador!Init
<1>2. IInv /\ [Next]_vars => [Asignador!Asignar \/ Asignador!Reiniciar]_<<asignados, tamanios>>
  BY PasoAsigna
<1>3. QED
  BY <1>1, <1>2, SpecIInv, PTL
  DEF Spec, ImplementaAsignador, Asignador!Spec, asignados, tamanios

-----------------------------------------------------------------------------
(* What the dumps hold *)

\* A dump more: where it lies, and that the ones before it stay where they are.
LEMMA CrearArchivoForma ==
  ASSUME IInv, NEW t \in Tamanios, CrearArchivo(t)
  PROVE  \E a \in Archivo :
           /\ a.tamanio = t /\ a.n = BloquesNecesarios(t)
           /\ Extension(a) \cap bitmap = {} /\ Extension(a) # {}
           /\ bitmap # Bits /\ bitmap' = bitmap \cup Extension(a)
           /\ Extension(a) = a.primero .. a.primero + a.n - 1
           /\ DOMAIN archivos = 1 .. Len(archivos) /\ Len(archivos) \in Nat
           /\ DOMAIN archivos' = 1 .. Len(archivos) + 1
           /\ \A i \in DOMAIN archivos : archivos'[i] = archivos[i]
           /\ archivos'[Len(archivos) + 1] = a
           /\ bloques' = EscribirContenidoBloques(a, Len(archivos) + 1)
<1> DEFINE n == BloquesNecesarios(t)
<1>0. n \in Nat /\ NBits \in Nat /\ Bits = 0 .. NBits - 1 /\ t \in Nat
  BY NBitsNat, BloquesNat, ConfiguracionFS
<1>1. PICK u \in Bits, primero \in Bits :
        /\ ReservarBloques(n, u, primero)
        /\ bitmap' = bitmap \cup Marcados(u)
        /\ archivos' = Append(archivos, [tamanio |-> t, primero |-> primero, n |-> n])
        /\ bloques' = EscribirContenidoBloques([tamanio |-> t, primero |-> primero, n |-> n],
                                               Len(archivos'))
  BY DEF CrearArchivo
<1> DEFINE a == [tamanio |-> t, primero |-> primero, n |-> n]
<1>2. /\ Marcados(u) = primero .. u /\ bitmap = 0 .. primero - 1
      /\ n = u - primero + 1 /\ primero <= u
  BY <1>0, <1>1, Reserva DEF IInv
<1>3. a \in Archivo /\ a.tamanio = t /\ a.n = n /\ a.primero = primero
  BY <1>0, <1>2 DEF Archivo
<1>4. Extension(a) = primero .. u
  BY <1>0, <1>2, <1>3 DEF Extension
<1>5. Extension(a) \cap bitmap = {} /\ Extension(a) # {} /\ bitmap # Bits
  <2>1. u \in Bits /\ u \in Extension(a) /\ u \notin bitmap
    BY <1>0, <1>2, <1>4
  <2>2. Extension(a) \cap bitmap = {}
    BY <1>0, <1>2, <1>4
  <2> QED BY <2>1, <2>2
<1>6. bitmap' = bitmap \cup Extension(a)
  BY <1>1, <1>2, <1>4
<1>7. /\ DOMAIN archivos = 1 .. Len(archivos) /\ Len(archivos) \in Nat
      /\ DOMAIN archivos' = 1 .. Len(archivos) + 1 /\ Len(archivos') = Len(archivos) + 1
      /\ \A i \in DOMAIN archivos : archivos'[i] = archivos[i]
      /\ archivos'[Len(archivos) + 1] = a
  BY <1>1, <1>3 DEF IInv
<1>8. bloques' = EscribirContenidoBloques(a, Len(archivos) + 1)
  BY <1>1, <1>7
<1>9. Extension(a) = a.primero .. a.primero + a.n - 1
  BY DEF Extension
<1> HIDE DEF a
<1> QED BY <1>3, <1>5, <1>6, <1>7, <1>8, <1>9

\* No bit is lost: each of those set belongs to a dump, until a dump of size 0 or the
\* end of the process.
THEOREM BitsConDuenio == Spec => []SinBloquesPerdidos
<1> DEFINE Suyos == UNION {Extension(archivos[i]) : i \in DOMAIN archivos}
<1>1. Init => SinBloquesPerdidos
  <2> SUFFICES ASSUME Init PROVE bitmap = Suyos
    BY DEF SinBloquesPerdidos
  <2> QED BY DEF Init
<1>2. SinBloquesPerdidos /\ IInv /\ [Next]_vars => SinBloquesPerdidos'
  <2> SUFFICES ASSUME SinBloquesPerdidos, IInv, [Next]_vars PROVE SinBloquesPerdidos'
    OBVIOUS
  <2>1. ASSUME NEW t \in Tamanios, CrearArchivo(t) PROVE SinBloquesPerdidos'
    <3>1. PICK a \in Archivo :
            /\ bitmap # Bits /\ bitmap' = bitmap \cup Extension(a)
            /\ DOMAIN archivos = 1 .. Len(archivos) /\ Len(archivos) \in Nat
            /\ DOMAIN archivos' = 1 .. Len(archivos) + 1
            /\ \A i \in DOMAIN archivos : archivos'[i] = archivos[i]
            /\ archivos'[Len(archivos) + 1] = a
      BY <2>1, CrearArchivoForma
    <3>2. bitmap = Suyos
      BY <2>1, <3>1 DEF SinBloquesPerdidos, CrearArchivo
    <3>3. \A i \in DOMAIN archivos' : i \in DOMAIN archivos \/ i = Len(archivos) + 1
      BY <3>1
    <3>4. DOMAIN archivos \subseteq DOMAIN archivos' /\ Len(archivos) + 1 \in DOMAIN archivos'
      BY <3>1
    <3>5. UNION {Extension(archivos'[i]) : i \in DOMAIN archivos'} = Suyos \cup Extension(a)
      BY <3>1, <3>3, <3>4
    <3>6. bitmap' = UNION {Extension(archivos'[i]) : i \in DOMAIN archivos'}
      BY <3>1, <3>2, <3>5
    <3>7. (bitmap = Suyos)'
      BY <3>6 DEF Extension
    <3> QED BY <3>7 DEF SinBloquesPerdidos
  <2>2. ASSUME NEW t \in Tamanios, CaerReservando(t) PROVE SinBloquesPerdidos'
    BY <2>2 DEF CaerReservando, SinBloquesPerdidos
  <2>3. ASSUME NEW t \in Tamanios, CrearArchivoVacio(t) PROVE SinBloquesPerdidos'
    BY <2>3 DEF CrearArchivoVacio, SinBloquesPerdidos
  <2>4. CASE Arrancar
    <3>1. bitmap' = {} /\ archivos' = << >>
      BY <2>4 DEF Arrancar
    <3>2. (bitmap = Suyos)'
      BY <3>1
    <3> QED BY <3>2 DEF SinBloquesPerdidos
  <2>5. CASE UNCHANGED vars
    BY <2>5 DEF vars, SinBloquesPerdidos, Extension
  <2>6. ASSUME NEW t \in Tamanios, Rechazar(t) PROVE SinBloquesPerdidos'
    BY <2>5, <2>6 DEF Rechazar
  <2> QED BY <2>1, <2>2, <2>3, <2>4, <2>5, <2>6 DEF Next
<1> QED BY <1>1, <1>2, SpecIInv, PTL DEF Spec

\* Whole blocks, and in the last one the rest.
LEMMA BytesEscritos ==
  ASSUME SinDesborde, NEW a \in Archivo, a.tamanio \in Tamanios,
         a.n = BloquesNecesarios(a.tamanio), NEW b \in Extension(a)
  PROVE  BytesDelBloque(a, b) =
           IF b = a.primero + a.n - 1 THEN a.tamanio - (a.n - 1) * BlockSize ELSE BlockSize
<1>0. /\ a.tamanio \in Nat /\ a.n \in Nat /\ a.n # 0 /\ a.primero \in Int
      /\ BlockSize \in Nat \ {0} /\ b \in Int /\ a.primero <= b /\ b <= a.primero + a.n - 1
  BY ConfiguracionFS, NBitsNat DEF Archivo, Extension
<1> DEFINE k == b - a.primero
           r == a.tamanio - k * BlockSize
<1>1. a.n = (a.tamanio + BlockSize - 1) \div BlockSize
  BY <1>0, ConfiguracionFS DEF SinDesborde, BloquesNecesarios
<1>2. a.tamanio <= a.n * BlockSize /\ (a.n - 1) * BlockSize < a.tamanio
  BY <1>0, <1>1, Techo
<1>3. CASE b = a.primero + a.n - 1
  <2>1. k = a.n - 1
    BY <1>0, <1>3
  <2>2. (a.n - 1) * BlockSize = a.n * BlockSize - BlockSize /\ a.n * BlockSize \in Int
    BY <1>0
  <2>3. a.tamanio - (a.n - 1) * BlockSize <= BlockSize
    BY <1>0, <1>2, <2>2
  <2>4. a.tamanio - (a.n - 1) * BlockSize \in Int
    BY <1>0, <2>2
  <2>5. BytesDelBloque(a, b) = a.tamanio - (a.n - 1) * BlockSize
    <3>1. r = a.tamanio - (a.n - 1) * BlockSize
      BY <2>1
    <3>2. ~(r > BlockSize)
      BY <1>0, <2>3, <2>4, <3>1
    <3> QED BY <3>1, <3>2 DEF BytesDelBloque
  <2> QED BY <1>3, <2>5
<1>4. CASE b # a.primero + a.n - 1
  <2>1. k \in Int /\ k + 2 <= a.n
    BY <1>0, <1>4
  <2>2. (k + 1) * BlockSize <= (a.n - 1) * BlockSize
    <3>1. \E d \in Nat : a.n - 1 = k + 1 + d
      <4>1. a.n - k - 2 \in Nat /\ a.n - 1 = k + 1 + (a.n - k - 2)
        BY <1>0, <2>1
      <4> QED BY <4>1
    <3>2. PICK d \in Nat : a.n - 1 = k + 1 + d
      BY <3>1
    <3>3. (k + 1 + d) * BlockSize = (k + 1) * BlockSize + d * BlockSize
      BY <1>0, <2>1
    <3>4. d * BlockSize \in Nat /\ (k + 1) * BlockSize \in Int
      BY <1>0, <2>1
    <3> QED BY <3>2, <3>3, <3>4
  <2>3. (k + 1) * BlockSize = k * BlockSize + BlockSize /\ k * BlockSize \in Int
    BY <1>0, <2>1
  <2>4. (a.n - 1) * BlockSize \in Int
    BY <1>0
  <2>5. k * BlockSize + BlockSize < a.tamanio
    <3> HIDE DEF k
    <3> QED BY <1>0, <1>2, <2>2, <2>3, <2>4
  <2>6. r > BlockSize
    BY <1>0, <2>3, <2>5
  <2> QED BY <1>4, <2>6 DEF BytesDelBloque
<1> QED BY <1>3, <1>4

\* A dump stays as it was written, for every configuration in which the number of its
\* blocks is computed without overflow.
THEOREM Intactos == ASSUME SinDesborde PROVE Spec => []ContenidoIntacto
<1>1. Init => ContenidoIntacto
  BY DEF Init, ContenidoIntacto
<1>2. ContenidoIntacto /\ IInv /\ [Next]_vars => ContenidoIntacto'
  <2> SUFFICES ASSUME ContenidoIntacto, IInv, [Next]_vars PROVE ContenidoIntacto'
    OBVIOUS
  <2>1. ASSUME NEW t \in Tamanios, CrearArchivo(t) PROVE ContenidoIntacto'
    <3>1. PICK a \in Archivo :
            /\ a.tamanio = t /\ a.n = BloquesNecesarios(t)
            /\ Extension(a) \cap bitmap = {} /\ bitmap' = bitmap \cup Extension(a)
            /\ DOMAIN archivos = 1 .. Len(archivos) /\ Len(archivos) \in Nat
            /\ DOMAIN archivos' = 1 .. Len(archivos) + 1
            /\ \A i \in DOMAIN archivos : archivos'[i] = archivos[i]
            /\ archivos'[Len(archivos) + 1] = a
            /\ bloques' = EscribirContenidoBloques(a, Len(archivos) + 1)
      BY <2>1, CrearArchivoForma
    <3>2. bitmap' \subseteq Bits
      BY <2>1, CrearArchivoIInv DEF IInv
    <3> SUFFICES ASSUME NEW i \in DOMAIN archivos', NEW b \in Extension(archivos'[i])
                 PROVE  /\ bloques'[b].archivo = i
                        /\ bloques'[b].bytes =
                             IF b = archivos'[i].primero + archivos'[i].n - 1
                             THEN archivos'[i].tamanio - (archivos'[i].n - 1) * BlockSize
                             ELSE BlockSize
      BY DEF ContenidoIntacto, Extension
    <3>3. CASE i = Len(archivos) + 1
      <4>1. b \in Extension(a) /\ b \in Bits
        BY <3>1, <3>2, <3>3
      <4>2. bloques'[b] = [archivo |-> Len(archivos) + 1, bytes |-> BytesDelBloque(a, b)]
        BY <3>1, <4>1 DEF EscribirContenidoBloques
      <4>3. BytesDelBloque(a, b) =
              IF b = a.primero + a.n - 1 THEN a.tamanio - (a.n - 1) * BlockSize ELSE BlockSize
        BY <3>1, <4>1, BytesEscritos
      <4> QED BY <3>1, <3>3, <4>2, <4>3
    <3>4. CASE i \in DOMAIN archivos
      <4>1. archivos'[i] = archivos[i] /\ b \in Extension(archivos[i])
        BY <3>1, <3>4
      <4>2. b \in bitmap /\ b \in Bits
        BY <3>4, <4>1 DEF IInv, ArchivosReservados
      <4>3. bloques'[b] = bloques[b]
        BY <3>1, <4>2 DEF EscribirContenidoBloques
      <4> QED BY <3>4, <4>1, <4>3 DEF ContenidoIntacto
    <3> QED BY <3>1, <3>3, <3>4
  <2>2. CASE Arrancar
    <3>1. archivos' = << >>
      BY <2>2 DEF Arrancar
    <3> QED BY <3>1 DEF ContenidoIntacto
  <2>3. CASE UNCHANGED <<archivos, bloques>>
    BY <2>3 DEF ContenidoIntacto, Extension
  <2> QED
    BY <2>1, <2>2, <2>3 DEF Next, vars, CaerReservando, CrearArchivoVacio, Rechazar
<1> QED BY <1>1, <1>2, SpecIInv, PTL DEF Spec
=============================================================================
