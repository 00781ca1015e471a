--------------------------- MODULE MemoriaProofs ---------------------------
(***************************************************************************)
(* Proofs about Memoria, for every configuration, every set of pids and    *)
(* tids and every size.  For both schemes: type correctness, that a        *)
(* process's partition is left alone by the requests of the others, and    *)
(* that a division keeps partitions apart.  For ESQUEMA=FIJAS: a process   *)
(* holds one partition and its threads' contexts point to it.  For         *)
(* ESQUEMA=DINAMICAS: the sizes of the list add up to the memory.          *)
(***************************************************************************)
EXTENDS Memoria, SequenceTheorems, WellFoundedInduction, TLAPS

-----------------------------------------------------------------------------
(* Lemmas about the helpers *)

\* What removing one element of a list leaves.
LEMMA RemoveAtProps ==
  ASSUME NEW S, NEW s \in Seq(S), NEW i \in DOMAIN s
  PROVE  /\ RemoveAt(s, i) \in Seq(S)
         /\ \A k \in DOMAIN RemoveAt(s, i) : \E j \in DOMAIN s : RemoveAt(s, i)[k] = s[j]
<1> DEFINE a == SubSeq(s, 1, i - 1)
           b == SubSeq(s, i + 1, Len(s))
<1>0. i \in 1 .. Len(s) /\ Len(s) \in Nat
  OBVIOUS
<1>1. /\ a \in Seq(S) /\ Len(a) = i - 1
      /\ \A k \in 1 .. i - 1 : a[k] = s[k]
  BY <1>0
<1>2. /\ b \in Seq(S) /\ Len(b) = Len(s) - i
      /\ \A k \in 1 .. Len(s) - i : b[k] = s[i + k]
  BY <1>0
<1> HIDE DEF a, b
<1>3. RemoveAt(s, i) = a \o b
  BY DEF RemoveAt, a, b
<1>4. a \o b \in Seq(S) /\ Len(a \o b) = Len(s) - 1
  BY <1>0, <1>1, <1>2
<1>5. \A k \in 1 .. Len(s) - 1 : \E j \in 1 .. Len(s) : (a \o b)[k] = s[j]
  <2> SUFFICES ASSUME NEW k \in 1 .. Len(s) - 1
               PROVE  \E j \in 1 .. Len(s) : (a \o b)[k] = s[j]
    OBVIOUS
  <2>1. CASE k <= i - 1
    <3>1. (a \o b)[k] = a[k] /\ a[k] = s[k] /\ k \in 1 .. Len(s)
      BY <2>1, <1>0, <1>1, <1>2
    <3>2. QED BY <3>1
  <2>2. CASE ~(k <= i - 1)
    <3>1. (a \o b)[k] = b[k - (i - 1)] /\ k - (i - 1) \in 1 .. Len(s) - i
      BY SMTT(30), <2>2, <1>0, <1>1, <1>2
    <3>2. b[k - (i - 1)] = s[k + 1]
      BY SMTT(30), <3>1, <1>0, <1>2
    <3>3. k + 1 \in 1 .. Len(s)
      BY <1>0
    <3>4. QED BY <3>1, <3>2, <3>3
  <2>3. QED BY <2>1, <2>2
<1>6. DOMAIN (a \o b) = 1 .. Len(s) - 1 /\ DOMAIN s = 1 .. Len(s)
  BY <1>4
<1>7. QED BY <1>3, <1>4, <1>5, <1>6

LEMMA LimiteTipo ==
  ASSUME NEW b \in Int, NEW t \in Int PROVE Limite(b, t) \in 0 .. Modulo - 1
BY ConfiguracionValida DEF Limite

LEMMA ModTipo == ASSUME NEW b \in Int PROVE b % Modulo \in 0 .. Modulo - 1
BY ConfiguracionValida

\* The fixed partitions are laid out inside the memory.
LEMMA InicioTipo ==
  ASSUME Esquema = "FIJAS"
  PROVE  Inicio \in [1 .. NFijas -> 0 .. TamMemoria] /\ Disposicion(Inicio)
BY ParticionesEntran DEF Inicio

LEMMA InicialesTipo == ParticionesIniciales \subseteq Seq(Particion)
<1> SUFFICES ASSUME NEW l \in ParticionesIniciales PROVE l \in Seq(Particion)
  OBVIOUS
<1>0. /\ Modulo \in Nat /\ TamMemoria \in Nat /\ TamMemoria <= Modulo - 1
      /\ NFijas \in Nat /\ PidBasura \subseteq Nat
      /\ \A i \in 1 .. NFijas : ParticionesFijas[i] \in Nat
  BY ConfiguracionValida, PidsValidos DEF NFijas
<1>1. CASE Esquema = "FIJAS"
  <2>1. PICK basura \in [1 .. NFijas -> PidBasura] :
          l = [i \in 1 .. NFijas |->
                 [base    |-> Inicio[i],
                  limite  |-> Limite(Inicio[i], ParticionesFijas[i]),
                  tamanio |-> ParticionesFijas[i],
                  libre   |-> TRUE,
                  pid     |-> basura[i]]]
    BY <1>1 DEF ParticionesIniciales
  <2>2. \A i \in 1 .. NFijas : /\ Inicio[i] \in 0 .. TamMemoria
                               /\ ParticionesFijas[i] \in Nat
                               /\ basura[i] \in Nat
    BY <1>0, <1>1, InicioTipo
  <2>3. \A i \in 1 .. NFijas : l[i] \in Particion
    <3> SUFFICES ASSUME NEW i \in 1 .. NFijas PROVE l[i] \in Particion
      OBVIOUS
    <3>1. Limite(Inicio[i], ParticionesFijas[i]) \in 0 .. Modulo - 1
      <4>1. Inicio[i] \in Int /\ ParticionesFijas[i] \in Int
        BY <1>0, <2>2
      <4>2. QED BY ONLY <4>1, LimiteTipo
    <3>2. Inicio[i] \in 0 .. Modulo - 1
      BY <1>0, <2>2
    <3>3. QED BY <2>1, <2>2, <3>1, <3>2 DEF Particion
  <2>4. QED BY <1>0, <2>1, <2>3
<1>2. CASE Esquema # "FIJAS"
  <2>1. PICK b \in PidBasura :
          l = << [base |-> 0, limite |-> Limite(0, TamMemoria), tamanio |-> TamMemoria,
                  libre |-> TRUE, pid |-> b] >>
    BY <1>2 DEF ParticionesIniciales
  <2>2. Limite(0, TamMemoria) \in 0 .. Modulo - 1 /\ 0 \in 0 .. Modulo - 1
    <3>1. 0 \in Int /\ TamMemoria \in Int
      BY <1>0
    <3>2. Limite(0, TamMemoria) \in 0 .. Modulo - 1
      BY ONLY <3>1, LimiteTipo
    <3>3. QED BY <1>0, <3>2
  <2>3. QED BY <1>0, <2>1, <2>2 DEF Particion
<1>3. QED BY <1>1, <1>2

\* The fields of a partition, and their updates.
LEMMA Campos ==
  ASSUME NEW r \in Particion
  PROVE  /\ r.tamanio \in Nat /\ r.libre \in BOOLEAN /\ r.pid \in Nat
         /\ r.base \in Int /\ r.limite \in Int
         /\ \A t \in Nat : [r EXCEPT !.tamanio = t] \in Particion
         /\ \A f \in BOOLEAN, p \in Nat : [r EXCEPT !.libre = f, !.pid = p] \in Particion
         /\ \A t \in Nat, m \in 0 .. Modulo - 1 :
              [r EXCEPT !.tamanio = t, !.limite = m] \in Particion
<1>1. Modulo \in Int
  BY ConfiguracionValida
<1>2. \A t \in Nat : [r EXCEPT !.tamanio = t] \in Particion
  BY DEF Particion
<1>3. \A f \in BOOLEAN, p \in Nat : [r EXCEPT !.libre = f, !.pid = p] \in Particion
  BY DEF Particion
<1>4. \A t \in Nat, m \in 0 .. Modulo - 1 :
        [r EXCEPT !.tamanio = t, !.limite = m] \in Particion
  BY DEF Particion
<1>5. /\ r.tamanio \in Nat /\ r.libre \in BOOLEAN /\ r.pid \in Nat
      /\ r.base \in 0 .. Modulo - 1 /\ r.limite \in 0 .. Modulo - 1
  BY DEF Particion
<1>6. r.base \in Int /\ r.limite \in Int
  BY <1>1, <1>5
<1>7. QED BY ONLY <1>2, <1>3, <1>4, <1>5, <1>6

LEMMA Reemplazo ==
  ASSUME NEW S, NEW l \in Seq(S), NEW i \in DOMAIN l, NEW r \in S
  PROVE  /\ [l EXCEPT ![i] = r] \in Seq(S)
         /\ Len([l EXCEPT ![i] = r]) = Len(l)
OBVIOUS

\* The partition lists that the handlers build.
\* m is l, but for the flag and the pid of its i-th partition.
CambiaSolo(l, m, i, f, q) ==
  /\ DOMAIN m = DOMAIN l
  /\ \A j \in DOMAIN l : j # i => m[j] = l[j]
  /\ m[i].libre = f /\ m[i].pid = q
  /\ m[i].base = l[i].base /\ m[i].limite = l[i].limite /\ m[i].tamanio = l[i].tamanio

LEMMA OcuparTipo ==
  ASSUME lista_particiones \in Seq(Particion), NEW i \in DOMAIN lista_particiones,
         NEW p \in Nat
  PROVE  /\ Ocupar(i, p) \in Seq(Particion)
         /\ CambiaSolo(lista_particiones, Ocupar(i, p), i, FALSE, p)
<1> DEFINE q == lista_particiones[i]
           r == [q EXCEPT !.libre = FALSE, !.pid = p]
<1>1. Ocupar(i, p) = [lista_particiones EXCEPT ![i] = r]
  BY DEF Ocupar
<1>2. q \in Particion
  OBVIOUS
<1> HIDE DEF q
<1>3. r \in Particion
  BY <1>2, Campos
<1>4. /\ r.libre = FALSE /\ r.pid = p /\ r.base = q.base
      /\ r.limite = q.limite /\ r.tamanio = q.tamanio
  BY <1>2 DEF Particion
<1> HIDE DEF r
<1>5. Ocupar(i, p) \in Seq(Particion)
  BY <1>1, <1>3, Reemplazo
<1>6. QED BY <1>1, <1>4, <1>5 DEF q, CambiaSolo

LEMMA LiberarTipo ==
  ASSUME lista_particiones \in Seq(Particion), NEW i \in DOMAIN lista_particiones
  PROVE  /\ Liberar(i) \in Seq(Particion)
         /\ CambiaSolo(lista_particiones, Liberar(i), i, TRUE, 0)
<1> DEFINE q == lista_particiones[i]
           r == [q EXCEPT !.libre = TRUE, !.pid = 0]
<1>1. Liberar(i) = [lista_particiones EXCEPT ![i] = r]
  BY DEF Liberar
<1>2. q \in Particion
  OBVIOUS
<1> HIDE DEF q
<1>3. r \in Particion
  BY <1>2, Campos
<1>4. /\ r.libre = TRUE /\ r.pid = 0 /\ r.base = q.base
      /\ r.limite = q.limite /\ r.tamanio = q.tamanio
  BY <1>2 DEF Particion
<1> HIDE DEF r
<1>5. Liberar(i) \in Seq(Particion)
  BY <1>1, <1>3, Reemplazo
<1>6. QED BY <1>1, <1>4, <1>5 DEF q, CambiaSolo

LEMMA DividirTipo ==
  ASSUME NEW l \in Seq(Particion), NEW i \in DOMAIN l, NEW tam \in Nat,
         l[i].tamanio >= tam
  PROVE  DividirParticion(l, i, tam) \in Seq(Particion)
<1> DEFINE resto == l[i].tamanio - tam
           corte == l[i].base + tam
           chica == [l[i] EXCEPT !.tamanio = tam, !.limite = Limite(l[i].base, tam)]
           nueva == [base |-> corte % Modulo, limite |-> Limite(corte, resto),
                     tamanio |-> resto, libre |-> TRUE, pid |-> 0]
<1>1. l[i] \in Particion /\ l[i].base \in Int /\ l[i].tamanio \in Nat
  <2>1. l[i] \in Particion
    OBVIOUS
  <2>2. QED BY <2>1, Campos
<1>2. resto \in Nat /\ resto \in Int /\ corte \in Int /\ tam \in Int
  BY <1>1
<1>3. /\ Limite(l[i].base, tam) \in 0 .. Modulo - 1
      /\ Limite(corte, resto) \in 0 .. Modulo - 1
      /\ corte % Modulo \in 0 .. Modulo - 1
  <2> HIDE DEF corte, resto
  <2>1. QED BY ONLY <1>1, <1>2, LimiteTipo, ModTipo
<1>4. chica \in Particion /\ nueva \in Particion
  <2> HIDE DEF corte, resto
  <2>1. chica \in Particion
    BY <1>1, <1>3, Campos
  <2>2. nueva \in Particion
    BY <1>2, <1>3 DEF Particion
  <2>3. QED BY <2>1, <2>2
<1>5. DividirParticion(l, i, tam) = Append([l EXCEPT ![i] = chica], nueva)
  BY DEF DividirParticion
<1> HIDE DEF chica, nueva
<1>6. QED BY <1>4, <1>5

LEMMA ConsolidarTipo ==
  ASSUME NEW l \in Seq(Particion), NEW i \in DOMAIN l
  PROVE  ConsolidarParticionesLibres(l, i) \in Seq(Particion)
<1> DEFINE c == IF i < Len(l) /\ l[i + 1].libre
                THEN RemoveAt([l EXCEPT ![i].tamanio = @ + l[i + 1].tamanio], i + 1)
                ELSE l
<1>0. i \in 1 .. Len(l) /\ Len(l) \in Nat
  OBVIOUS
<1>1. c \in Seq(Particion) /\ (Len(c) >= i)
  <2>1. CASE ~(i < Len(l) /\ l[i + 1].libre)
    BY <1>0, <2>1
  <2>2. CASE i < Len(l) /\ l[i + 1].libre
    <3> DEFINE m == [l EXCEPT ![i].tamanio = @ + l[i + 1].tamanio]
    <3>1. l[i] \in Particion /\ l[i + 1] \in Particion
      BY <1>0, <2>2
    <3>2. [l[i] EXCEPT !.tamanio = @ + l[i + 1].tamanio] \in Particion
      <4>1. l[i].tamanio + l[i + 1].tamanio \in Nat
        <5>1. l[i].tamanio \in Nat /\ l[i + 1].tamanio \in Nat
          BY ONLY <3>1, Campos
        <5>2. QED BY ONLY <5>1
      <4>2. QED BY <3>1, <4>1, Campos
    <3>3. m \in Seq(Particion) /\ Len(m) = Len(l) /\ i + 1 \in DOMAIN m
      <4>1. m = [l EXCEPT ![i] = [l[i] EXCEPT !.tamanio = @ + l[i + 1].tamanio]]
        OBVIOUS
      <4>2. m \in Seq(Particion) /\ Len(m) = Len(l)
        BY <3>2, <4>1, Reemplazo
      <4>3. QED BY <1>0, <2>2, <4>2
    <3> HIDE DEF m
    <3>4. RemoveAt(m, i + 1) \in Seq(Particion)
      BY <3>3, RemoveAtProps
    <3>5. Len(RemoveAt(m, i + 1)) = Len(l) - 1
      BY SMTT(30), <1>0, <3>3 DEF RemoveAt
    <3>6. QED BY <1>0, <2>2, <3>4, <3>5 DEF m
  <2>3. QED BY <2>1, <2>2
<1> HIDE DEF c
<1>2. CASE ~(i > 1 /\ c[i - 1].libre)
  BY <1>1, <1>2 DEF ConsolidarParticionesLibres, c
<1>3. CASE i > 1 /\ c[i - 1].libre
  <2> DEFINE m == [c EXCEPT ![i - 1].tamanio = @ + c[i].tamanio]
  <2>1. c[i - 1] \in Particion /\ c[i] \in Particion
    BY <1>0, <1>1, <1>3
  <2>2. [c[i - 1] EXCEPT !.tamanio = @ + c[i].tamanio] \in Particion
    <3>1. c[i - 1].tamanio + c[i].tamanio \in Nat
      <4>1. c[i - 1].tamanio \in Nat /\ c[i].tamanio \in Nat
        BY ONLY <2>1, Campos
      <4>2. QED BY ONLY SMTT(30), <4>1
    <3>2. QED BY <2>1, <3>1, Campos
  <2>3. m \in Seq(Particion) /\ i \in DOMAIN m
    <3>1. m = [c EXCEPT ![i - 1] = [c[i - 1] EXCEPT !.tamanio = @ + c[i].tamanio]]
      OBVIOUS
    <3>2. i - 1 \in DOMAIN c
      BY <1>0, <1>1, <1>3
    <3>3. m \in Seq(Particion) /\ Len(m) = Len(c)
      BY <1>1, <2>2, <3>1, <3>2, Reemplazo
    <3>4. QED BY <1>0, <1>1, <3>3
  <2> HIDE DEF m
  <2>4. RemoveAt(m, i) \in Seq(Particion)
    BY <2>3, RemoveAtProps
  <2>5. QED BY <1>3, <2>4 DEF ConsolidarParticionesLibres, c, m
<1>4. QED BY <1>2, <1>3

-----------------------------------------------------------------------------
(* Type correctness, for FIJAS and DINAMICAS *)

PcbTipo == [Pids -> [estado : {"NEW", "READY", "EXIT"}, tam : Tamanios]]

LEMMA EstadoTipo ==
  ASSUME pcb \in PcbTipo, NEW p \in Pids, NEW e \in {"READY", "EXIT"}
  PROVE  [pcb EXCEPT ![p].estado = e] \in PcbTipo
BY DEF PcbTipo

LEMMA CrearProcesoTipo ==
  ASSUME TypeOK, NEW p \in Nat, NEW tam \in Tamanios, CrearProceso(p, tam)
  PROVE  TypeOK'
<1>0. /\ lista_particiones \in Seq(Particion) /\ lista_contextos \in Seq(Contexto)
      /\ viva \in BOOLEAN /\ espera \in BOOLEAN /\ pcb \in PcbTipo
      /\ hilos \in [Pids \X Tids -> {"NO", "VIVO", "FIN"}]
      /\ tam \in Nat
  BY PidsValidos DEF TypeOK, PcbTipo
<1>1. lista_contextos' = lista_contextos /\ hilos' = hilos
  BY DEF CrearProceso
<1>2. \A bit : Responder(p, bit) => pcb' \in PcbTipo
  BY <1>0, EstadoTipo DEF Responder
<1>3. CASE AsignarParticionesFijas(p, tam)
  <2>1. PICK i \in DOMAIN lista_particiones : lista_particiones' = Ocupar(i, p)
    BY <1>3 DEF AsignarParticionesFijas
  <2>2. lista_particiones' \in Seq(Particion)
    BY <1>0, <2>1, OcuparTipo
  <2>3. viva' = viva /\ espera' = espera /\ pcb' \in PcbTipo
    BY <1>2, <1>3 DEF AsignarParticionesFijas
  <2>4. QED BY <1>0, <1>1, <2>2, <2>3 DEF TypeOK, PcbTipo
<1>4. CASE AsignarFijasSinLugar(tam)
  BY <1>0, <1>1, <1>4 DEF AsignarFijasSinLugar, TypeOK, PcbTipo
<1>5. CASE AsignarParticionesDinamicas(p, tam)
  <2>1. PICK i \in DOMAIN lista_particiones :
          /\ EvaluarParticion(tam, i)
          /\ \/ /\ lista_particiones[i].tamanio > tam
                /\ lista_particiones' = DividirParticion(Ocupar(i, p), i, tam)
                /\ Responder(p, 1)
             \/ /\ lista_particiones' = Ocupar(i, p)
                /\ Responder(p, -1)
    BY <1>5 DEF AsignarParticionesDinamicas
  <2>2. Ocupar(i, p) \in Seq(Particion)
    BY <1>0, OcuparTipo
  <2>3. lista_particiones' \in Seq(Particion)
    <3>1. CASE lista_particiones' = Ocupar(i, p)
      BY <2>2, <3>1
    <3>2. CASE /\ lista_particiones[i].tamanio > tam
               /\ lista_particiones' = DividirParticion(Ocupar(i, p), i, tam)
      <4>1. i \in DOMAIN Ocupar(i, p) /\ Ocupar(i, p)[i].tamanio > tam
        BY <1>0, <3>2, OcuparTipo DEF CambiaSolo
      <4>2. Ocupar(i, p)[i].tamanio \in Nat
        <5>1. Ocupar(i, p)[i] \in Particion
          BY <2>2, <4>1
        <5>2. QED BY ONLY <5>1, Campos
      <4>3. Ocupar(i, p)[i].tamanio >= tam
        BY <1>0, <4>1, <4>2
      <4>4. QED BY <1>0, <2>2, <3>2, <4>1, <4>3, DividirTipo
    <3>3. QED BY <2>1, <3>1, <3>2
  <2>4. viva' = viva /\ espera' = espera /\ pcb' \in PcbTipo
    BY <1>2, <1>5, <2>1 DEF AsignarParticionesDinamicas
  <2>5. QED BY <1>0, <1>1, <2>3, <2>4 DEF TypeOK, PcbTipo
<1>6. CASE AsignarDinamicasSinLugar(tam)
  BY <1>0, <1>1, <1>6 DEF AsignarDinamicasSinLugar, TypeOK, PcbTipo
<1>7. QED BY <1>3, <1>4, <1>5, <1>6 DEF CrearProceso

LEMMA FinalizarProcesoTipo ==
  ASSUME TypeOK, NEW p \in Pids, FinalizarProceso(p) PROVE TypeOK'
<1>0. lista_particiones \in Seq(Particion) /\ pcb \in PcbTipo
  BY DEF TypeOK, PcbTipo
<1>1. pcb' \in PcbTipo
  BY <1>0, EstadoTipo DEF FinalizarProceso
<1>2. lista_particiones' \in Seq(Particion)
  <2>1. CASE \E i \in DOMAIN lista_particiones :
               lista_particiones' = IF Esquema = "DINAMICAS"
                                    THEN ConsolidarParticionesLibres(Liberar(i), i)
                                    ELSE Liberar(i)
    <3>1. PICK i \in DOMAIN lista_particiones :
            \/ lista_particiones' = ConsolidarParticionesLibres(Liberar(i), i)
            \/ lista_particiones' = Liberar(i)
      BY <2>1
    <3>2. Liberar(i) \in Seq(Particion) /\ i \in DOMAIN Liberar(i)
      BY <1>0, LiberarTipo DEF Liberar
    <3>3. QED BY <3>1, <3>2, ConsolidarTipo
  <2>2. CASE lista_particiones' = lista_particiones
    BY <1>0, <2>2
  <2>3. QED BY <2>1, <2>2 DEF FinalizarProceso
<1>3. UNCHANGED <<lista_contextos, viva, hilos, espera>>
  BY DEF FinalizarProceso
<1>4. QED BY <1>1, <1>2, <1>3 DEF TypeOK, PcbTipo

LEMMA CrearHiloTipo ==
  ASSUME TypeOK, NEW p \in Pids, NEW t \in Tids, CrearHilo(p, t) PROVE TypeOK'
<1>0. /\ lista_particiones \in Seq(Particion) /\ lista_contextos \in Seq(Contexto)
      /\ viva \in BOOLEAN
  BY DEF TypeOK
<1>1. hilos' \in [Pids \X Tids -> {"NO", "VIVO", "FIN"}]
  BY DEF TypeOK, CrearHilo
<1>2. lista_contextos' \in Seq(Contexto) /\ viva' \in BOOLEAN
  <2>1. CASE \E i \in DOMAIN lista_particiones :
               lista_contextos' = Append(lista_contextos,
                 [pid |-> p, tid |-> t,
                  base   |-> lista_particiones[i].base,
                  limite |-> lista_particiones[i].limite])
    <3>1. PICK i \in DOMAIN lista_particiones :
            lista_contextos' = Append(lista_contextos,
              [pid |-> p, tid |-> t,
               base   |-> lista_particiones[i].base,
               limite |-> lista_particiones[i].limite])
      BY <2>1
    <3>2. /\ lista_particiones[i].base \in 0 .. Modulo - 1
          /\ lista_particiones[i].limite \in 0 .. Modulo - 1
      <4>1. lista_particiones[i] \in Particion
        BY <1>0
      <4>2. QED BY <4>1 DEF Particion
    <3>3. [pid |-> p, tid |-> t, base |-> lista_particiones[i].base,
           limite |-> lista_particiones[i].limite] \in Contexto
      BY <3>2 DEF Contexto
    <3>4. lista_contextos' \in Seq(Contexto)
      BY <1>0, <3>1, <3>3
    <3>5. viva' \in BOOLEAN
      BY <1>0 DEF CrearHilo
    <3>6. QED BY <3>4, <3>5
  <2>2. CASE lista_contextos' = lista_contextos
    BY <1>0, <2>2 DEF CrearHilo
  <2>3. QED BY <2>1, <2>2 DEF CrearHilo
<1>3. UNCHANGED <<lista_particiones, pcb, espera>>
  BY DEF CrearHilo
<1>4. QED BY <1>1, <1>2, <1>3 DEF TypeOK

LEMMA FinalizarHiloTipo ==
  ASSUME TypeOK, NEW p \in Pids, NEW t \in Tids, FinalizarHilo(p, t) PROVE TypeOK'
<1>0. lista_contextos \in Seq(Contexto)
  BY DEF TypeOK
<1>1. hilos' \in [Pids \X Tids -> {"NO", "VIVO", "FIN"}]
  BY DEF TypeOK, FinalizarHilo
<1>2. lista_contextos' \in Seq(Contexto)
  BY <1>0, RemoveAtProps DEF FinalizarHilo
<1>3. UNCHANGED <<lista_particiones, viva, pcb, espera>>
  BY DEF FinalizarHilo
<1>4. QED BY <1>1, <1>2, <1>3 DEF TypeOK

LEMMA InitTipo == Init => TypeOK
<1> SUFFICES ASSUME Init PROVE TypeOK
  OBVIOUS
<1>1. lista_particiones \in Seq(Particion)
  BY InicialesTipo DEF Init
<1>2. lista_contextos \in Seq(Contexto)
  BY DEF Init
<1>3. pcb \in [Pids -> [estado : {"NEW", "READY", "EXIT"}, tam : Tamanios]]
  BY DEF Init
<1>4. QED BY <1>1, <1>2, <1>3 DEF Init, TypeOK

LEMMA NextTipo == TypeOK /\ [Next]_vars => TypeOK'
<1> SUFFICES ASSUME TypeOK, [Next]_vars PROVE TypeOK'
  OBVIOUS
<1>1. ASSUME NEW p \in Pids, PedirProceso(p) PROVE TypeOK'
  <2>1. p \in Nat /\ pcb[p].tam \in Tamanios /\ CrearProceso(p, pcb[p].tam)
    BY <1>1, PidsValidos DEF PedirProceso, TypeOK
  <2>2. QED BY <2>1, CrearProcesoTipo
<1>2. CASE PedirBasura
  <2>1. PICK g \in PidBasura, tam \in Tamanios : CrearProceso(g, tam)
    BY <1>2 DEF PedirBasura
  <2>2. QED BY <2>1, CrearProcesoTipo, PidsValidos
<1>3. ASSUME NEW p \in Pids, FinalizarProceso(p) PROVE TypeOK'
  BY <1>3, FinalizarProcesoTipo
<1>4. ASSUME NEW p \in Pids, NEW t \in Tids, CrearHilo(p, t) PROVE TypeOK'
  BY <1>4, CrearHiloTipo
<1>5. ASSUME NEW p \in Pids, NEW t \in Tids, FinalizarHilo(p, t) PROVE TypeOK'
  BY <1>5, FinalizarHiloTipo
<1>6. CASE UNCHANGED vars
  BY <1>6 DEF vars, TypeOK
<1>7. QED BY <1>1, <1>2, <1>3, <1>4, <1>5, <1>6 DEF Next

\* The lists keep their types under every message of the kernel, with either scheme.
THEOREM Tipos == Spec => []TypeOK
BY InitTipo, NextTipo, PTL DEF Spec

-----------------------------------------------------------------------------
(* ESQUEMA=FIJAS: one partition per process, and contexts that point to it *)

\* The configuration the theorems below are about.  The pid of a partition is read
\* before it has ever been written (escuchar_kernel.c:196, 220): nothing can be said
\* unless what malloc left there is not the pid of a process.
Fijas == Esquema = "FIJAS" /\ PidBasura \cap Pids = {}

\* A free partition is not found by the pid of a process: the look-ups by pid do not
\* look at the flag libre.
LibreSinProceso ==
  \A i \in DOMAIN lista_particiones :
    lista_particiones[i].libre => lista_particiones[i].pid \notin Pids

\* No thread is announced before its process is confirmed.
ContextoConProceso ==
  \A k \in DOMAIN lista_contextos : pcb[lista_contextos[k].pid].estado # "NEW"

\* The partitions are where configurar_particiones put them.
EnSuLugar ==
  /\ DOMAIN lista_particiones = 1 .. NFijas
  /\ \A i \in 1 .. NFijas :
       /\ lista_particiones[i].base = Inicio[i]
       /\ lista_particiones[i].limite = Limite(Inicio[i], ParticionesFijas[i])

IFijas ==
  /\ TypeOK
  /\ UnaParticionPorProceso
  /\ LibreSinProceso
  /\ ContextoConProceso
  /\ ContextoEnSuParticion
  /\ EnSuLugar

LEMMA InitIFijas == ASSUME Fijas PROVE Init => IFijas
<1> SUFFICES ASSUME Init PROVE IFijas
  OBVIOUS
<1>0. Esquema = "FIJAS" /\ PidBasura \cap Pids = {} /\ NFijas \in Nat
  BY ConfiguracionValida DEF Fijas, NFijas
<1>1. PICK basura \in [1 .. NFijas -> PidBasura] :
        lista_particiones = [i \in 1 .. NFijas |->
               [base    |-> Inicio[i],
                limite  |-> Limite(Inicio[i], ParticionesFijas[i]),
                tamanio |-> ParticionesFijas[i],
                libre   |-> TRUE,
                pid     |-> basura[i]]]
  BY <1>0 DEF Init, ParticionesIniciales
<1>2. \A i \in 1 .. NFijas : /\ lista_particiones[i].libre = TRUE
                             /\ lista_particiones[i].pid \in PidBasura
  BY <1>1
<1>3. EnSuLugar
  BY <1>1 DEF EnSuLugar
<1>4. LibreSinProceso
  BY <1>0, <1>2, <1>3 DEF LibreSinProceso, EnSuLugar
<1>5. UnaParticionPorProceso
  <2>1. \A p \in Pids : pcb[p].estado = "NEW"
    BY DEF Init
  <2>2. QED BY <1>2, <1>3, <2>1 DEF UnaParticionPorProceso, EsDe, EnSuLugar
<1>6. ContextoConProceso /\ ContextoEnSuParticion
  BY DEF Init, ContextoConProceso, ContextoEnSuParticion
<1>7. QED BY <1>3, <1>4, <1>5, <1>6, InitTipo DEF IFijas

LEMMA CrearProcesoFijas ==
  ASSUME Fijas, IFijas, NEW p \in Pids \cup PidBasura, NEW tam \in Tamanios,
         CrearProceso(p, tam),
         p \in Pids => pcb[p].estado = "NEW" /\ pcb[p].tam = tam
  PROVE  IFijas'
<1>0. /\ Esquema = "FIJAS" /\ p \in Nat
      /\ TypeOK /\ lista_particiones \in Seq(Particion) /\ pcb \in PcbTipo
      /\ lista_contextos \in Seq(Contexto)
  BY PidsValidos DEF Fijas, IFijas, TypeOK, PcbTipo
<1>1. TypeOK'
  BY <1>0, CrearProcesoTipo
<1>2. lista_contextos' = lista_contextos
  BY DEF CrearProceso
<1>3. CASE AsignarFijasSinLugar(tam)
  <2>1. lista_particiones' = lista_particiones /\ pcb' = pcb
    BY <1>3 DEF AsignarFijasSinLugar
  <2>2. QED
    BY <1>1, <1>2, <2>1
    DEF IFijas, UnaParticionPorProceso, LibreSinProceso, ContextoConProceso,
        ContextoEnSuParticion, EnSuLugar, EsDe
<1>4. CASE AsignarParticionesFijas(p, tam)
  <2>1. PICK i \in DOMAIN lista_particiones :
          /\ lista_particiones[i].libre /\ lista_particiones[i].tamanio >= tam
          /\ lista_particiones' = Ocupar(i, p)
    BY <1>4 DEF AsignarParticionesFijas, EvaluarParticion, Candidatas
  <2>2. /\ DOMAIN lista_particiones' = DOMAIN lista_particiones
        /\ \A j \in DOMAIN lista_particiones :
             j # i => lista_particiones'[j] = lista_particiones[j]
        /\ lista_particiones'[i].libre = FALSE /\ lista_particiones'[i].pid = p
        /\ lista_particiones'[i].base = lista_particiones[i].base
        /\ lista_particiones'[i].limite = lista_particiones[i].limite
        /\ lista_particiones'[i].tamanio = lista_particiones[i].tamanio
    <3>1. lista_particiones \in Seq(Particion) /\ p \in Nat
      BY <1>0
    <3>2. CambiaSolo(lista_particiones, lista_particiones', i, FALSE, p)
      BY ONLY <3>1, <2>1, OcuparTipo
    <3>3. QED BY <3>2 DEF CambiaSolo
  <2>3. \A q \in Pids : q # p => pcb'[q] = pcb[q]
    BY <1>0, <1>4 DEF AsignarParticionesFijas, Responder, PcbTipo
  <2>4. p \in Pids => pcb'[p].estado = "READY" /\ pcb'[p].tam = tam
    BY <1>0, <1>4 DEF AsignarParticionesFijas, Responder, PcbTipo
  <2>5. \A q \in Pids, j \in DOMAIN lista_particiones : q # p => (EsDe(j, q)' <=> EsDe(j, q))
    BY <2>1, <2>2 DEF EsDe
  <2>6. UnaParticionPorProceso'
    <3> SUFFICES ASSUME NEW q \in Pids
                 PROVE  (IF pcb[q].estado = "READY"
                         THEN \E k \in DOMAIN lista_particiones :
                                /\ EsDe(k, q)
                                /\ lista_particiones[k].tamanio >= pcb[q].tam
                                /\ \A j \in DOMAIN lista_particiones : EsDe(j, q) => j = k
                         ELSE \A k \in DOMAIN lista_particiones : ~EsDe(k, q))'
      BY DEF UnaParticionPorProceso
    <3>1. CASE q = p
      <4>1. EsDe(i, p)' /\ lista_particiones'[i].tamanio >= pcb'[p].tam
        BY <2>1, <2>2, <2>4, <3>1 DEF EsDe
      <4>2. \A j \in DOMAIN lista_particiones : ~EsDe(j, p)
        BY <3>1 DEF IFijas, UnaParticionPorProceso
      <4>3. \A j \in DOMAIN lista_particiones : EsDe(j, p)' => j = i
        BY <2>2, <4>2 DEF EsDe
      <4>4. QED BY <2>2, <2>4, <3>1, <4>1, <4>3
    <3>2. CASE q # p
      <4>1. IF pcb[q].estado = "READY"
            THEN \E k \in DOMAIN lista_particiones :
                   /\ EsDe(k, q)
                   /\ lista_particiones[k].tamanio >= pcb[q].tam
                   /\ \A j \in DOMAIN lista_particiones : EsDe(j, q) => j = k
            ELSE \A k \in DOMAIN lista_particiones : ~EsDe(k, q)
        BY DEF IFijas, UnaParticionPorProceso
      <4>2. \A k \in DOMAIN lista_particiones :
              lista_particiones'[k].tamanio = lista_particiones[k].tamanio
        BY <2>2
      <4>3. QED BY <2>2, <2>3, <2>5, <3>2, <4>1, <4>2
    <3>3. QED BY <3>1, <3>2
  <2>7. LibreSinProceso'
    BY <2>2 DEF IFijas, LibreSinProceso
  <2>8. EnSuLugar'
    BY <2>1, <2>2 DEF IFijas, EnSuLugar
  <2>9. \A k \in DOMAIN lista_contextos : lista_contextos[k].pid \in Pids
                                          /\ lista_contextos[k].pid # p
    <3>1. \A k \in DOMAIN lista_contextos : lista_contextos[k] \in Contexto
      BY <1>0
    <3>2. QED BY <3>1 DEF IFijas, ContextoConProceso, Contexto
  <2>10. ContextoConProceso'
    BY <1>2, <2>3, <2>9 DEF IFijas, ContextoConProceso
  <2>11. ContextoEnSuParticion'
    <3> SUFFICES ASSUME NEW k \in DOMAIN lista_contextos,
                        pcb'[lista_contextos[k].pid].estado = "READY"
                 PROVE  \E j \in DOMAIN lista_particiones :
                          /\ EsDe(j, lista_contextos[k].pid)'
                          /\ lista_contextos[k].base = lista_particiones'[j].base
                          /\ lista_contextos[k].limite = lista_particiones'[j].limite
      BY <1>2, <2>2 DEF ContextoEnSuParticion, EsDe
    <3>1. pcb[lista_contextos[k].pid].estado = "READY"
      BY <2>3, <2>9
    <3>2. PICK j \in DOMAIN lista_particiones :
            /\ EsDe(j, lista_contextos[k].pid)
            /\ lista_contextos[k].base = lista_particiones[j].base
            /\ lista_contextos[k].limite = lista_particiones[j].limite
      BY <3>1 DEF IFijas, ContextoEnSuParticion
    <3>3. /\ lista_particiones'[j].base = lista_particiones[j].base
          /\ lista_particiones'[j].limite = lista_particiones[j].limite
      BY <2>2
    <3>4. EsDe(j, lista_contextos[k].pid)'
      BY <1>2, <2>5, <2>9, <3>2 DEF EsDe
    <3>5. QED BY <3>2, <3>3, <3>4
  <2>12. QED BY <1>1, <2>6, <2>7, <2>8, <2>10, <2>11 DEF IFijas
<1>5. QED
  BY <1>0, <1>3, <1>4
  DEF CrearProceso, AsignarParticionesDinamicas, AsignarDinamicasSinLugar

\* finalizar_proceso frees the partition of the process and no other one.
LEMMA FinalizarProcesoLibera ==
  ASSUME Fijas, IFijas, NEW p \in Pids, FinalizarProceso(p)
  PROVE  \E i \in DOMAIN lista_particiones :
           /\ EsDe(i, p)
           /\ CambiaSolo(lista_particiones, lista_particiones', i, TRUE, 0)
<1>0. /\ Esquema # "DINAMICAS" /\ lista_particiones \in Seq(Particion)
      /\ pcb[p].estado = "READY"
  BY DEF Fijas, IFijas, TypeOK, FinalizarProceso
<1>1. PICK k \in DOMAIN lista_particiones : EsDe(k, p)
  BY <1>0 DEF IFijas, UnaParticionPorProceso
<1>2. PICK i \in DOMAIN lista_particiones :
        BuscarParticionPorPid(p, i) /\ lista_particiones' = Liberar(i)
  BY <1>0, <1>1 DEF FinalizarProceso, EsDe
<1>3. EsDe(i, p)
  <2>1. lista_particiones[i] \in Particion
    BY <1>0
  <2>2. lista_particiones[i].libre \in BOOLEAN
    BY ONLY <2>1, Campos
  <2>3. lista_particiones[i].pid = p
    BY <1>2 DEF BuscarParticionPorPid
  <2>4. QED BY <2>2, <2>3 DEF EsDe, IFijas, LibreSinProceso
<1>4. CambiaSolo(lista_particiones, lista_particiones', i, TRUE, 0)
  BY ONLY <1>0, <1>2, LiberarTipo
<1>5. QED BY <1>3, <1>4

LEMMA FinalizarProcesoFijas ==
  ASSUME Fijas, IFijas, NEW p \in Pids, FinalizarProceso(p) PROVE IFijas'
<1>0. /\ lista_contextos \in Seq(Contexto) /\ pcb \in PcbTipo /\ 0 \notin Pids
      /\ lista_contextos' = lista_contextos
  BY PidsValidos DEF IFijas, TypeOK, PcbTipo, FinalizarProceso
<1>1. TypeOK'
  BY FinalizarProcesoTipo DEF IFijas
<1>2. PICK i \in DOMAIN lista_particiones :
        EsDe(i, p) /\ CambiaSolo(lista_particiones, lista_particiones', i, TRUE, 0)
  BY FinalizarProcesoLibera
<1>3. /\ pcb[p].estado = "READY" /\ pcb'[p].estado = "EXIT"
      /\ \A q \in Pids : q # p => pcb'[q] = pcb[q]
  BY <1>0 DEF FinalizarProceso, PcbTipo
<1>4. \A q \in Pids, j \in DOMAIN lista_particiones : q # p => (EsDe(j, q)' <=> EsDe(j, q))
  BY <1>2 DEF EsDe, CambiaSolo
<1>5. \A j \in DOMAIN lista_particiones : ~EsDe(j, p)'
  <2>1. \A j \in DOMAIN lista_particiones : EsDe(j, p) => j = i
    BY <1>2, <1>3 DEF IFijas, UnaParticionPorProceso
  <2>2. QED BY <1>2, <2>1 DEF EsDe, CambiaSolo
<1>6. UnaParticionPorProceso'
  <2> SUFFICES ASSUME NEW q \in Pids
               PROVE  (IF pcb[q].estado = "READY"
                       THEN \E k \in DOMAIN lista_particiones :
                              /\ EsDe(k, q)
                              /\ lista_particiones[k].tamanio >= pcb[q].tam
                              /\ \A j \in DOMAIN lista_particiones : EsDe(j, q) => j = k
                       ELSE \A k \in DOMAIN lista_particiones : ~EsDe(k, q))'
    BY DEF UnaParticionPorProceso
  <2>1. CASE q = p
    BY <1>2, <1>3, <1>5, <2>1 DEF CambiaSolo
  <2>2. CASE q # p
    <3>1. IF pcb[q].estado = "READY"
          THEN \E k \in DOMAIN lista_particiones :
                 /\ EsDe(k, q)
                 /\ lista_particiones[k].tamanio >= pcb[q].tam
                 /\ \A j \in DOMAIN lista_particiones : EsDe(j, q) => j = k
          ELSE \A k \in DOMAIN lista_particiones : ~EsDe(k, q)
      BY DEF IFijas, UnaParticionPorProceso
    <3>2. /\ DOMAIN lista_particiones' = DOMAIN lista_particiones
          /\ \A k \in DOMAIN lista_particiones :
               lista_particiones'[k].tamanio = lista_particiones[k].tamanio
      BY <1>2 DEF CambiaSolo
    <3>3. QED BY <1>3, <1>4, <2>2, <3>1, <3>2
  <2>3. QED BY <2>1, <2>2
<1>7. LibreSinProceso'
  BY <1>0, <1>2 DEF IFijas, LibreSinProceso, CambiaSolo
<1>8. EnSuLugar'
  BY <1>2 DEF IFijas, EnSuLugar, CambiaSolo
<1>9. \A k \in DOMAIN lista_contextos : lista_contextos[k].pid \in Pids
  <2>1. \A k \in DOMAIN lista_contextos : lista_contextos[k] \in Contexto
    BY <1>0
  <2>2. QED BY ONLY <2>1 DEF Contexto
<1>10. ContextoConProceso'
  <2>1. \A q \in Pids : pcb'[q].estado = "NEW" => pcb[q].estado = "NEW"
    BY <1>3
  <2>2. QED BY <1>0, <1>9, <2>1 DEF IFijas, ContextoConProceso
<1>11. ContextoEnSuParticion'
  <2> SUFFICES ASSUME NEW k \in DOMAIN lista_contextos,
                      pcb'[lista_contextos[k].pid].estado = "READY"
               PROVE  \E j \in DOMAIN lista_particiones :
                        /\ EsDe(j, lista_contextos[k].pid)'
                        /\ lista_contextos[k].base = lista_particiones'[j].base
                        /\ lista_contextos[k].limite = lista_particiones'[j].limite
    BY <1>0, <1>2 DEF ContextoEnSuParticion, EsDe, CambiaSolo
  <2>1. lista_contextos[k].pid # p /\ pcb[lista_contextos[k].pid].estado = "READY"
    BY <1>3, <1>9
  <2>2. PICK j \in DOMAIN lista_particiones :
          /\ EsDe(j, lista_contextos[k].pid)
          /\ lista_contextos[k].base = lista_particiones[j].base
          /\ lista_contextos[k].limite = lista_particiones[j].limite
    BY <2>1 DEF IFijas, ContextoEnSuParticion
  <2>3. /\ lista_particiones'[j].base = lista_particiones[j].base
        /\ lista_particiones'[j].limite = lista_particiones[j].limite
    BY <1>2 DEF CambiaSolo
  <2>4. EsDe(j, lista_contextos[k].pid)'
    BY <1>0, <1>4, <1>9, <2>1, <2>2 DEF EsDe
  <2>5. QED BY <2>2, <2>3, <2>4
<1>12. QED BY <1>1, <1>6, <1>7, <1>8, <1>10, <1>11 DEF IFijas

\* A new thread gets the base and limit of the partition of its process.
LEMMA CrearHiloFijas ==
  ASSUME Fijas, IFijas, NEW p \in Pids, NEW t \in Tids, CrearHilo(p, t) PROVE IFijas'
<1>0. /\ lista_particiones \in Seq(Particion) /\ lista_contextos \in Seq(Contexto)
      /\ lista_particiones' = lista_particiones /\ pcb' = pcb
      /\ pcb[p].estado = "READY"
  BY DEF IFijas, TypeOK, CrearHilo
<1>1. TypeOK'
  BY CrearHiloTipo DEF IFijas
<1>2. UnaParticionPorProceso' /\ LibreSinProceso' /\ EnSuLugar'
  BY <1>0 DEF IFijas, UnaParticionPorProceso, LibreSinProceso, EnSuLugar, EsDe
<1>3. CASE \E i \in DOMAIN lista_particiones :
             /\ BuscarParticionPorPid(p, i)
             /\ lista_contextos' = Append(lista_contextos,
                  [pid |-> p, tid |-> t,
                   base   |-> lista_particiones[i].base,
                   limite |-> lista_particiones[i].limite])
  <2>1. PICK i \in DOMAIN lista_particiones :
          /\ BuscarParticionPorPid(p, i)
          /\ lista_contextos' = Append(lista_contextos,
               [pid |-> p, tid |-> t,
                base   |-> lista_particiones[i].base,
                limite |-> lista_particiones[i].limite])
    BY <1>3
  <2> DEFINE c == [pid |-> p, tid |-> t, base |-> lista_particiones[i].base,
                   limite |-> lista_particiones[i].limite]
  <2>2. EsDe(i, p)
    <3>1. lista_particiones[i] \in Particion
      BY <1>0
    <3>2. lista_particiones[i].libre \in BOOLEAN
      BY ONLY <3>1, Campos
    <3>3. QED BY <2>1, <3>2 DEF EsDe, IFijas, LibreSinProceso, BuscarParticionPorPid
  <2>3. /\ DOMAIN lista_contextos' = 1 .. Len(lista_contextos) + 1
        /\ DOMAIN lista_contextos = 1 .. Len(lista_contextos)
        /\ Len(lista_contextos) \in Nat
        /\ \A k \in DOMAIN lista_contextos : lista_contextos'[k] = lista_contextos[k]
        /\ lista_contextos'[Len(lista_contextos) + 1] = c
    BY <1>0, <2>1
  <2>4. c.pid = p /\ c.base = lista_particiones[i].base
        /\ c.limite = lista_particiones[i].limite
    OBVIOUS
  <2> HIDE DEF c
  <2>5. \A k \in DOMAIN lista_contextos' :
          k \in DOMAIN lista_contextos \/ k = Len(lista_contextos) + 1
    BY <2>3
  <2>6. ContextoConProceso'
    BY <1>0, <2>3, <2>4, <2>5 DEF IFijas, ContextoConProceso
  <2>7. ContextoEnSuParticion'
    <3> SUFFICES ASSUME NEW k \in DOMAIN lista_contextos',
                        pcb[lista_contextos'[k].pid].estado = "READY"
                 PROVE  \E j \in DOMAIN lista_particiones :
                          /\ EsDe(j, lista_contextos[k].pid)'
                          /\ lista_contextos'[k].base = lista_particiones[j].base
                          /\ lista_contextos'[k].limite = lista_particiones[j].limite
      BY <1>0 DEF ContextoEnSuParticion, EsDe
    <3>1. CASE k \in DOMAIN lista_contextos
      BY <1>0, <2>3, <3>1 DEF IFijas, ContextoEnSuParticion, EsDe
    <3>2. CASE k = Len(lista_contextos) + 1
      BY <1>0, <2>2, <2>3, <2>4, <3>2 DEF EsDe
    <3>3. QED BY <2>5, <3>1, <3>2
  <2>8. QED BY <1>1, <1>2, <2>6, <2>7 DEF IFijas
<1>4. CASE lista_contextos' = lista_contextos
  <2>1. ContextoConProceso' /\ ContextoEnSuParticion'
    BY <1>0, <1>4 DEF IFijas, ContextoConProceso, ContextoEnSuParticion, EsDe
  <2>2. QED BY <1>1, <1>2, <2>1 DEF IFijas
<1>5. QED BY <1>3, <1>4 DEF CrearHilo

LEMMA FinalizarHiloFijas ==
  ASSUME Fijas, IFijas, NEW p \in Pids, NEW t \in Tids, FinalizarHilo(p, t) PROVE IFijas'
<1>0. /\ lista_contextos \in Seq(Contexto)
      /\ lista_particiones' = lista_particiones /\ pcb' = pcb
  BY DEF IFijas, TypeOK, FinalizarHilo
<1>1. TypeOK'
  BY FinalizarHiloTipo DEF IFijas
<1>2. UnaParticionPorProceso' /\ LibreSinProceso' /\ EnSuLugar'
  BY <1>0 DEF IFijas, UnaParticionPorProceso, LibreSinProceso, EnSuLugar, EsDe
<1>3. \A k \in DOMAIN lista_contextos' :
        \E j \in DOMAIN lista_contextos : lista_contextos'[k] = lista_contextos[j]
  <2>1. CASE lista_contextos' = lista_contextos
    BY <2>1
  <2>2. CASE \E i \in DOMAIN lista_contextos : lista_contextos' = RemoveAt(lista_contextos, i)
    BY <1>0, <2>2, RemoveAtProps
  <2>3. QED BY <2>1, <2>2 DEF FinalizarHilo
<1>4. ContextoConProceso'
  BY <1>0, <1>3 DEF IFijas, ContextoConProceso
<1>5. ContextoEnSuParticion'
  <2> SUFFICES ASSUME NEW k \in DOMAIN lista_contextos',
                      pcb[lista_contextos'[k].pid].estado = "READY"
               PROVE  \E j \in DOMAIN lista_particiones :
                        /\ EsDe(j, lista_contextos[k].pid)'
                        /\ lista_contextos'[k].base = lista_particiones[j].base
                        /\ lista_contextos'[k].limite = lista_particiones[j].limite
    BY <1>0 DEF ContextoEnSuParticion, EsDe
  <2>1. PICK h \in DOMAIN lista_contextos : lista_contextos'[k] = lista_contextos[h]
    BY <1>3
  <2>2. QED BY <1>0, <2>1 DEF IFijas, ContextoEnSuParticion, EsDe
<1>6. QED BY <1>1, <1>2, <1>4, <1>5 DEF IFijas

LEMMA NextIFijas == ASSUME Fijas PROVE IFijas /\ [Next]_vars => IFijas'
<1> SUFFICES ASSUME IFijas, [Next]_vars PROVE IFijas'
  OBVIOUS
<1>1. ASSUME NEW p \in Pids, PedirProceso(p) PROVE IFijas'
  <2>1. /\ pcb[p].estado = "NEW" /\ pcb[p].tam \in Tamanios
        /\ CrearProceso(p, pcb[p].tam)
    BY <1>1 DEF PedirProceso, IFijas, TypeOK
  <2>2. QED BY <2>1, CrearProcesoFijas
<1>2. CASE PedirBasura
  <2>1. PICK g \in PidBasura \ Pids, tam \in Tamanios : CrearProceso(g, tam)
    BY <1>2 DEF PedirBasura
  <2>2. QED BY <2>1, CrearProcesoFijas
<1>3. ASSUME NEW p \in Pids, FinalizarProceso(p) PROVE IFijas'
  BY <1>3, FinalizarProcesoFijas
<1>4. ASSUME NEW p \in Pids, NEW t \in Tids, CrearHilo(p, t) PROVE IFijas'
  BY <1>4, CrearHiloFijas
<1>5. ASSUME NEW p \in Pids, NEW t \in Tids, FinalizarHilo(p, t) PROVE IFijas'
  BY <1>5, FinalizarHiloFijas
<1>6. CASE UNCHANGED vars
  BY <1>6 DEF vars, IFijas, TypeOK, UnaParticionPorProceso, LibreSinProceso,
      ContextoConProceso, ContextoEnSuParticion, EnSuLugar, EsDe
<1>7. QED BY <1>1, <1>2, <1>3, <1>4, <1>5, <1>6 DEF Next

LEMMA SpecIFijas == ASSUME Fijas PROVE Spec => []IFijas
<1>1. Init => IFijas
  BY InitIFijas
<1>2. IFijas /\ [Next]_vars => IFijas'
  BY NextIFijas
<1>3. QED BY <1>1, <1>2, PTL DEF Spec

\* A confirmed process holds exactly one partition, large enough for it, and a process
\* that is not running holds none.
THEOREM UnaParticion == ASSUME Fijas PROVE Spec => []UnaParticionPorProceso
<1>1. IFijas => UnaParticionPorProceso
  BY DEF IFijas
<1>2. QED BY <1>1, SpecIFijas, PTL

\* The base and limit of a running thread are those of its process's partition.
THEOREM Contextos == ASSUME Fijas PROVE Spec => []ContextoEnSuParticion
<1>1. IFijas => ContextoEnSuParticion
  BY DEF IFijas
<1>2. QED BY <1>1, SpecIFijas, PTL

-----------------------------------------------------------------------------
(* Isolation *)

\* Each fixed partition ends before any later one begins.  The proof is by the least
\* partition that begins too early.
LEMMA Separadas ==
  ASSUME Esquema = "FIJAS"
  PROVE  \A j \in 1 .. NFijas : \A i \in 1 .. j - 1 :
           Inicio[i] + ParticionesFijas[i] <= Inicio[j]
<1> DEFINE R == OpToRel(<, Nat)
           T == {j \in 1 .. NFijas : \E i \in 1 .. j - 1 :
                   ~(Inicio[i] + ParticionesFijas[i] <= Inicio[j])}
<1>0. /\ NFijas \in Nat
      /\ \A i \in 1 .. NFijas : Inicio[i] \in Nat /\ ParticionesFijas[i] \in Nat
      /\ \A i \in 2 .. NFijas : Inicio[i] = Inicio[i - 1] + ParticionesFijas[i - 1]
  <2>1. NFijas \in Nat /\ \A i \in 1 .. NFijas : ParticionesFijas[i] \in Nat
    BY ConfiguracionValida DEF NFijas
  <2>2. TamMemoria \in Nat
    BY ConfiguracionValida
  <2>3. Inicio \in [1 .. NFijas -> 0 .. TamMemoria] /\ Disposicion(Inicio)
    BY InicioTipo
  <2>4. \A i \in 1 .. NFijas : Inicio[i] \in Nat
    BY <2>2, <2>3
  <2>5. \A i \in 2 .. NFijas : Inicio[i] = Inicio[i - 1] + ParticionesFijas[i - 1]
    BY <2>1, <2>3 DEF Disposicion
  <2>6. QED BY <2>1, <2>4, <2>5
<1>1. SUFFICES ASSUME T # {} PROVE FALSE
  BY <1>0
<1>2. PICK j \in T : \A k \in T : ~(<<k, j>> \in R)
  <2>1. T \subseteq Nat
    BY <1>0
  <2> HIDE DEF T, R
  <2>2. IsWellFoundedOn(R, Nat)
    BY NatLessThanWellFounded DEF R
  <2>3. QED BY <1>1, <2>1, <2>2, WFMin
<1>3. PICK i \in 1 .. j - 1 : ~(Inicio[i] + ParticionesFijas[i] <= Inicio[j])
  OBVIOUS
<1>4. j \in 2 .. NFijas /\ j - 1 \in 1 .. NFijas /\ j \in Nat /\ j - 1 \in Nat
  BY <1>0
<1>5. j - 1 \notin T
  <2>1. <<j - 1, j>> \in R
    BY <1>4 DEF OpToRel
  <2>2. QED BY <1>2, <2>1
<1>6. i # j - 1
  <2>1. Inicio[j] = Inicio[j - 1] + ParticionesFijas[j - 1] /\ Inicio[j] \in Nat
    BY <1>0, <1>4
  <2>2. Inicio[j - 1] + ParticionesFijas[j - 1] <= Inicio[j]
    BY ONLY <2>1
  <2>3. QED BY <1>3, <2>2
<1>7. Inicio[i] + ParticionesFijas[i] <= Inicio[j - 1]
  BY <1>3, <1>4, <1>5, <1>6
<1>8. Inicio[i] \in Nat /\ ParticionesFijas[i] \in Nat
  BY <1>0, <1>3, <1>4
<1>9. QED BY <1>0, <1>3, <1>4, <1>7, <1>8

\* No two running processes are given overlapping address ranges.
THEOREM Aislamiento == ASSUME Fijas PROVE Spec => []ContextosAislados
<1>1. IFijas => ContextosAislados
  <2> SUFFICES ASSUME IFijas,
                      NEW j \in DOMAIN lista_contextos, NEW k \in DOMAIN lista_contextos,
                      lista_contextos[j].pid # lista_contextos[k].pid,
                      pcb[lista_contextos[j].pid].estado = "READY",
                      pcb[lista_contextos[k].pid].estado = "READY"
               PROVE  \/ lista_contextos[j].limite < lista_contextos[k].base
                      \/ lista_contextos[k].limite < lista_contextos[j].base
    BY DEF ContextosAislados
  <2>1. PICK x \in 1 .. NFijas :
          /\ lista_particiones[x].pid = lista_contextos[j].pid
          /\ lista_contextos[j].base = Inicio[x]
          /\ lista_contextos[j].limite = Limite(Inicio[x], ParticionesFijas[x])
    BY DEF IFijas, ContextoEnSuParticion, EnSuLugar, EsDe
  <2>2. PICK y \in 1 .. NFijas :
          /\ lista_particiones[y].pid = lista_contextos[k].pid
          /\ lista_contextos[k].base = Inicio[y]
          /\ lista_contextos[k].limite = Limite(Inicio[y], ParticionesFijas[y])
    BY DEF IFijas, ContextoEnSuParticion, EnSuLugar, EsDe
  <2>3. x # y
    BY <2>1, <2>2
  <2>4. NFijas \in Nat /\ \A i \in 1 .. NFijas :
          /\ Inicio[i] \in Nat /\ ParticionesFijas[i] \in Nat
          /\ Limite(Inicio[i], ParticionesFijas[i]) = Inicio[i] + ParticionesFijas[i] - 1
    <3>1. NFijas \in Nat /\ \A i \in 1 .. NFijas : ParticionesFijas[i] \in Nat \ {0}
      BY ConfiguracionValida DEF NFijas
    <3>2. TamMemoria \in Nat /\ Modulo \in Nat /\ TamMemoria < Modulo
      BY ConfiguracionValida
    <3>3. Inicio \in [1 .. NFijas -> 0 .. TamMemoria] /\ Disposicion(Inicio)
      BY InicioTipo DEF Fijas
    <3>4. \A i \in 1 .. NFijas :
            Inicio[i] \in Nat /\ Inicio[i] + ParticionesFijas[i] <= TamMemoria
      <4>1. \A i \in 1 .. NFijas : Inicio[i] \in Nat
        BY <3>1, <3>2, <3>3
      <4>2. \A i \in 1 .. NFijas : Inicio[i] + ParticionesFijas[i] <= TamMemoria
        BY ONLY <3>3 DEF Disposicion
      <4>3. QED BY <4>1, <4>2
    <3>5. \A a \in Nat : a < Modulo => a % Modulo = a
      BY <3>2
    <3>6. \A i \in 1 .. NFijas :
            /\ Inicio[i] + ParticionesFijas[i] - 1 \in Nat
            /\ Inicio[i] + ParticionesFijas[i] - 1 < Modulo
      BY <3>1, <3>2, <3>4
    <3>7. QED BY <3>1, <3>4, <3>5, <3>6 DEF Limite
  <2>5. CASE x < y
    <3>1. Inicio[x] + ParticionesFijas[x] <= Inicio[y]
      BY <2>4, <2>5, Separadas DEF Fijas
    <3>2. QED BY <2>1, <2>2, <2>4, <3>1
  <2>6. CASE y < x
    <3>1. Inicio[y] + ParticionesFijas[y] <= Inicio[x]
      BY <2>4, <2>6, Separadas DEF Fijas
    <3>2. QED BY <2>1, <2>2, <2>4, <3>1
  <2>7. QED BY <2>3, <2>4, <2>5, <2>6
<1>2. QED BY <1>1, SpecIFijas, PTL

-----------------------------------------------------------------------------
(* The lists that splitting and merging make *)

\* A non-empty set of naturals has a least member: induction, with no operator to instantiate.
LEMMA Minimo ==
  ASSUME NEW T, T \subseteq Nat, T # {}
  PROVE  \E n \in T : \A m \in T : n <= m
<1> DEFINE R == OpToRel(<, Nat)
<1>1. \A x, y \in Nat : x < y => <<x, y>> \in R
  BY DEF OpToRel
<1>2. IsWellFoundedOn(R, Nat)
  BY NatLessThanWellFounded
<1> HIDE DEF R
<1>3. PICK x \in T : \A y \in T : ~ (<<y, x>> \in R)
  BY <1>2, WFMin
<1>4. \A y \in T : ~ (y < x)
  BY <1>1, <1>3
<1> QED BY <1>4

\* l with its k-th partition grown by the next one, which goes.
Une(l, k) == RemoveAt([l EXCEPT ![k].tamanio = @ + l[k + 1].tamanio], k + 1)

\* What removing one element of a list leaves, place by place.
LEMMA RemoveAtLugares ==
  ASSUME NEW S, NEW s \in Seq(S), NEW i \in 1 .. Len(s)
  PROVE  /\ RemoveAt(s, i) \in Seq(S) /\ Len(RemoveAt(s, i)) = Len(s) - 1
         /\ \A k \in 1 .. i - 1 : RemoveAt(s, i)[k] = s[k]
         /\ \A k \in i .. Len(s) - 1 : RemoveAt(s, i)[k] = s[k + 1]
<1> DEFINE a == SubSeq(s, 1, i - 1)
           b == SubSeq(s, i + 1, Len(s))
           n == Len(s)
<1>0. n \in Nat /\ i \in 1 .. n
  OBVIOUS
<1>1. /\ a \in Seq(S) /\ Len(a) = i - 1 /\ \A k \in 1 .. i - 1 : a[k] = s[k]
  BY <1>0
<1>2. /\ b \in Seq(S) /\ Len(b) = n - i /\ \A k \in 1 .. n - i : b[k] = s[i + k]
  BY <1>0
<1>3. RemoveAt(s, i) = a \o b
  BY DEF RemoveAt
<1> HIDE DEF a, b, n
<1>4. a \o b \in Seq(S) /\ Len(a \o b) = n - 1
  <2>1. a \in Seq(S) /\ b \in Seq(S)
    BY <1>1, <1>2
  <2>2. a \o b \in Seq(S) /\ Len(a \o b) = Len(a) + Len(b)
    BY ONLY <2>1
  <2> QED BY <1>0, <1>1, <1>2, <2>2
<1>5. \A k \in 1 .. i - 1 : (a \o b)[k] = s[k]
  BY <1>0, <1>1, <1>2
<1>6. ASSUME NEW k \in i .. n - 1 PROVE (a \o b)[k] = s[k + 1]
  <2>1. k - (i - 1) \in 1 .. n - i /\ i + (k - (i - 1)) = k + 1
    BY <1>0
  <2>2. (a \o b)[k] = b[k - (i - 1)]
    BY <1>0, <1>1, <1>2, <2>1
  <2> QED BY <1>2, <2>1, <2>2
<1> QED BY <1>3, <1>4, <1>5, <1>6 DEF n

LEMMA UneLugares ==
  ASSUME NEW l \in Seq(Particion), NEW k \in 1 .. Len(l) - 1
  PROVE  /\ Une(l, k) \in Seq(Particion) /\ Len(Une(l, k)) = Len(l) - 1
         /\ \A j \in 1 .. k - 1 : Une(l, k)[j] = l[j]
         /\ Une(l, k)[k] = [l[k] EXCEPT !.tamanio = @ + l[k + 1].tamanio]
         /\ \A j \in k + 1 .. Len(l) - 1 : Une(l, k)[j] = l[j + 1]
<1> DEFINE n == Len(l)
           r == [l[k] EXCEPT !.tamanio = @ + l[k + 1].tamanio]
           m == [l EXCEPT ![k] = r]
<1>0. n \in Nat /\ k \in 1 .. n /\ k + 1 \in 1 .. n
  OBVIOUS
<1>1. r \in Particion
  <2>1. l[k] \in Particion /\ l[k + 1] \in Particion
    BY <1>0
  <2>2. l[k].tamanio + l[k + 1].tamanio \in Nat
    <3>1. l[k].tamanio \in Nat /\ l[k + 1].tamanio \in Nat
      BY ONLY <2>1, Campos
    <3> QED BY ONLY <3>1
  <2> QED BY <2>1, <2>2, Campos
<1>2. Une(l, k) = RemoveAt(m, k + 1)
  BY DEF Une
<1> HIDE DEF r
<1>3. /\ m \in Seq(Particion) /\ Len(m) = n
      /\ m[k] = r /\ \A j \in 1 .. n : j # k => m[j] = l[j]
  BY <1>0, <1>1
<1> HIDE DEF m, n
<1>4. /\ RemoveAt(m, k + 1) \in Seq(Particion) /\ Len(RemoveAt(m, k + 1)) = n - 1
      /\ \A j \in 1 .. (k + 1) - 1 : RemoveAt(m, k + 1)[j] = m[j]
      /\ \A j \in k + 1 .. n - 1 : RemoveAt(m, k + 1)[j] = m[j + 1]
  BY <1>0, <1>3, RemoveAtLugares
<1>5. \A j \in 1 .. k - 1 : RemoveAt(m, k + 1)[j] = l[j]
  BY <1>0, <1>3, <1>4
<1>6. RemoveAt(m, k + 1)[k] = r
  BY <1>0, <1>3, <1>4
<1>7. \A j \in k + 1 .. n - 1 : RemoveAt(m, k + 1)[j] = l[j + 1]
  BY <1>0, <1>3, <1>4
<1> QED BY <1>2, <1>4, <1>5, <1>6, <1>7 DEF n, r

\* Consolidating is joining with the next partition of the list, the one before, both or
\* none, and only free ones.
LEMMA ConsolidarUne ==
  ASSUME NEW l \in Seq(Particion), NEW i \in 1 .. Len(l), l[i].libre
  PROVE  \E c \in Seq(Particion) :
           /\ \/ c = l
              \/ i < Len(l) /\ l[i + 1].libre /\ c = Une(l, i)
           /\ i \in 1 .. Len(c) /\ c[i].libre
           /\ \/ ConsolidarParticionesLibres(l, i) = c
              \/ /\ i - 1 \in 1 .. Len(c) - 1 /\ c[i - 1].libre
                 /\ ConsolidarParticionesLibres(l, i) = Une(c, i - 1)
<1> DEFINE c == IF i < Len(l) /\ l[i + 1].libre THEN Une(l, i) ELSE l
           n == Len(l)
<1>0. n \in Nat /\ i \in 1 .. n
  OBVIOUS
<1>1. /\ c \in Seq(Particion) /\ i \in 1 .. Len(c) /\ c[i].libre
  <2>1. CASE i < n /\ l[i + 1].libre
    <3>1. i \in 1 .. n - 1
      BY <1>0, <2>1
    <3>2. /\ Une(l, i) \in Seq(Particion) /\ Len(Une(l, i)) = n - 1
          /\ Une(l, i)[i] = [l[i] EXCEPT !.tamanio = @ + l[i + 1].tamanio]
      BY <3>1, UneLugares
    <3>3. l[i] \in Particion
      OBVIOUS
    <3>4. Une(l, i)[i].libre
      BY <3>2, <3>3 DEF Particion
    <3> QED BY <2>1, <3>1, <3>2, <3>4
  <2>2. CASE ~(i < n /\ l[i + 1].libre)
    BY <2>2
  <2> QED BY <2>1, <2>2
<1>2. ConsolidarParticionesLibres(l, i) =
        IF i > 1 /\ c[i - 1].libre
        THEN RemoveAt([c EXCEPT ![i - 1].tamanio = @ + c[i].tamanio], i) ELSE c
  BY DEF ConsolidarParticionesLibres, Une
<1>3. c = l \/ (i < Len(l) /\ l[i + 1].libre /\ c = Une(l, i))
  OBVIOUS
<1> HIDE DEF c, n
<1>4. (i - 1) + 1 = i
  BY <1>0
<1>5. RemoveAt([c EXCEPT ![i - 1].tamanio = @ + c[i].tamanio], i) = Une(c, i - 1)
  BY <1>4 DEF Une
<1>6. i > 1 => i - 1 \in 1 .. Len(c) - 1
  <2>1. Len(c) \in Nat
    BY <1>1
  <2> QED BY <1>0, <1>1, <2>1
<1> QED BY <1>1, <1>2, <1>3, <1>5, <1>6

\* What dividir_particion leaves in each place.
LEMMA DividirLugares ==
  ASSUME NEW l \in Seq(Particion), NEW i \in 1 .. Len(l), NEW tam \in Nat,
         l[i].tamanio >= tam
  PROVE  LET d == DividirParticion(l, i, tam)
         IN /\ d \in Seq(Particion) /\ Len(d) = Len(l) + 1
            /\ \A j \in 1 .. Len(l) : j # i => d[j] = l[j]
            /\ d[i].tamanio = tam /\ d[i].base = l[i].base
            /\ d[i].libre = l[i].libre /\ d[i].pid = l[i].pid
            /\ d[Len(l) + 1].tamanio = l[i].tamanio - tam
            /\ d[Len(l) + 1].base = (l[i].base + tam) % Modulo
            /\ d[Len(l) + 1].libre
<1> DEFINE n == Len(l)
           r == [l[i] EXCEPT !.tamanio = tam, !.limite = Limite(l[i].base, tam)]
           e == [base |-> (l[i].base + tam) % Modulo,
                 limite |-> Limite(l[i].base + tam, l[i].tamanio - tam),
                 tamanio |-> l[i].tamanio - tam, libre |-> TRUE, pid |-> 0]
           d == DividirParticion(l, i, tam)
           m == [l EXCEPT ![i] = r]
<1>0. n \in Nat /\ i \in 1 .. n /\ i \in DOMAIN l
  OBVIOUS
<1>1. d \in Seq(Particion)
  BY <1>0, DividirTipo
<1>2. d = Append(m, e)
  BY DEF DividirParticion
<1>3. l[i] \in Particion
  OBVIOUS
<1>4. r.tamanio = tam /\ r.base = l[i].base /\ r.libre = l[i].libre /\ r.pid = l[i].pid
  BY <1>3 DEF Particion
<1>r. r \in Particion
  <2>1. l[i].base \in Int
    BY <1>3, Campos
  <2>2. tam \in Int
    OBVIOUS
  <2>3. Limite(l[i].base, tam) \in 0 .. Modulo - 1
    BY ONLY <2>1, <2>2, LimiteTipo
  <2> QED BY <1>3, <2>3, Campos
<1>5. /\ e.tamanio = l[i].tamanio - tam /\ e.base = (l[i].base + tam) % Modulo /\ e.libre
  OBVIOUS
<1> HIDE DEF r, e, d
<1>6. /\ DOMAIN m = 1 .. n /\ Len(m) = n /\ m[i] = r /\ \A j \in 1 .. n : j # i => m[j] = l[j]
  BY <1>0
<1>7. m \in Seq(Particion)
  BY <1>0, <1>r
<1> HIDE DEF m, n
<1>8. /\ Len(Append(m, e)) = n + 1 /\ Append(m, e)[n + 1] = e
      /\ \A j \in 1 .. n : Append(m, e)[j] = m[j]
  BY <1>0, <1>6, <1>7
<1>9. /\ Len(d) = n + 1 /\ d[n + 1] = e /\ d[i] = r /\ \A j \in 1 .. n : j # i => d[j] = l[j]
  BY <1>0, <1>2, <1>6, <1>8
<1> QED BY <1>1, <1>4, <1>5, <1>9 DEF d, n

-----------------------------------------------------------------------------
(* The sum of the sizes *)

\* f adds up the sizes of the first partitions of l.
Acumula(f, l) ==
  /\ f \in [0 .. Len(l) -> Int] /\ f[0] = 0
  /\ \A n \in 1 .. Len(l) : f[n] = f[n - 1] + l[n].tamanio

LEMMA SumaExiste == ASSUME NEW l \in Seq(Particion) PROVE \E f : Acumula(f, l)
<1> DEFINE m == Len(l)
           Hasta(n) == \E f \in [0 .. n -> Int] :
                         /\ f[0] = 0 /\ \A j \in 1 .. n : f[j] = f[j - 1] + l[j].tamanio
           T == {n \in 0 .. m : ~Hasta(n)}
<1>0. m \in Nat /\ \A j \in 1 .. m : l[j].tamanio \in Int
  <2>1. \A j \in 1 .. m : l[j] \in Particion
    OBVIOUS
  <2>2. \A j \in 1 .. m : l[j].tamanio \in Nat
    BY <2>1, Campos
  <2> QED BY <2>2
<1> HIDE DEF m
<1>1. Hasta(0)
  <2> DEFINE f == [j \in 0 .. 0 |-> 0]
  <2>1. f \in [0 .. 0 -> Int] /\ f[0] = 0
    OBVIOUS
  <2>2. \A j \in 1 .. 0 : FALSE
    OBVIOUS
  <2> HIDE DEF f
  <2> QED BY <2>1, <2>2
<1>2. ASSUME NEW n \in 1 .. m, Hasta(n - 1) PROVE Hasta(n)
  <2>1. PICK f \in [0 .. n - 1 -> Int] :
          f[0] = 0 /\ \A j \in 1 .. n - 1 : f[j] = f[j - 1] + l[j].tamanio
    BY <1>2
  <2> DEFINE g == [j \in 0 .. n |-> IF j = n THEN f[n - 1] + l[n].tamanio ELSE f[j]]
  <2>2. n - 1 \in 0 .. n - 1 /\ n \in Nat /\ l[n].tamanio \in Int
    BY <1>0
  <2>3. g \in [0 .. n -> Int]
    BY <2>1, <2>2
  <2>4. g[0] = 0 /\ \A j \in 1 .. n : g[j] = g[j - 1] + l[j].tamanio
    <3>1. g[0] = 0
      BY <1>0, <2>1, <2>2
    <3>2. ASSUME NEW j \in 1 .. n PROVE g[j] = g[j - 1] + l[j].tamanio
      BY <2>1, <2>2
    <3> QED BY <3>1, <3>2
  <2> QED BY <2>3, <2>4
<1>3. T = {}
  <2> SUFFICES ASSUME T # {} PROVE FALSE
    OBVIOUS
  <2> HIDE DEF Hasta
  <2>1. T \subseteq Nat
    BY <1>0
  <2>2. PICK n \in T : \A k \in T : n <= k
    BY <2>1, Minimo
  <2>3. n \in 0 .. m /\ ~Hasta(n) /\ n # 0
    BY <1>1, <2>2
  <2>4. n \in 1 .. m /\ n - 1 \in 0 .. m
    BY <1>0, <2>3
  <2>5. n - 1 \notin T
    BY <1>0, <2>2, <2>4
  <2>6. Hasta(n - 1)
    BY <2>4, <2>5
  <2> QED BY <1>2, <2>3, <2>4, <2>6
<1>4. Hasta(m)
  <2> HIDE DEF Hasta
  <2> QED BY <1>0, <1>3
<1> QED BY <1>4 DEF Acumula, m

LEMMA SumaEs ==
  ASSUME NEW l \in Seq(Particion), NEW f, Acumula(f, l)
  PROVE  Suma(l) = f[Len(l)]
<1> DEFINE m == Len(l)
           Ec(g) == g = [n \in 0 .. m |-> IF n = 0 THEN 0 ELSE g[n - 1] + l[n].tamanio]
           h == CHOOSE g : Ec(g)
<1>0. m \in Nat
  OBVIOUS
<1>1. Suma(l) = h[m]
  BY DEF Suma
<1>2. f \in [0 .. m -> Int] /\ f[0] = 0 /\ \A n \in 1 .. m : f[n] = f[n - 1] + l[n].tamanio
  BY DEF Acumula
<1> HIDE DEF m
<1>3. Ec(f)
  <2> DEFINE e == [n \in 0 .. m |-> IF n = 0 THEN 0 ELSE f[n - 1] + l[n].tamanio]
  <2>1. \A n \in 0 .. m : n = 0 \/ n \in 1 .. m
    BY <1>0
  <2>2. \A n \in 0 .. m : f[n] = e[n]
    BY <1>2, <2>1
  <2>3. DOMAIN f = 0 .. m /\ f = [n \in 0 .. m |-> f[n]]
    BY <1>2
  <2> QED BY <2>2, <2>3
<1>4. Ec(h)
  <2> HIDE DEF Ec
  <2> QED BY <1>3
<1>5. \A n \in 0 .. m : h[n] = IF n = 0 THEN 0 ELSE h[n - 1] + l[n].tamanio
  BY <1>4
<1> HIDE DEF h
<1> DEFINE T == {n \in 0 .. m : h[n] # f[n]}
<1>6. T = {}
  <2> SUFFICES ASSUME T # {} PROVE FALSE
    OBVIOUS
  <2>1. T \subseteq Nat
    BY <1>0
  <2>2. PICK n \in T : \A k \in T : n <= k
    BY <2>1, Minimo
  <2>3. n # 0
    BY <1>0, <1>2, <1>5
  <2>4. n \in 1 .. m /\ n - 1 \in 0 .. m
    BY <1>0, <2>3
  <2>5. h[n - 1] = f[n - 1]
    BY <1>0, <2>2, <2>4
  <2> QED BY <1>2, <1>5, <2>3, <2>4, <2>5
<1>7. h[m] = f[m]
  BY <1>0, <1>6
<1> QED BY <1>1, <1>7 DEF m

\* Joining two partitions keeps the sum.
LEMMA UneSuma ==
  ASSUME NEW l \in Seq(Particion), NEW k \in 1 .. Len(l) - 1
  PROVE  Suma(Une(l, k)) = Suma(l)
<1> DEFINE n == Len(l)
           u == Une(l, k)
<1>1. PICK f : Acumula(f, l)
  BY SumaExiste
<1>2. n \in Nat /\ k \in 1 .. n - 1 /\ k \in 1 .. n /\ k + 1 \in 1 .. n
  OBVIOUS
<1>3. /\ u \in Seq(Particion) /\ Len(u) = n - 1
      /\ \A j \in 1 .. k - 1 : u[j] = l[j]
      /\ u[k] = [l[k] EXCEPT !.tamanio = @ + l[k + 1].tamanio]
      /\ \A j \in k + 1 .. n - 1 : u[j] = l[j + 1]
  BY UneLugares
<1>4. \A j \in 1 .. n : l[j] \in Particion
  OBVIOUS
<1>5. \A j \in 1 .. n : l[j].tamanio \in Nat
  BY <1>4, Campos
<1>6. f \in [0 .. n -> Int] /\ f[0] = 0 /\ \A j \in 1 .. n : f[j] = f[j - 1] + l[j].tamanio
  BY <1>1 DEF Acumula
<1>7. Suma(l) = f[n]
  BY <1>1, SumaEs
<1>8. u[k].tamanio = l[k].tamanio + l[k + 1].tamanio
  BY <1>2, <1>3, <1>4 DEF Particion
<1> HIDE DEF n, u
<1> DEFINE g == [j \in 0 .. n - 1 |-> IF j < k THEN f[j] ELSE f[j + 1]]
<1>9. g \in [0 .. n - 1 -> Int] /\ g[0] = 0
  <2>1. \A j \in 0 .. n - 1 : j \in 0 .. n /\ j + 1 \in 0 .. n
    BY <1>2
  <2> QED BY <1>2, <1>6, <2>1
<1>10. ASSUME NEW j \in 1 .. n - 1 PROVE g[j] = g[j - 1] + u[j].tamanio
  <2>1. j \in 1 .. n /\ j + 1 \in 1 .. n /\ j - 1 \in 0 .. n - 1 /\ j \in 0 .. n - 1
    BY <1>2
  <2>2. /\ f[j] = f[j - 1] + l[j].tamanio /\ f[j + 1] = f[j] + l[j + 1].tamanio
        /\ f[j - 1] \in Int /\ l[j].tamanio \in Int /\ l[j + 1].tamanio \in Int
    <3>1. (j + 1) - 1 = j
      BY <2>1
    <3>2. f[j + 1] = f[(j + 1) - 1] + l[j + 1].tamanio
      BY ONLY <1>6, <2>1
    <3>3. f[j] = f[j - 1] + l[j].tamanio
      BY ONLY <1>6, <2>1
    <3>4. j - 1 \in 0 .. n
      BY <1>2
    <3>5. f[j - 1] \in Int
      BY ONLY <1>6, <3>4
    <3> QED BY <1>5, <2>1, <3>1, <3>2, <3>3, <3>5
  <2>3. CASE j < k
    <3>1. g[j] = f[j]
      BY <2>1, <2>3
    <3>2. g[j - 1] = f[j - 1]
      BY <1>2, <2>1, <2>3
    <3>3. j \in 1 .. k - 1
      BY <1>2, <2>3
    <3>4. u[j] = l[j]
      BY ONLY <1>3, <3>3
    <3> QED BY <2>2, <3>1, <3>2, <3>4
  <2>4. CASE j = k
    <3>1. g[j] = f[j + 1] /\ g[j - 1] = f[j - 1]
      BY <1>2, <2>1, <2>4
    <3> QED BY <1>8, <2>2, <2>4, <3>1
  <2>5. CASE j > k
    <3>1. g[j] = f[j + 1]
      BY <1>2, <2>1, <2>5
    <3>2. g[j - 1] = f[j]
      <4>1. ~(j - 1 < k) /\ (j - 1) + 1 = j
        BY <1>2, <2>5
      <4> QED BY <2>1, <4>1
    <3>3. j \in k + 1 .. n - 1
      BY <1>2, <2>5
    <3>4. u[j] = l[j + 1]
      BY ONLY <1>3, <3>3
    <3> QED BY <2>2, <3>1, <3>2, <3>4
  <2> QED BY <1>2, <2>3, <2>4, <2>5
<1> HIDE DEF g
<1>11. Acumula(g, u)
  BY <1>3, <1>9, <1>10 DEF Acumula
<1>12. Suma(u) = g[n - 1]
  BY <1>3, <1>11, SumaEs
<1>13. g[n - 1] = f[n]
  BY <1>2 DEF g
<1> QED BY <1>7, <1>12, <1>13 DEF u

\* The same sizes, the same sum.
LEMMA MismaSuma ==
  ASSUME NEW l \in Seq(Particion), NEW d \in Seq(Particion), Len(d) = Len(l),
         \A j \in 1 .. Len(l) : d[j].tamanio = l[j].tamanio
  PROVE  Suma(d) = Suma(l)
<1>1. PICK f : Acumula(f, l)
  BY SumaExiste
<1>2. Acumula(f, d)
  BY <1>1 DEF Acumula
<1> QED BY <1>1, <1>2, SumaEs

\* Splitting a partition keeps the sum.
LEMMA DividirSuma ==
  ASSUME NEW l \in Seq(Particion), NEW i \in 1 .. Len(l), NEW tam \in Nat, l[i].tamanio >= tam
  PROVE  Suma(DividirParticion(l, i, tam)) = Suma(l)
<1> DEFINE n == Len(l)
           d == DividirParticion(l, i, tam)
           t == l[i].tamanio
<1>1. PICK f : Acumula(f, l)
  BY SumaExiste
<1>2. n \in Nat /\ i \in 1 .. n
  OBVIOUS
<1>3. /\ d \in Seq(Particion) /\ Len(d) = n + 1
      /\ \A j \in 1 .. n : j # i => d[j] = l[j]
      /\ d[i].tamanio = tam /\ d[n + 1].tamanio = t - tam
  BY DividirLugares
<1>4. \A j \in 1 .. n : l[j] \in Particion
  OBVIOUS
<1>5. \A j \in 1 .. n : l[j].tamanio \in Nat
  BY <1>4, Campos
<1>6. f \in [0 .. n -> Int] /\ f[0] = 0 /\ \A j \in 1 .. n : f[j] = f[j - 1] + l[j].tamanio
  BY <1>1 DEF Acumula
<1>7. Suma(l) = f[n]
  BY <1>1, SumaEs
<1>8. t \in Nat /\ t = l[i].tamanio
  BY <1>2, <1>5
<1> HIDE DEF n, d, t
<1> DEFINE g == [j \in 0 .. n + 1 |-> IF j < i THEN f[j]
                                      ELSE IF j <= n THEN f[j] - (t - tam) ELSE f[n]]
<1>9. g \in [0 .. n + 1 -> Int] /\ g[0] = 0
  <2>1. \A j \in 0 .. n + 1 : j \in 0 .. n \/ j = n + 1
    BY <1>2
  <2>2. \A j \in 0 .. n : f[j] \in Int
    BY <1>6
  <2>3. f[n] \in Int /\ t - tam \in Int
    BY <1>2, <1>8, <2>2
  <2>4. ASSUME NEW j \in 0 .. n + 1 PROVE g[j] \in Int
    <3>1. CASE j \in 0 .. n
      <4>1. f[j] \in Int /\ f[j] - (t - tam) \in Int
        BY <2>2, <2>3, <3>1
      <4>2. g[j] = f[j] \/ g[j] = f[j] - (t - tam)
        BY <1>2, <3>1
      <4> QED BY <4>1, <4>2
    <3>2. CASE j = n + 1
      <4>1. g[j] = f[n]
        BY <1>2, <3>2
      <4> QED BY <2>3, <4>1
    <3> QED BY <2>1, <3>1, <3>2
  <2>5. g[0] = 0
    BY <1>2, <1>6
  <2> QED BY <2>4, <2>5
<1>10. ASSUME NEW j \in 1 .. n + 1 PROVE g[j] = g[j - 1] + d[j].tamanio
  <2>1. CASE j = n + 1
    <3>1. g[j] = f[n] /\ j - 1 = n
      BY <1>2, <2>1
    <3>2. g[n] = f[n] - (t - tam) /\ f[n] \in Int
      BY <1>2, <1>6
    <3> QED BY <1>3, <1>8, <2>1, <3>1, <3>2
  <2>2. CASE j \in 1 .. n
    <3>1. f[j] = f[j - 1] + l[j].tamanio /\ j - 1 \in 0 .. n /\ j \in 0 .. n
      BY <1>2, <1>6, <2>2
    <3>2. f[j - 1] \in Int /\ l[j].tamanio \in Int
      BY <1>5, <1>6, <2>2, <3>1
    <3>3. CASE j < i
      <4>1. d[j] = l[j] /\ g[j] = f[j] /\ g[j - 1] = f[j - 1]
        BY <1>2, <1>3, <2>2, <3>3
      <4> QED BY <3>1, <4>1
    <3>4. CASE j = i
      <4>1. g[j] = f[j] - (t - tam) /\ g[j - 1] = f[j - 1] /\ d[j].tamanio = tam
        BY <1>2, <1>3, <2>2, <3>4
      <4> QED BY <1>8, <3>1, <3>2, <3>4, <4>1
    <3>5. CASE j > i
      <4>1. d[j] = l[j] /\ g[j] = f[j] - (t - tam) /\ g[j - 1] = f[j - 1] - (t - tam)
        BY <1>2, <1>3, <2>2, <3>5
      <4> QED BY <1>8, <3>1, <3>2, <4>1
    <3> QED BY <1>2, <2>2, <3>3, <3>4, <3>5
  <2> QED BY <1>2, <2>1, <2>2
<1> HIDE DEF g
<1>11. Acumula(g, d)
  BY <1>3, <1>9, <1>10 DEF Acumula
<1>12. Suma(d) = g[n + 1]
  BY <1>3, <1>11, SumaEs
<1>13. g[n + 1] = f[n]
  BY <1>2 DEF g
<1> QED BY <1>7, <1>12, <1>13 DEF d

LEMMA SumaInicial ==
  ASSUME Esquema = "DINAMICAS", NEW l \in ParticionesIniciales
  PROVE  Suma(l) = TamMemoria
<1>1. PICK b \in PidBasura :
        l = << [base |-> 0, limite |-> Limite(0, TamMemoria), tamanio |-> TamMemoria,
                libre |-> TRUE, pid |-> b] >>
  BY DEF ParticionesIniciales
<1>2. l \in Seq(Particion)
  BY InicialesTipo
<1>3. Len(l) = 1 /\ l[1].tamanio = TamMemoria /\ TamMemoria \in Int
  BY <1>1, ConfiguracionValida
<1> DEFINE f == [n \in 0 .. 1 |-> IF n = 0 THEN 0 ELSE TamMemoria]
<1>4. f \in [0 .. 1 -> Int] /\ f[0] = 0 /\ f[1] = TamMemoria
  BY <1>3
<1>5. \A n \in 1 .. 1 : f[n] = f[n - 1] + l[n].tamanio
  BY <1>3, <1>4
<1> HIDE DEF f
<1>6. Acumula(f, l)
  BY <1>3, <1>4, <1>5 DEF Acumula
<1> QED BY <1>2, <1>3, <1>4, <1>6, SumaEs

\* What ASIGNAR_MEMORIA does to the list: a free partition is taken, and with the dynamic
\* scheme what is left of it goes to the end.
LEMMA Asignado ==
  ASSUME TypeOK, NEW q \in Nat, NEW tam \in Nat, CrearProceso(q, tam)
  PROVE  \/ UNCHANGED lista_particiones
         \/ \E i \in 1 .. Len(lista_particiones) :
              /\ lista_particiones[i].libre /\ lista_particiones[i].tamanio >= tam
              /\ Ocupar(i, q) \in Seq(Particion)
              /\ CambiaSolo(lista_particiones, Ocupar(i, q), i, FALSE, q)
              /\ Len(Ocupar(i, q)) = Len(lista_particiones)
              /\ \/ lista_particiones' = Ocupar(i, q)
                 \/ lista_particiones' = DividirParticion(Ocupar(i, q), i, tam)
<1>0. lista_particiones \in Seq(Particion) /\ DOMAIN lista_particiones = 1 .. Len(lista_particiones)
  BY DEF TypeOK
<1>1. ASSUME NEW i \in DOMAIN lista_particiones, EvaluarParticion(tam, i)
      PROVE  /\ i \in 1 .. Len(lista_particiones)
             /\ lista_particiones[i].libre /\ lista_particiones[i].tamanio >= tam
             /\ Ocupar(i, q) \in Seq(Particion)
             /\ CambiaSolo(lista_particiones, Ocupar(i, q), i, FALSE, q)
             /\ Len(Ocupar(i, q)) = Len(lista_particiones)
  <2>1. /\ Ocupar(i, q) \in Seq(Particion)
        /\ CambiaSolo(lista_particiones, Ocupar(i, q), i, FALSE, q)
    BY <1>0, OcuparTipo
  <2>2. Len(Ocupar(i, q)) = Len(lista_particiones)
    BY <1>0 DEF Ocupar
  <2> QED BY <1>0, <1>1, <2>1, <2>2 DEF EvaluarParticion, Candidatas
<1>2. CASE AsignarParticionesFijas(q, tam)
  BY <1>1, <1>2 DEF AsignarParticionesFijas
<1>3. CASE AsignarParticionesDinamicas(q, tam)
  <2>1. PICK i \in DOMAIN lista_particiones :
          /\ EvaluarParticion(tam, i)
          /\ \/ lista_particiones' = Ocupar(i, q)
             \/ lista_particiones' = DividirParticion(Ocupar(i, q), i, tam)
    BY <1>3 DEF AsignarParticionesDinamicas
  <2> QED BY <1>1, <2>1
<1>4. CASE AsignarFijasSinLugar(tam) \/ AsignarDinamicasSinLugar(tam)
  BY <1>4 DEF AsignarFijasSinLugar, AsignarDinamicasSinLugar
<1> QED BY <1>2, <1>3, <1>4 DEF CrearProceso

\* Which requests of the kernel reach the list of partitions, and how.
LEMMA CambioDeLista ==
  ASSUME TypeOK, [Next]_vars
  PROVE  \/ UNCHANGED <<lista_particiones, pcb>>
         \/ \E q \in Nat, tam \in Nat :
              /\ CrearProceso(q, tam)
              /\ q \in Pids => pcb[q].estado = "NEW"
         \/ \E q \in Pids : FinalizarProceso(q)
<1>1. ASSUME NEW q \in Pids, PedirProceso(q)
      PROVE  q \in Nat /\ pcb[q].tam \in Nat /\ CrearProceso(q, pcb[q].tam) /\ pcb[q].estado = "NEW"
  <2>1. pcb[q].tam \in Tamanios
    BY DEF TypeOK
  <2> QED BY <1>1, <2>1, PidsValidos DEF PedirProceso
<1>2. CASE PedirBasura
  <2>1. PICK g \in PidBasura \ Pids, tam \in Tamanios : CrearProceso(g, tam)
    BY <1>2 DEF PedirBasura
  <2>2. g \in Nat /\ tam \in Nat /\ g \notin Pids
    BY PidsValidos
  <2> QED BY <2>1, <2>2
<1>3. ASSUME NEW q \in Pids, NEW t \in Tids, CrearHilo(q, t) \/ FinalizarHilo(q, t)
      PROVE  UNCHANGED <<lista_particiones, pcb>>
  BY <1>3 DEF CrearHilo, FinalizarHilo
<1>4. CASE UNCHANGED vars
  BY <1>4 DEF vars
<1> QED BY <1>1, <1>2, <1>3, <1>4 DEF Next

\* What FINALIZAR_PROCESO does to it.
LEMMA Finalizado ==
  ASSUME TypeOK, NEW q \in Pids, FinalizarProceso(q)
  PROVE  \/ UNCHANGED lista_particiones
         \/ \E i \in 1 .. Len(lista_particiones) :
              /\ lista_particiones[i].pid = q
              /\ Liberar(i) \in Seq(Particion)
              /\ CambiaSolo(lista_particiones, Liberar(i), i, TRUE, 0)
              /\ Len(Liberar(i)) = Len(lista_particiones)
              /\ \/ lista_particiones' = Liberar(i)
                 \/ lista_particiones' = ConsolidarParticionesLibres(Liberar(i), i)
<1>0. lista_particiones \in Seq(Particion) /\ DOMAIN lista_particiones = 1 .. Len(lista_particiones)
  BY DEF TypeOK
<1>1. CASE \E i \in DOMAIN lista_particiones :
             /\ BuscarParticionPorPid(q, i)
             /\ lista_particiones' = IF Esquema = "DINAMICAS"
                                     THEN ConsolidarParticionesLibres(Liberar(i), i)
                                     ELSE Liberar(i)
  <2>1. PICK i \in DOMAIN lista_particiones :
          /\ lista_particiones[i].pid = q
          /\ \/ lista_particiones' = Liberar(i)
             \/ lista_particiones' = ConsolidarParticionesLibres(Liberar(i), i)
    BY <1>1 DEF BuscarParticionPorPid
  <2>2. /\ Liberar(i) \in Seq(Particion)
        /\ CambiaSolo(lista_particiones, Liberar(i), i, TRUE, 0)
    BY <1>0, LiberarTipo
  <2>3. Len(Liberar(i)) = Len(lista_particiones)
    BY <1>0 DEF Liberar
  <2> QED BY <1>0, <2>1, <2>2, <2>3
<1> QED BY <1>1 DEF FinalizarProceso

\* The step that takes a partition, splits one or gives one back keeps the sum.
LEMMA PasoSuma == ASSUME TypeOK, [Next]_vars PROVE Suma(lista_particiones') = Suma(lista_particiones)
<1> DEFINE l == lista_particiones
<1>0. l \in Seq(Particion) /\ Len(l) \in Nat /\ DOMAIN l = 1 .. Len(l)
  BY DEF TypeOK
<1>1. ASSUME NEW m \in Seq(Particion), NEW i \in 1 .. Len(l), NEW f, NEW q,
             CambiaSolo(l, m, i, f, q), Len(m) = Len(l)
      PROVE  Suma(m) = Suma(l)
  <2>1. \A j \in 1 .. Len(l) : m[j].tamanio = l[j].tamanio
    BY <1>0, <1>1 DEF CambiaSolo
  <2> HIDE DEF l
  <2> QED BY <1>0, <1>1, <2>1, MismaSuma
<1>2. ASSUME NEW q \in Nat, NEW tam \in Nat, CrearProceso(q, tam) PROVE Suma(l') = Suma(l)
  <2>1. CASE UNCHANGED lista_particiones
    BY <2>1
  <2>2. CASE ~UNCHANGED lista_particiones
    <3>1. PICK i \in 1 .. Len(l) :
            /\ l[i].tamanio >= tam
            /\ Ocupar(i, q) \in Seq(Particion)
            /\ CambiaSolo(l, Ocupar(i, q), i, FALSE, q)
            /\ Len(Ocupar(i, q)) = Len(l)
            /\ \/ l' = Ocupar(i, q)
               \/ l' = DividirParticion(Ocupar(i, q), i, tam)
      BY <1>2, <2>2, Asignado
    <3>2. Suma(Ocupar(i, q)) = Suma(l)
      BY <1>1, <3>1
    <3>3. Ocupar(i, q)[i].tamanio >= tam /\ i \in 1 .. Len(Ocupar(i, q))
      BY <3>1 DEF CambiaSolo
    <3>4. Suma(DividirParticion(Ocupar(i, q), i, tam)) = Suma(Ocupar(i, q))
      BY <3>1, <3>3, DividirSuma
    <3> QED BY <3>1, <3>2, <3>4
  <2> QED BY <2>1, <2>2
<1>3. ASSUME NEW q \in Pids, FinalizarProceso(q) PROVE Suma(l') = Suma(l)
  <2>1. CASE UNCHANGED lista_particiones
    BY <2>1
  <2>2. CASE ~UNCHANGED lista_particiones
    <3>1. PICK i \in 1 .. Len(l) :
            /\ Liberar(i) \in Seq(Particion)
            /\ CambiaSolo(l, Liberar(i), i, TRUE, 0)
            /\ Len(Liberar(i)) = Len(l)
            /\ l' = Liberar(i) \/ l' = ConsolidarParticionesLibres(Liberar(i), i)
      BY <1>3, <2>2, Finalizado
    <3>2. Suma(Liberar(i)) = Suma(l)
      BY <1>1, <3>1
    <3>3. Liberar(i)[i].libre /\ i \in 1 .. Len(Liberar(i))
      BY <3>1 DEF CambiaSolo
    <3>4. PICK c \in Seq(Particion) :
            /\ \/ c = Liberar(i)
               \/ i < Len(Liberar(i)) /\ c = Une(Liberar(i), i)
            /\ \/ ConsolidarParticionesLibres(Liberar(i), i) = c
               \/ /\ i - 1 \in 1 .. Len(c) - 1
                  /\ ConsolidarParticionesLibres(Liberar(i), i) = Une(c, i - 1)
      BY <3>1, <3>3, ConsolidarUne
    <3>5. Suma(c) = Suma(Liberar(i))
      <4>1. CASE i < Len(Liberar(i)) /\ c = Une(Liberar(i), i)
        <5>1. i \in 1 .. Len(Liberar(i)) - 1
          BY <1>0, <3>1, <4>1
        <5> QED BY <3>1, <4>1, <5>1, UneSuma
      <4> QED BY <3>4, <4>1
    <3>6. Suma(ConsolidarParticionesLibres(Liberar(i), i)) = Suma(c)
      BY <3>4, UneSuma
    <3> QED BY <3>1, <3>2, <3>5, <3>6
  <2> QED BY <2>1, <2>2
<1> HIDE DEF l
<1>4. UNCHANGED lista_particiones => Suma(l') = Suma(l)
  BY DEF l
<1> QED BY <1>2, <1>3, <1>4, CambioDeLista DEF l

\* With dynamic partitions, whatever is split, merged or leaked, the sizes add up to the memory.
THEOREM Conservacion == ASSUME Esquema = "DINAMICAS" PROVE Spec => []SumaConservada
<1>1. Init => SumaConservada
  BY SumaInicial DEF Init, SumaConservada
<1>2. TypeOK /\ SumaConservada /\ [Next]_vars => SumaConservada'
  BY PasoSuma DEF SumaConservada
<1> QED BY <1>1, <1>2, Tipos, PTL DEF Spec

-----------------------------------------------------------------------------
(* What a step may never do, with either scheme *)

\* The partitions of l that process p holds.
Suyas(l, p) == {l[i] : i \in {j \in 1 .. Len(l) : ~l[j].libre /\ l[j].pid = p}}

Ajena(r, p) == r.libre \/ r.pid # p

LEMMA SonSuyas ==
  ASSUME NEW p
  PROVE  /\ lista_particiones \in Seq(Particion) => ParticionesDe(p) = Suyas(lista_particiones, p)
         /\ lista_particiones' \in Seq(Particion) =>
              ParticionesDe(p)' = Suyas(lista_particiones', p)
BY DEF ParticionesDe, Suyas, EsDe

LEMMA SuyasCambia ==
  ASSUME NEW p, NEW l \in Seq(Particion), NEW d \in Seq(Particion), NEW i \in 1 .. Len(l),
         NEW f, NEW q, CambiaSolo(l, d, i, f, q), Len(d) = Len(l), Ajena(l[i], p), Ajena(d[i], p)
  PROVE  Suyas(d, p) = Suyas(l, p)
<1>1. \A j \in 1 .. Len(l) : j # i => d[j] = l[j]
  BY DEF CambiaSolo
<1>2. \A j \in 1 .. Len(l) : ~Ajena(l[j], p) => ~Ajena(d[j], p) /\ d[j] = l[j]
  BY <1>1
<1>3. \A j \in 1 .. Len(l) : ~Ajena(d[j], p) => ~Ajena(l[j], p) /\ d[j] = l[j]
  BY <1>1
<1> QED BY <1>2, <1>3 DEF Suyas, Ajena

LEMMA SuyasDivide ==
  ASSUME NEW p, NEW l \in Seq(Particion), NEW i \in 1 .. Len(l), NEW tam \in Nat,
         l[i].tamanio >= tam, Ajena(l[i], p)
  PROVE  Suyas(DividirParticion(l, i, tam), p) = Suyas(l, p)
<1> DEFINE n == Len(l)
           d == DividirParticion(l, i, tam)
<1>1. /\ Len(d) = n + 1 /\ \A j \in 1 .. n : j # i => d[j] = l[j]
      /\ d[i].libre = l[i].libre /\ d[i].pid = l[i].pid /\ d[n + 1].libre
  BY DividirLugares
<1>2. n \in Nat /\ i \in 1 .. n /\ Ajena(l[i], p)
  OBVIOUS
<1>3. Suyas(l, p) = {l[j] : j \in {j \in 1 .. n : ~l[j].libre /\ l[j].pid = p}}
  BY DEF Suyas
<1>4. Suyas(d, p) = {d[j] : j \in {j \in 1 .. n + 1 : ~d[j].libre /\ d[j].pid = p}}
  BY <1>1 DEF Suyas
<1> HIDE DEF n, d
<1>5. Ajena(d[i], p) /\ Ajena(d[n + 1], p)
  BY <1>1, <1>2 DEF Ajena
<1>6. \A j \in 1 .. n + 1 : j \in 1 .. n \/ j = n + 1
  BY <1>2
<1>7. 1 .. n \subseteq 1 .. n + 1
  BY <1>2
<1>8. \A j \in 1 .. n + 1 : ~Ajena(d[j], p) => j \in 1 .. n /\ ~Ajena(l[j], p) /\ d[j] = l[j]
  BY <1>1, <1>5, <1>6
<1>9. \A j \in 1 .. n : ~Ajena(l[j], p) => j \in 1 .. n + 1 /\ ~Ajena(d[j], p) /\ d[j] = l[j]
  BY <1>1, <1>2, <1>7
<1> QED BY <1>3, <1>4, <1>8, <1>9 DEF Ajena, d

LEMMA SuyasUne ==
  ASSUME NEW p, NEW l \in Seq(Particion), NEW k \in 1 .. Len(l) - 1, l[k].libre, l[k + 1].libre
  PROVE  Suyas(Une(l, k), p) = Suyas(l, p)
<1> DEFINE n == Len(l)
           u == Une(l, k)
<1>1. n \in Nat /\ k \in 1 .. n - 1 /\ l[k].libre /\ l[k + 1].libre /\ l[k] \in Particion
  OBVIOUS
<1>2. /\ Len(u) = n - 1
      /\ \A j \in 1 .. k - 1 : u[j] = l[j]
      /\ u[k] = [l[k] EXCEPT !.tamanio = @ + l[k + 1].tamanio]
      /\ \A j \in k + 1 .. n - 1 : u[j] = l[j + 1]
  BY UneLugares
<1>3. Suyas(l, p) = {l[j] : j \in {j \in 1 .. n : ~l[j].libre /\ l[j].pid = p}}
  BY DEF Suyas
<1>4. Suyas(u, p) = {u[j] : j \in {j \in 1 .. n - 1 : ~u[j].libre /\ u[j].pid = p}}
  BY <1>2 DEF Suyas
<1>5. u[k].libre
  BY <1>1, <1>2 DEF Particion
<1> HIDE DEF n, u
<1>6. ASSUME NEW j \in 1 .. n - 1, ~Ajena(u[j], p)
      PROVE  \E m \in 1 .. n : ~Ajena(l[m], p) /\ l[m] = u[j]
  <2>1. j # k
    BY <1>5, <1>6 DEF Ajena
  <2>2. CASE j \in 1 .. k - 1
    <3>1. u[j] = l[j] /\ j \in 1 .. n
      BY <1>1, <1>2, <2>2
    <3> QED BY <1>6, <3>1
  <2>3. CASE j \in k + 1 .. n - 1
    <3>1. u[j] = l[j + 1] /\ j + 1 \in 1 .. n
      BY <1>1, <1>2, <2>3
    <3> QED BY <1>6, <3>1
  <2> QED BY <1>1, <2>1, <2>2, <2>3
<1>7. ASSUME NEW m \in 1 .. n, ~Ajena(l[m], p)
      PROVE  \E j \in 1 .. n - 1 : ~Ajena(u[j], p) /\ u[j] = l[m]
  <2>1. m # k /\ m # k + 1
    BY <1>1, <1>7 DEF Ajena
  <2>2. CASE m \in 1 .. k - 1
    <3>1. u[m] = l[m] /\ m \in 1 .. n - 1
      BY <1>1, <1>2, <2>2
    <3> QED BY <1>7, <3>1
  <2>3. CASE m - 1 \in k + 1 .. n - 1
    <3>1. (m - 1) + 1 = m /\ m - 1 \in 1 .. n - 1
      BY <1>1, <2>3
    <3>2. u[m - 1] = l[m]
      BY <1>2, <2>3, <3>1
    <3> QED BY <1>7, <3>1, <3>2
  <2> QED BY <1>1, <2>1, <2>2, <2>3
<1>8. Suyas(u, p) \subseteq Suyas(l, p)
  BY <1>3, <1>4, <1>6 DEF Ajena
<1>9. Suyas(l, p) \subseteq Suyas(u, p)
  BY <1>3, <1>4, <1>7 DEF Ajena
<1> QED BY <1>8, <1>9 DEF u

LEMMA PasoEstable ==
  ASSUME TypeOK, TypeOK', [Next]_vars, NEW p \in Pids,
         pcb[p].estado = "READY", pcb'[p].estado = "READY"
  PROVE  ParticionesDe(p)' = ParticionesDe(p)
<1> DEFINE l == lista_particiones
<1>0. l \in Seq(Particion) /\ Len(l) \in Nat /\ l' \in Seq(Particion)
  BY DEF TypeOK
<1>1. /\ ParticionesDe(p) = Suyas(l, p)
      /\ ParticionesDe(p)' = Suyas(l', p)
  BY <1>0, SonSuyas
<1>2. ASSUME NEW q \in Nat, NEW tam \in Nat, CrearProceso(q, tam), q \in Pids => pcb[q].estado = "NEW"
      PROVE  Suyas(l', p) = Suyas(l, p)
  <2>0. q # p
    BY <1>2
  <2>1. CASE UNCHANGED lista_particiones
    BY <2>1
  <2>2. CASE ~UNCHANGED lista_particiones
    <3>1. PICK i \in 1 .. Len(l) :
            /\ l[i].libre /\ l[i].tamanio >= tam
            /\ Ocupar(i, q) \in Seq(Particion)
            /\ CambiaSolo(l, Ocupar(i, q), i, FALSE, q)
            /\ Len(Ocupar(i, q)) = Len(l)
            /\ \/ l' = Ocupar(i, q)
               \/ l' = DividirParticion(Ocupar(i, q), i, tam)
      BY <1>2, <2>2, Asignado
    <3>2. Ajena(l[i], p) /\ Ajena(Ocupar(i, q)[i], p) /\ Ocupar(i, q)[i].tamanio >= tam
      BY <2>0, <3>1 DEF Ajena, CambiaSolo
    <3>3. Suyas(Ocupar(i, q), p) = Suyas(l, p)
      BY <1>0, <3>1, <3>2, SuyasCambia
    <3>4. Suyas(DividirParticion(Ocupar(i, q), i, tam), p) = Suyas(Ocupar(i, q), p)
      BY <3>1, <3>2, SuyasDivide
    <3> QED BY <3>1, <3>3, <3>4
  <2> QED BY <2>1, <2>2
<1>3. ASSUME NEW q \in Pids, FinalizarProceso(q) PROVE Suyas(l', p) = Suyas(l, p)
  <2>0. q # p
    BY <1>3 DEF FinalizarProceso, TypeOK
  <2>1. CASE UNCHANGED lista_particiones
    BY <2>1
  <2>2. CASE ~UNCHANGED lista_particiones
    <3>1. PICK i \in 1 .. Len(l) :
            /\ l[i].pid = q
            /\ Liberar(i) \in Seq(Particion)
            /\ CambiaSolo(l, Liberar(i), i, TRUE, 0)
            /\ Len(Liberar(i)) = Len(l)
            /\ l' = Liberar(i) \/ l' = ConsolidarParticionesLibres(Liberar(i), i)
      BY <1>3, <2>2, Finalizado
    <3> DEFINE m == Liberar(i)
               z == ConsolidarParticionesLibres(m, i)
    <3>2. Ajena(l[i], p) /\ Ajena(m[i], p) /\ m[i].libre /\ i \in 1 .. Len(m)
      BY <2>0, <3>1 DEF Ajena, CambiaSolo
    <3>3. Suyas(m, p) = Suyas(l, p)
      BY <1>0, <3>1, <3>2, SuyasCambia
    <3>4. m \in Seq(Particion) /\ Len(m) \in Nat
      BY <1>0, <3>1
    <3>5. l' = m \/ l' = z
      BY <3>1
    <3> HIDE DEF l, m
    <3>6. PICK c \in Seq(Particion) :
            /\ c = m \/ (i < Len(m) /\ m[i + 1].libre /\ c = Une(m, i))
            /\ i \in 1 .. Len(c) /\ c[i].libre
            /\ z = c \/ (i - 1 \in 1 .. Len(c) - 1 /\ c[i - 1].libre /\ z = Une(c, i - 1))
      BY <3>2, <3>4, ConsolidarUne
    <3> HIDE DEF z
    <3>7. Suyas(c, p) = Suyas(m, p)
      <4>1. CASE i < Len(m) /\ m[i + 1].libre /\ c = Une(m, i)
        <5>1. i \in 1 .. Len(m) - 1
          BY <3>2, <3>4, <4>1
        <5> QED BY <3>2, <3>4, <4>1, <5>1, SuyasUne
      <4> QED BY <3>6, <4>1
    <3>8. Suyas(z, p) = Suyas(c, p)
      <4>1. CASE i - 1 \in 1 .. Len(c) - 1 /\ c[i - 1].libre /\ z = Une(c, i - 1)
        <5>1. (i - 1) + 1 = i
          BY <3>2
        <5> QED BY <3>6, <4>1, <5>1, SuyasUne
      <4> QED BY <3>6, <4>1
    <3> QED BY <3>3, <3>5, <3>7, <3>8
  <2> QED BY <2>1, <2>2
<1> HIDE DEF l
<1>4. UNCHANGED lista_particiones => Suyas(l', p) = Suyas(l, p)
  BY DEF l
<1> QED BY <1>1, <1>2, <1>3, <1>4, CambioDeLista

\* While a process runs, no request of another one touches its partitions: with dynamic
\* ones, what is split or merged was free.
THEOREM Estabilidad == Spec => ParticionEstable
<1> DEFINE A == \A p \in Pids :
                  pcb[p].estado = "READY" /\ pcb'[p].estado = "READY" =>
                    ParticionesDe(p)' = ParticionesDe(p)
<1>1. TypeOK /\ TypeOK' /\ [Next]_vars => A
  BY PasoEstable
<1>2. Spec => [][A]_vars
  <2> HIDE DEF A
  <2>1. QED BY <1>1, Tipos, PTL DEF Spec
<1>3. [][A]_vars => ParticionEstable
  BY PTL DEF A, ParticionEstable
<1>4. QED BY <1>2, <1>3, PTL

\* Where a partition is does not depend on who holds it.
LEMMA MismosLugares ==
  ASSUME NEW l \in Seq(Particion), NEW d \in Seq(Particion), NEW i \in 1 .. Len(l),
         NEW f, NEW q, CambiaSolo(l, d, i, f, q), Disjuntas(l)
  PROVE  Disjuntas(d)
<1>1. /\ DOMAIN d = DOMAIN l
      /\ \A j \in DOMAIN l : d[j].base = l[j].base /\ d[j].tamanio = l[j].tamanio
  BY DEF CambiaSolo
<1> QED BY <1>1 DEF Disjuntas, Solapan

\* Parts of two extents that do not overlap do not overlap.
LEMMA Partes ==
  ASSUME NEW x \in Nat, NEW s \in Nat, NEW y \in Nat, NEW t \in Nat,
         ~(x < y + t /\ y < x + s)
  PROVE  /\ \A u, v \in Nat : u <= s /\ v <= t => ~(x < y + v /\ y < x + u)
         /\ \A v \in Nat : v <= t => ~(x < (y + v) + (t - v) /\ y + v < x + s)
OBVIOUS

LEMMA DividirDisjunta ==
  ASSUME NEW l \in Seq(Particion), NEW i \in 1 .. Len(l), NEW tam \in Nat, l[i].tamanio >= tam,
         Disjuntas(l), SinDarVuelta(l[i])
  PROVE  Disjuntas(DividirParticion(l, i, tam))
<1> DEFINE n == Len(l)
           d == DividirParticion(l, i, tam)
           fin == l[i].base + tam
<1>1. /\ d \in Seq(Particion) /\ Len(d) = n + 1
      /\ \A j \in 1 .. n : j # i => d[j] = l[j]
      /\ d[i].tamanio = tam /\ d[i].base = l[i].base
      /\ d[n + 1].tamanio = l[i].tamanio - tam /\ d[n + 1].base = fin % Modulo
  BY DividirLugares
<1>2. n \in Nat /\ i \in 1 .. n /\ l[i].tamanio >= tam
  OBVIOUS
<1>3. \A j \in 1 .. n : l[j] \in Particion
  OBVIOUS
<1>m. Modulo \in Nat
  BY ConfiguracionValida
<1>4. \A j \in 1 .. n : l[j].base \in Nat /\ l[j].tamanio \in Nat
  <2>1. \A b \in 0 .. Modulo - 1 : b \in Nat
    BY <1>m
  <2> QED BY <1>3, <2>1 DEF Particion
<1>5. \A j, k \in 1 .. n : j # k => ~Solapan(l[j], l[k])
  BY DEF Disjuntas
<1>6. fin \in Nat /\ fin = l[i].base + tam /\ l[i].base + l[i].tamanio <= Modulo
  BY <1>2, <1>4 DEF SinDarVuelta
<1>7. DOMAIN d = 1 .. n + 1
  BY <1>1
<1>n. l[i].base \in Nat /\ l[i].tamanio \in Nat /\ tam \in Nat /\ fin <= Modulo
  <2>1. l[i].base \in Nat /\ l[i].tamanio \in Nat
    BY <1>2, <1>4
  <2> QED BY <1>2, <1>6, <1>m, <2>1
<1> HIDE DEF n, d, fin
<1>8. \/ d[n + 1].base = fin
      \/ d[n + 1].base = 0 /\ d[n + 1].tamanio = 0
  <2>1. CASE fin < Modulo
    <3>1. fin % Modulo = fin
      BY <1>6, <1>m, <2>1
    <3> QED BY <1>1, <3>1
  <2>2. CASE fin = Modulo
    <3>1. l[i].tamanio = tam
      BY <1>2, <1>6, <1>n, <1>m, <2>2
    <3>2. Modulo > 0 /\ Modulo % Modulo = 0
      BY ConfiguracionValida
    <3> QED BY <1>1, <2>2, <3>1, <3>2
  <2> QED BY <1>6, <1>m, <1>n, <2>1, <2>2
<1>9. ASSUME NEW j \in 1 .. n, NEW k \in 1 .. n, j # k PROVE ~Solapan(d[j], d[k])
  <2>1. ~Solapan(l[j], l[k]) /\ ~Solapan(l[k], l[j])
    BY <1>5, <1>9
  <2>2. /\ d[j].base = l[j].base /\ d[k].base = l[k].base
        /\ d[j].tamanio \in Nat /\ d[k].tamanio \in Nat
        /\ d[j].tamanio <= l[j].tamanio /\ d[k].tamanio <= l[k].tamanio
    <3>1. \A m \in 1 .. n : /\ d[m].base = l[m].base /\ d[m].tamanio \in Nat
                            /\ d[m].tamanio <= l[m].tamanio
      <4> SUFFICES ASSUME NEW m \in 1 .. n
                   PROVE  /\ d[m].base = l[m].base /\ d[m].tamanio \in Nat
                          /\ d[m].tamanio <= l[m].tamanio
        OBVIOUS
      <4>1. CASE m = i
        BY <1>1, <1>2, <1>n, <4>1
      <4>2. CASE m # i
        <5>1. d[m] = l[m] /\ l[m].tamanio \in Nat
          BY <1>1, <1>4, <4>2
        <5> QED BY <5>1
      <4> QED BY <4>1, <4>2
    <3> QED BY <3>1
  <2>3. /\ l[j].base \in Nat /\ l[k].base \in Nat
        /\ l[j].tamanio \in Nat /\ l[k].tamanio \in Nat
    BY <1>4
  <2>4. ~(l[j].base < l[k].base + l[k].tamanio /\ l[k].base < l[j].base + l[j].tamanio)
    BY <2>1 DEF Solapan
  <2>5. ~(l[j].base < l[k].base + d[k].tamanio /\ l[k].base < l[j].base + d[j].tamanio)
    BY ONLY <2>2, <2>3, <2>4, Partes
  <2> QED BY <2>2, <2>5 DEF Solapan
<1>10. ASSUME NEW j \in 1 .. n PROVE ~Solapan(d[j], d[n + 1]) /\ ~Solapan(d[n + 1], d[j])
  <2>1. /\ l[j].base \in Nat /\ l[j].tamanio \in Nat
        /\ l[i].base \in Nat /\ l[i].tamanio \in Nat
    BY <1>2, <1>4
  <2>2. d[j].base = l[j].base /\ d[n + 1].tamanio = l[i].tamanio - tam
    BY <1>1
  <2>3. CASE j = i
    <3>1. d[j].tamanio = tam
      BY <1>1, <2>3
    <3> QED BY <1>2, <1>6, <1>8, <2>1, <2>2, <2>3, <3>1 DEF Solapan
  <2>4. CASE j # i
    <3>1. d[j].tamanio = l[j].tamanio /\ ~Solapan(l[j], l[i])
      BY <1>1, <1>2, <1>5, <2>4
    <3>2. ~(l[j].base < l[i].base + l[i].tamanio /\ l[i].base < l[j].base + l[j].tamanio)
      BY <3>1 DEF Solapan
    <3>3. ~(l[j].base < (l[i].base + tam) + (l[i].tamanio - tam)
            /\ l[i].base + tam < l[j].base + l[j].tamanio)
      BY ONLY <1>2, <1>n, <2>1, <3>2, Partes
    <3>4. CASE d[n + 1].base = fin
      BY <1>6, <2>2, <3>1, <3>3, <3>4 DEF Solapan
    <3>5. CASE d[n + 1].base = 0 /\ d[n + 1].tamanio = 0
      <4>1. d[j].base \in Nat /\ ~(d[j].base < 0)
        BY <2>1, <2>2
      <4>2. d[n + 1].base + d[n + 1].tamanio = 0
        BY <3>5
      <4> QED BY ONLY <4>1, <4>2 DEF Solapan
    <3> QED BY <1>8, <3>4, <3>5
  <2> QED BY <2>3, <2>4
<1>11. \A j \in 1 .. n + 1 : j \in 1 .. n \/ j = n + 1
  BY <1>2
<1>12. Disjuntas(d)
  BY <1>7, <1>9, <1>10, <1>11 DEF Disjuntas
<1> QED BY <1>12 DEF d

\* With no address past the range of a uint32_t, no request but the end of a process makes
\* two disjoint partitions overlap.
THEOREM Division == Spec => DivisionDisjunta
<1> DEFINE A == /\ Disjuntas(lista_particiones)
                /\ \A i \in DOMAIN lista_particiones : SinDarVuelta(lista_particiones[i])
                /\ \A p \in Pids : pcb'[p].estado = "EXIT" => pcb[p].estado = "EXIT"
                => Disjuntas(lista_particiones')
<1>1. TypeOK /\ [Next]_vars => A
  <2> SUFFICES ASSUME TypeOK, [Next]_vars, Disjuntas(lista_particiones),
                      \A i \in DOMAIN lista_particiones : SinDarVuelta(lista_particiones[i]),
                      \A p \in Pids : pcb'[p].estado = "EXIT" => pcb[p].estado = "EXIT"
               PROVE  Disjuntas(lista_particiones')
    OBVIOUS
  <2> DEFINE l == lista_particiones
  <2>0. l \in Seq(Particion) /\ Len(l) \in Nat /\ DOMAIN l = 1 .. Len(l)
    BY DEF TypeOK
  <2>1. ASSUME NEW q \in Nat, NEW tam \in Nat, CrearProceso(q, tam) PROVE Disjuntas(l')
    <3>1. CASE UNCHANGED lista_particiones
      BY <3>1
    <3>2. CASE ~UNCHANGED lista_particiones
      <4>1. PICK i \in 1 .. Len(l) :
              /\ l[i].tamanio >= tam
              /\ Ocupar(i, q) \in Seq(Particion)
              /\ CambiaSolo(l, Ocupar(i, q), i, FALSE, q)
              /\ Len(Ocupar(i, q)) = Len(l)
              /\ \/ l' = Ocupar(i, q)
                 \/ l' = DividirParticion(Ocupar(i, q), i, tam)
        BY <2>1, <3>2, Asignado
      <4>2. Disjuntas(Ocupar(i, q))
        BY <2>0, <4>1, MismosLugares
      <4>3. /\ Ocupar(i, q)[i].tamanio >= tam /\ i \in 1 .. Len(Ocupar(i, q))
            /\ SinDarVuelta(Ocupar(i, q)[i])
        BY <2>0, <4>1 DEF CambiaSolo, SinDarVuelta
      <4>4. Disjuntas(DividirParticion(Ocupar(i, q), i, tam))
        BY <4>1, <4>2, <4>3, DividirDisjunta
      <4> QED BY <4>1, <4>2, <4>4
    <3> QED BY <3>1, <3>2
  <2>2. ASSUME NEW q \in Pids, FinalizarProceso(q) PROVE FALSE
    <3>1. pcb[q].estado = "READY" /\ pcb' = [pcb EXCEPT ![q].estado = "EXIT"]
      BY <2>2 DEF FinalizarProceso
    <3>2. pcb'[q].estado = "EXIT"
      BY <3>1 DEF TypeOK
    <3> QED BY <3>1, <3>2
  <2>3. UNCHANGED lista_particiones => Disjuntas(l')
    OBVIOUS
  <2> QED BY <2>1, <2>2, <2>3, CambioDeLista
<1>2. Spec => [][A]_vars
  <2> HIDE DEF A
  <2>1. QED BY <1>1, Tipos, PTL DEF Spec
<1>3. [][A]_vars => DivisionDisjunta
  BY PTL DEF A, DivisionDisjunta
<1>4. QED BY <1>2, <1>3, PTL
=============================================================================
