------------------------------ MODULE CpuProofs ------------------------------
(***************************************************************************)
(* Proofs about Cpu, for every program, partition and memory: the shared   *)
(* instruction and the two semaphores are safe without a lock, because one *)
(* token goes round.  It is, in turn, the dispatch, the request of a       *)
(* context, the context, and then for each instruction a request, its      *)
(* answer and a post, and for a system call the same again.                *)
(***************************************************************************)
EXTENDS Cpu, TLAPS

Limites == [base : 0 .. Modulo - 1, limite : 0 .. Modulo - 1]

Mensaje ==
  [op : {"OBTENER_CONTEXTO", "ENVIAR_CONTEXTO", "OBTENER_INSTRUCCION", "ENVIAR_INSTRUCCION",
         "ACTUALIZAR_CONTEXTO", "CONFIRMAR_CONTEXTO_ACTUALIZADO", "WRITE_MEM",
         "CONFIRMAR_WRITE_MEM", "READ_MEM", "ENVIAR_READ_MEM"},
   hilo : Hilos, n : Nat]

Fases == {"sin hilo", "ciclo", "fetch", "execute", "sem_syscall", "recv", "fin"}

-----------------------------------------------------------------------------
(* What is in a socket *)

Sin(s, op) == \A i \in DOMAIN s : s[i].op # op
Uno(s, op) == \A i, j \in DOMAIN s : s[i].op = op /\ s[j].op = op => i = j

\* Messages op are about the instruction of thread h at n.
De(s, op, h, n) == \A i \in DOMAIN s : s[i].op = op => s[i].hilo = h /\ s[i].n = n

\* At most one of a request and its answer is on its way.
Ficha(pedido, respuesta) ==
  /\ Uno(a_memoria, pedido) /\ Uno(de_memoria, respuesta)
  /\ Sin(a_memoria, pedido) \/ Sin(de_memoria, respuesta)

Ninguna(pedido, respuesta) == Sin(a_memoria, pedido) /\ Sin(de_memoria, respuesta)

\* The messages op are about the instruction the cycle is at.
DelCiclo(s, op) == De(s, op, ciclo.hilo, ciclo.pc)

-----------------------------------------------------------------------------
(* The inductive invariant *)

EnPrograma == ciclo.pc < Len(Programa[ciclo.hilo])

Tipos ==
  /\ a_memoria \in Seq(Mensaje) /\ de_memoria \in Seq(Mensaje) /\ de_kernel \in Seq(Hilos)
  /\ contextos \in [Hilos -> Nat]
  /\ ciclo \in [fase : Fases, hilo : Hilos \cup {Nada}, pc : Nat,
                inst : Instruccion \cup {Nada}]
  /\ sem_instruccion \in Nat /\ sem_syscall \in Nat
  /\ ciclo.fase # "sin hilo" => ciclo.hilo \in Hilos /\ parteActual \in Limites
  /\ ciclo.fase = "execute" => ciclo.inst \in Instruccion

\* The context: a dispatch, its request or its answer, and none once there is a cycle.
Despachos ==
  /\ Ficha("OBTENER_CONTEXTO", "ENVIAR_CONTEXTO")
  /\ de_kernel # << >> =>
       Len(de_kernel) = 1 /\ Ninguna("OBTENER_CONTEXTO", "ENVIAR_CONTEXTO")
  /\ ciclo.fase # "sin hilo" =>
       de_kernel = << >> /\ Ninguna("OBTENER_CONTEXTO", "ENVIAR_CONTEXTO")

\* The instruction: asked for, sent or posted, and only in fetch.
Instrucciones ==
  /\ Ficha("OBTENER_INSTRUCCION", "ENVIAR_INSTRUCCION")
  /\ DelCiclo(a_memoria, "OBTENER_INSTRUCCION") /\ DelCiclo(de_memoria, "ENVIAR_INSTRUCCION")
  /\ ~Sin(de_memoria, "ENVIAR_INSTRUCCION") => EnPrograma
  /\ sem_instruccion # 0 =>
       /\ sem_instruccion = 1 /\ Ninguna("OBTENER_INSTRUCCION", "ENVIAR_INSTRUCCION")
       /\ EnPrograma /\ instruccionActual = Programa[ciclo.hilo][ciclo.pc + 1]
  /\ ciclo.fase # "fetch" =>
       sem_instruccion = 0 /\ Ninguna("OBTENER_INSTRUCCION", "ENVIAR_INSTRUCCION")

\* The context saved: sent, confirmed or posted, and only in the wait of a system call.
Guardados ==
  /\ Ficha("ACTUALIZAR_CONTEXTO", "CONFIRMAR_CONTEXTO_ACTUALIZADO")
  /\ DelCiclo(a_memoria, "ACTUALIZAR_CONTEXTO")
  /\ ~Sin(de_memoria, "CONFIRMAR_CONTEXTO_ACTUALIZADO") => contextos[ciclo.hilo] = ciclo.pc
  /\ sem_syscall # 0 =>
       /\ sem_syscall = 1 /\ Ninguna("ACTUALIZAR_CONTEXTO", "CONFIRMAR_CONTEXTO_ACTUALIZADO")
       /\ contextos[ciclo.hilo] = ciclo.pc
  /\ ciclo.fase # "sem_syscall" =>
       sem_syscall = 0 /\ Ninguna("ACTUALIZAR_CONTEXTO", "CONFIRMAR_CONTEXTO_ACTUALIZADO")

IInv ==
  /\ Tipos /\ InstruccionDelPC
  /\ viva => Despachos /\ Instrucciones /\ Guardados

-----------------------------------------------------------------------------
(* What sending and receiving do to a socket *)

LEMMA Agrega ==
  ASSUME NEW s \in Seq(Mensaje), NEW m \in Mensaje, NEW op
  PROVE  /\ Append(s, m) \in Seq(Mensaje)
         /\ m.op # op =>
              /\ Sin(s, op) <=> Sin(Append(s, m), op)
              /\ Uno(s, op) => Uno(Append(s, m), op)
              /\ \A h, n : De(s, op, h, n) => De(Append(s, m), op, h, n)
         /\ m.op = op /\ Sin(s, op) =>
              /\ ~Sin(Append(s, m), op) /\ Uno(Append(s, m), op)
              /\ De(Append(s, m), op, m.hilo, m.n)
<1> DEFINE t == Append(s, m)
<1>1. /\ t \in Seq(Mensaje) /\ DOMAIN s = 1 .. Len(s) /\ Len(s) \in Nat
      /\ DOMAIN t = 1 .. Len(s) + 1
      /\ \A i \in 1 .. Len(s) : t[i] = s[i]
      /\ t[Len(s) + 1] = m
  OBVIOUS
<1>2. /\ \A i \in DOMAIN s : i \in DOMAIN t /\ t[i] = s[i]
      /\ \A i \in DOMAIN t : (i \in DOMAIN s /\ t[i] = s[i]) \/ (i = Len(s) + 1 /\ t[i] = m)
      /\ Len(s) + 1 \in DOMAIN t
  BY <1>1
<1> HIDE DEF t
<1>3. CASE m.op # op
  <2>1. Sin(s, op) <=> Sin(t, op)
    BY <1>2, <1>3 DEF Sin
  <2>2. Uno(s, op) => Uno(t, op)
    BY <1>2, <1>3 DEF Uno
  <2>3. \A h, n : De(s, op, h, n) => De(t, op, h, n)
    BY <1>2, <1>3 DEF De
  <2> QED BY <1>1, <1>3, <2>1, <2>2, <2>3 DEF t
<1>4. CASE m.op = op /\ Sin(s, op)
  <2>1. ~Sin(t, op)
    BY <1>1, <1>2, <1>4 DEF Sin
  <2>2. \A i \in DOMAIN t : t[i].op = op => i = Len(s) + 1 /\ t[i] = m
    BY <1>2, <1>4 DEF Sin
  <2>3. Uno(t, op) /\ De(t, op, m.hilo, m.n)
    BY <2>2 DEF Uno, De
  <2> QED BY <1>1, <1>4, <2>1, <2>3 DEF t
<1> QED BY <1>1, <1>3, <1>4 DEF t

LEMMA Saca ==
  ASSUME NEW s \in Seq(Mensaje), s # << >>, NEW op
  PROVE  /\ Tail(s) \in Seq(Mensaje) /\ Head(s) \in Mensaje
         /\ Sin(s, op) => Sin(Tail(s), op)
         /\ Uno(s, op) => Uno(Tail(s), op)
         /\ \A h, n : De(s, op, h, n) => De(Tail(s), op, h, n)
         /\ Head(s).op # op /\ Sin(Tail(s), op) => Sin(s, op)
         /\ Head(s).op = op =>
              /\ ~Sin(s, op) /\ Uno(s, op) => Sin(Tail(s), op)
              /\ ~Sin(s, op)
              /\ \A h, n : De(s, op, h, n) => Head(s).hilo = h /\ Head(s).n = n
<1> DEFINE t == Tail(s)
           c == Head(s)
<1>1. /\ t \in Seq(Mensaje) /\ c \in Mensaje /\ c = s[1]
      /\ DOMAIN s = 1 .. Len(s) /\ Len(s) \in Nat /\ Len(s) # 0
      /\ DOMAIN t = 1 .. Len(s) - 1
      /\ \A i \in 1 .. Len(s) - 1 : t[i] = s[i + 1]
  OBVIOUS
<1>2. /\ 1 \in DOMAIN s
      /\ \A i \in DOMAIN t : i \in Int /\ i # 0 /\ i + 1 \in DOMAIN s /\ t[i] = s[i + 1]
      /\ \A j \in DOMAIN s : j = 1 \/ (j - 1 \in DOMAIN t /\ t[j - 1] = s[j])
  BY <1>1
<1> HIDE DEF t, c
<1>3. Sin(s, op) => Sin(t, op)
  BY <1>2 DEF Sin
<1>4. Uno(s, op) => Uno(t, op)
  BY <1>2 DEF Uno
<1>5. \A h, n : De(s, op, h, n) => De(t, op, h, n)
  BY <1>2 DEF De
<1>6. c.op # op /\ Sin(t, op) => Sin(s, op)
  BY <1>1, <1>2 DEF Sin
<1>7. c.op = op => ~Sin(s, op) /\ \A h, n : De(s, op, h, n) => c.hilo = h /\ c.n = n
  BY <1>1, <1>2 DEF Sin, De
<1>8. c.op = op /\ Uno(s, op) => Sin(t, op)
  <2> SUFFICES ASSUME c.op = op, Uno(s, op), NEW i \in DOMAIN t, t[i].op = op PROVE FALSE
    BY DEF Sin
  <2>1. i + 1 \in DOMAIN s /\ s[i + 1].op = op /\ s[1].op = op /\ 1 \in DOMAIN s
    BY <1>1, <1>2
  <2>2. i + 1 = 1
    BY <2>1 DEF Uno
  <2> QED BY <1>2, <2>2
<1> QED BY <1>1, <1>3, <1>4, <1>5, <1>6, <1>7, <1>8 DEF t, c

LEMMA Inicio == Init => IInv
<1> SUFFICES ASSUME Init PROVE IInv
  OBVIOUS
<1>1. PICK h \in Hilos : de_kernel = <<h>>
  BY DEF Init
<1>2. a_memoria = << >> /\ de_memoria = << >> /\ ciclo.fase = "sin hilo"
  BY DEF Init
<1>3. /\ \A op : Sin(a_memoria, op) /\ Uno(a_memoria, op)
      /\ \A op : Sin(de_memoria, op) /\ Uno(de_memoria, op)
      /\ \A op, k, n : De(a_memoria, op, k, n) /\ De(de_memoria, op, k, n)
  <2>0. DOMAIN << >> = {}
    OBVIOUS
  <2>1. DOMAIN a_memoria = {}
    BY <1>2, <2>0, Zenon
  <2>2. DOMAIN de_memoria = {}
    BY <1>2, <2>0, Zenon
  <2> QED BY <2>1, <2>2 DEF Sin, Uno, De
<1>4. Tipos
  <2>0. << >> \in Seq(Mensaje)
    OBVIOUS
  <2>1. a_memoria \in Seq(Mensaje) /\ de_memoria \in Seq(Mensaje)
    BY <1>2, <2>0, Zenon
  <2>4. de_kernel \in Seq(Hilos)
    BY <1>1
  <2>2. ciclo \in [fase : Fases, hilo : Hilos \cup {Nada}, pc : Nat,
                   inst : Instruccion \cup {Nada}]
    BY DEF Init, Fases
  <2>3. contextos \in [Hilos -> Nat] /\ sem_instruccion \in Nat /\ sem_syscall \in Nat
    BY DEF Init
  <2> QED BY <1>2, <2>1, <2>2, <2>3, <2>4 DEF Tipos
<1>5. Despachos
  BY <1>1, <1>2, <1>3 DEF Despachos, Ficha, Ninguna
<1>6. Instrucciones
  BY <1>2, <1>3 DEF Init, Instrucciones, Ficha, Ninguna, DelCiclo
<1>7. Guardados
  BY <1>2, <1>3 DEF Init, Guardados, Ficha, Ninguna, DelCiclo
<1>8. InstruccionDelPC
  BY <1>2 DEF InstruccionDelPC
<1> QED BY <1>4, <1>5, <1>6, <1>7, <1>8 DEF IInv

LEMMA PasoRecibirTid == ASSUME IInv, RecibirTid PROVE IInv'
<1> DEFINE m == Msg("OBTENER_CONTEXTO", actual', 0)
<1>0. /\ viva /\ de_kernel # << >> /\ actual' = Head(de_kernel)
      /\ de_kernel' = Tail(de_kernel) /\ a_memoria' = Append(a_memoria, m)
      /\ UNCHANGED <<instruccionActual, sem_instruccion, sem_syscall, parteActual, ciclo, viva,
                     contextos, de_memoria>>
  BY DEF RecibirTid
<1>1. /\ a_memoria \in Seq(Mensaje) /\ de_kernel \in Seq(Hilos)
  BY DEF IInv, Tipos
<1>2. m \in Mensaje /\ m.op = "OBTENER_CONTEXTO"
  <2>1. actual' \in Hilos
    BY <1>0, <1>1
  <2> QED BY <2>1 DEF Msg, Mensaje
<1>3. Len(de_kernel) = 1 /\ Sin(a_memoria, "OBTENER_CONTEXTO") /\ Sin(de_memoria, "ENVIAR_CONTEXTO")
      /\ ciclo.fase = "sin hilo"
  BY <1>0 DEF IInv, Despachos, Ninguna
<1> HIDE DEF m
<1>4. de_kernel' = << >>
  <2>1. Len(de_kernel) = 1 /\ de_kernel \in Seq(Hilos) /\ de_kernel' = Tail(de_kernel)
    BY <1>0, <1>1, <1>3
  <2>2. Tail(de_kernel) \in Seq(Hilos) /\ Len(Tail(de_kernel)) = 0
    BY <2>1
  <2> QED BY <2>1, <2>2
<1>5. /\ a_memoria' \in Seq(Mensaje)
      /\ Uno(a_memoria', "OBTENER_CONTEXTO")
      /\ \A op : op # "OBTENER_CONTEXTO" =>
           /\ Sin(a_memoria, op) <=> Sin(a_memoria', op)
           /\ Uno(a_memoria, op) => Uno(a_memoria', op)
           /\ \A h, n : De(a_memoria, op, h, n) => De(a_memoria', op, h, n)
  BY <1>0, <1>1, <1>2, <1>3, Agrega
<1>6. Tipos' /\ InstruccionDelPC'
  <2>1. de_kernel' \in Seq(Hilos)
    BY <1>4
  <2> QED BY <1>0, <1>5, <2>1 DEF IInv, Tipos, InstruccionDelPC
<1>7. Despachos'
  BY <1>0, <1>3, <1>4, <1>5 DEF IInv, Despachos, Ficha, Ninguna
<1>8. Instrucciones'
  BY <1>0, <1>5 DEF IInv, Instrucciones, Ficha, Ninguna, DelCiclo, EnPrograma
<1>9. Guardados'
  BY <1>0, <1>5 DEF IInv, Guardados, Ficha, Ninguna, DelCiclo
<1> QED BY <1>6, <1>7, <1>8, <1>9 DEF IInv

\* The listener of memoria takes what is at the head of its socket.
LEMMA PasoEscuchaMemoria == ASSUME IInv, EscuchaMemoria PROVE IInv'
<1> DEFINE c == Head(de_memoria)
<1>0. /\ viva /\ de_memoria # << >> /\ de_memoria' = Tail(de_memoria)
      /\ UNCHANGED <<actual, viva, contextos, a_memoria, de_kernel>>
  BY DEF EscuchaMemoria, ReciboContexto, RecibirInstruccionDeMemoria, ConfirmarContexto,
         Descartar, Recibe
<1>1. de_memoria \in Seq(Mensaje)
  BY DEF IInv, Tipos
<1>2. /\ de_memoria' \in Seq(Mensaje) /\ c \in Mensaje
      /\ \A op :
           /\ Sin(de_memoria, op) => Sin(de_memoria', op)
           /\ Uno(de_memoria, op) => Uno(de_memoria', op)
           /\ \A h, n : De(de_memoria, op, h, n) => De(de_memoria', op, h, n)
           /\ c.op = op => ~Sin(de_memoria, op)
           /\ c.op = op /\ Uno(de_memoria, op) => Sin(de_memoria', op)
           /\ c.op = op => \A h, n : De(de_memoria, op, h, n) => c.hilo = h /\ c.n = n
  BY <1>0, <1>1, Saca
<1>3. c.hilo \in Hilos /\ c.n \in Nat
  BY <1>2 DEF Mensaje
<1> HIDE DEF c
<1>4. CASE ReciboContexto
  <2>1. /\ c.op = "ENVIAR_CONTEXTO" /\ parteActual' = Parte[c.hilo]
        /\ ciclo' = [fase |-> "ciclo", hilo |-> c.hilo, pc |-> c.n, inst |-> Nada]
        /\ UNCHANGED <<instruccionActual, sem_instruccion, sem_syscall>>
    BY <1>4 DEF ReciboContexto, Recibe, c
  <2>2. ~Sin(de_memoria, "ENVIAR_CONTEXTO")
    BY <1>2, <2>1
  <2>3. /\ ciclo.fase = "sin hilo" /\ de_kernel = << >> /\ Sin(a_memoria, "OBTENER_CONTEXTO")
        /\ Sin(de_memoria', "ENVIAR_CONTEXTO") /\ Uno(de_memoria', "ENVIAR_CONTEXTO")
    BY <1>0, <1>2, <2>1, <2>2 DEF IInv, Despachos, Ficha, Ninguna
  <2>4. /\ sem_instruccion = 0 /\ Ninguna("OBTENER_INSTRUCCION", "ENVIAR_INSTRUCCION")
        /\ sem_syscall = 0 /\ Ninguna("ACTUALIZAR_CONTEXTO", "CONFIRMAR_CONTEXTO_ACTUALIZADO")
    BY <1>0, <2>3 DEF IInv, Instrucciones, Guardados
  <2>5. parteActual' \in Limites
    BY <1>3, <2>1, ConfiguracionCpu DEF Limites
  <2>6. ciclo'.fase = "ciclo" /\ ciclo'.hilo = c.hilo /\ ciclo'.pc = c.n
    BY <2>1
  <2>7. ciclo' \in [fase : Fases, hilo : Hilos \cup {Nada}, pc : Nat,
                    inst : Instruccion \cup {Nada}]
    BY <1>3, <2>1 DEF Fases
  <2>8. Tipos' /\ InstruccionDelPC'
    BY <1>0, <1>2, <1>3, <2>1, <2>5, <2>6, <2>7 DEF IInv, Tipos, InstruccionDelPC
  <2>9. Despachos'
    BY <1>0, <2>3 DEF IInv, Despachos, Ficha, Ninguna
  <2>10. \A op, h, n : Sin(a_memoria, op) => De(a_memoria, op, h, n)
    BY DEF Sin, De
  <2>11. \A op, h, n : Sin(de_memoria', op) => De(de_memoria', op, h, n)
    BY DEF Sin, De
  <2>12. Instrucciones'
    BY <1>0, <1>2, <2>1, <2>4, <2>10, <2>11 DEF IInv, Instrucciones, Ficha, Ninguna, DelCiclo
  <2>13. Guardados'
    BY <1>0, <1>2, <2>1, <2>4, <2>10, <2>11 DEF IInv, Guardados, Ficha, Ninguna, DelCiclo
  <2> QED BY <2>8, <2>9, <2>12, <2>13 DEF IInv
<1>5. CASE RecibirInstruccionDeMemoria
  <2>1. /\ c.op = "ENVIAR_INSTRUCCION" /\ instruccionActual' = Programa[c.hilo][c.n + 1]
        /\ sem_instruccion' = sem_instruccion + 1
        /\ UNCHANGED <<sem_syscall, parteActual, ciclo>>
    BY <1>5 DEF RecibirInstruccionDeMemoria, Recibe, c
  <2>2. ~Sin(de_memoria, "ENVIAR_INSTRUCCION")
    BY <1>2, <2>1
  <2>3. /\ ciclo.fase = "fetch" /\ EnPrograma /\ sem_instruccion = 0
        /\ Sin(a_memoria, "OBTENER_INSTRUCCION") /\ Sin(de_memoria', "ENVIAR_INSTRUCCION")
        /\ c.hilo = ciclo.hilo /\ c.n = ciclo.pc
    BY <1>0, <1>2, <2>1, <2>2 DEF IInv, Instrucciones, Ficha, Ninguna, DelCiclo
  <2>4. Tipos' /\ InstruccionDelPC'
    BY <1>0, <1>2, <2>1, <2>3 DEF IInv, Tipos, InstruccionDelPC
  <2>5. Despachos'
    BY <1>0, <1>2, <2>1 DEF IInv, Despachos, Ficha, Ninguna
  <2>6. Instrucciones'
    BY <1>0, <1>2, <2>1, <2>3 DEF IInv, Instrucciones, Ficha, Ninguna, DelCiclo, EnPrograma
  <2>7. Guardados'
    BY <1>0, <1>2, <2>1 DEF IInv, Guardados, Ficha, Ninguna, DelCiclo
  <2> QED BY <2>4, <2>5, <2>6, <2>7 DEF IInv
<1>6. CASE ConfirmarContexto
  <2>1. /\ c.op = "CONFIRMAR_CONTEXTO_ACTUALIZADO" /\ sem_syscall' = sem_syscall + 1
        /\ UNCHANGED <<instruccionActual, sem_instruccion, parteActual, ciclo>>
    BY <1>6 DEF ConfirmarContexto, Recibe, c
  <2>2. ~Sin(de_memoria, "CONFIRMAR_CONTEXTO_ACTUALIZADO")
    BY <1>2, <2>1
  <2>3. /\ ciclo.fase = "sem_syscall" /\ sem_syscall = 0 /\ contextos[ciclo.hilo] = ciclo.pc
        /\ Sin(a_memoria, "ACTUALIZAR_CONTEXTO")
        /\ Sin(de_memoria', "CONFIRMAR_CONTEXTO_ACTUALIZADO")
    BY <1>0, <1>2, <2>1, <2>2 DEF IInv, Guardados, Ficha, Ninguna
  <2>4. Tipos' /\ InstruccionDelPC'
    BY <1>0, <1>2, <2>1, <2>3 DEF IInv, Tipos, InstruccionDelPC
  <2>5. Despachos'
    BY <1>0, <1>2, <2>1 DEF IInv, Despachos, Ficha, Ninguna
  <2>6. Instrucciones'
    BY <1>0, <1>2, <2>1 DEF IInv, Instrucciones, Ficha, Ninguna, DelCiclo, EnPrograma
  <2>7. Guardados'
    BY <1>0, <1>2, <2>1, <2>3 DEF IInv, Guardados, Ficha, Ninguna, DelCiclo
  <2> QED BY <2>4, <2>5, <2>6, <2>7 DEF IInv
<1>7. CASE Descartar
  <2>1. UNCHANGED <<instruccionActual, sem_instruccion, sem_syscall, parteActual, ciclo>>
    BY <1>7 DEF Descartar
  <2>4. Tipos' /\ InstruccionDelPC'
    BY <1>0, <1>2, <2>1 DEF IInv, Tipos, InstruccionDelPC
  <2>5. Despachos'
    BY <1>0, <1>2, <2>1 DEF IInv, Despachos, Ficha, Ninguna
  <2>6. Instrucciones'
    BY <1>0, <1>2, <2>1 DEF IInv, Instrucciones, Ficha, Ninguna, DelCiclo, EnPrograma
  <2>7. Guardados'
    BY <1>0, <1>2, <2>1 DEF IInv, Guardados, Ficha, Ninguna, DelCiclo
  <2> QED BY <2>4, <2>5, <2>6, <2>7 DEF IInv
<1> QED BY <1>4, <1>5, <1>6, <1>7 DEF EscuchaMemoria

-----------------------------------------------------------------------------
(* The cycle *)

\* The token is with the cycle: nobody owes it anything.
Quieto ==
  /\ de_kernel = << >> /\ sem_instruccion = 0 /\ sem_syscall = 0
  /\ Ninguna("OBTENER_CONTEXTO", "ENVIAR_CONTEXTO")
  /\ Ninguna("OBTENER_INSTRUCCION", "ENVIAR_INSTRUCCION")
  /\ Ninguna("ACTUALIZAR_CONTEXTO", "CONFIRMAR_CONTEXTO_ACTUALIZADO")

LEMMA EnElCiclo ==
  ASSUME IInv, viva, ciclo.fase \in {"ciclo", "execute", "recv"}
  PROVE  Quieto
BY DEF IInv, Quieto, Despachos, Instrucciones, Guardados

LEMMA QuietoBasta == ASSUME Quieto' PROVE Despachos' /\ Instrucciones' /\ Guardados'
<1>1. /\ \A op : Sin(a_memoria', op) => Uno(a_memoria', op)
      /\ \A op : Sin(de_memoria', op) => Uno(de_memoria', op)
  BY DEF Sin, Uno
<1>2. /\ \A op, h, n : Sin(a_memoria', op) => De(a_memoria', op, h, n)
      /\ \A op, h, n : Sin(de_memoria', op) => De(de_memoria', op, h, n)
  BY DEF Sin, De
<1>3. Despachos'
  BY <1>1 DEF Quieto, Despachos, Ficha, Ninguna
<1>4. Instrucciones'
  BY <1>1, <1>2 DEF Quieto, Instrucciones, Ficha, Ninguna, DelCiclo
<1>5. Guardados'
  BY <1>1, <1>2 DEF Quieto, Guardados, Ficha, Ninguna, DelCiclo
<1> QED BY <1>3, <1>4, <1>5

\* Where the cycle goes, and that its types and what it executes are as they should.
LEMMA CicloTipos ==
  ASSUME IInv, viva, ciclo.fase # "sin hilo",
         a_memoria' \in Seq(Mensaje), de_memoria' \in Seq(Mensaje),
         NEW fase \in Fases \ {"sin hilo", "execute"}, NEW pc \in Nat,
         ciclo' = [ciclo EXCEPT !.fase = fase, !.pc = pc],
         sem_instruccion' \in Nat, sem_syscall' \in Nat,
         UNCHANGED <<de_kernel, contextos, parteActual>>
  PROVE  /\ Tipos' /\ InstruccionDelPC'
         /\ ciclo'.fase = fase /\ ciclo'.pc = pc /\ ciclo'.hilo = ciclo.hilo
<1>1. ciclo \in [fase : Fases, hilo : Hilos \cup {Nada}, pc : Nat,
                 inst : Instruccion \cup {Nada}]
  BY DEF IInv, Tipos
<1>2. /\ ciclo' \in [fase : Fases, hilo : Hilos \cup {Nada}, pc : Nat,
                     inst : Instruccion \cup {Nada}]
      /\ ciclo'.fase = fase /\ ciclo'.pc = pc /\ ciclo'.hilo = ciclo.hilo
  BY <1>1
<1>3. Tipos'
  BY <1>2 DEF IInv, Tipos
<1>4. InstruccionDelPC'
  BY <1>2 DEF InstruccionDelPC
<1> QED BY <1>2, <1>3, <1>4

LEMMA PasoFetch == ASSUME IInv, Fetch PROVE IInv'
<1>0. /\ viva /\ ciclo.fase = "ciclo"
      /\ UNCHANGED <<instruccionActual, sem_instruccion, sem_syscall, parteActual, viva,
                     contextos, de_memoria, de_kernel>>
  BY DEF Fetch, En, compartido
<1>1. Quieto
  BY <1>0, EnElCiclo
<1>2. /\ a_memoria \in Seq(Mensaje) /\ de_memoria \in Seq(Mensaje)
      /\ sem_instruccion \in Nat /\ sem_syscall \in Nat
      /\ ciclo.hilo \in Hilos /\ ciclo.pc \in Nat
      /\ ciclo \in [fase : Fases, hilo : Hilos \cup {Nada}, pc : Nat,
                     inst : Instruccion \cup {Nada}]
  BY <1>0 DEF IInv, Tipos
<1>3. CASE ciclo' = [ciclo EXCEPT !.fase = "fin"] /\ UNCHANGED a_memoria
  <2>1. ciclo' = [ciclo EXCEPT !.fase = "fin", !.pc = ciclo.pc]
    BY <1>2, <1>3
  <2>2. Tipos' /\ InstruccionDelPC'
    BY <1>0, <1>2, <1>3, <2>1, CicloTipos DEF Fases
  <2>3. Quieto'
    BY <1>0, <1>1, <1>3 DEF Quieto, Ninguna
  <2> QED BY <2>2, <2>3, QuietoBasta DEF IInv
<1>4. CASE /\ ciclo' = [ciclo EXCEPT !.fase = "fetch"]
           /\ a_memoria' = Append(a_memoria, Msg("OBTENER_INSTRUCCION", ciclo.hilo, ciclo.pc))
  <2> DEFINE m == Msg("OBTENER_INSTRUCCION", ciclo.hilo, ciclo.pc)
  <2>1. /\ m \in Mensaje /\ m.op = "OBTENER_INSTRUCCION"
        /\ m.hilo = ciclo.hilo /\ m.n = ciclo.pc
    BY <1>2 DEF Msg, Mensaje
  <2>2. a_memoria' = Append(a_memoria, m)
    BY <1>4
  <2> HIDE DEF m
  <2>3. /\ a_memoria' \in Seq(Mensaje)
        /\ \A op : op # "OBTENER_INSTRUCCION" => (Sin(a_memoria, op) <=> Sin(a_memoria', op))
    BY <1>2, <2>1, <2>2, Agrega
  <2>4. /\ Uno(a_memoria', "OBTENER_INSTRUCCION")
        /\ De(a_memoria', "OBTENER_INSTRUCCION", ciclo.hilo, ciclo.pc)
    BY <1>1, <1>2, <2>1, <2>2, Agrega DEF Quieto, Ninguna
  <2>5. ciclo' = [ciclo EXCEPT !.fase = "fetch", !.pc = ciclo.pc]
    BY <1>2, <1>4
  <2>6. /\ Tipos' /\ InstruccionDelPC'
        /\ ciclo'.fase = "fetch" /\ ciclo'.pc = ciclo.pc /\ ciclo'.hilo = ciclo.hilo
    BY <1>0, <1>2, <2>3, <2>5, CicloTipos DEF Fases
  <2>7. /\ \A op : Sin(a_memoria', op) => Uno(a_memoria', op)
        /\ \A op : Sin(de_memoria, op) => Uno(de_memoria, op)
    BY DEF Sin, Uno
  <2>8. /\ \A op, h, n : Sin(a_memoria', op) => De(a_memoria', op, h, n)
        /\ \A op, h, n : Sin(de_memoria, op) => De(de_memoria, op, h, n)
    BY DEF Sin, De
  <2>9. Despachos'
    BY <1>0, <1>1, <2>3, <2>7 DEF Quieto, Despachos, Ficha, Ninguna
  <2>10. Instrucciones'
    BY <1>0, <1>1, <2>4, <2>6, <2>7, <2>8 DEF Quieto, Instrucciones, Ficha, Ninguna, DelCiclo
  <2>11. Guardados'
    BY <1>0, <1>1, <2>3, <2>7, <2>8 DEF Quieto, Guardados, Ficha, Ninguna, DelCiclo
  <2> QED BY <2>6, <2>9, <2>10, <2>11 DEF IInv
<1> QED BY <1>3, <1>4 DEF Fetch

LEMMA PasoDecode == ASSUME IInv, Decode PROVE IInv'
<1>0. /\ viva /\ ciclo.fase = "fetch" /\ sem_instruccion # 0
      /\ sem_instruccion' = sem_instruccion - 1 /\ instruccionActual # Nada
      /\ ciclo' = [ciclo EXCEPT !.fase = "execute", !.inst = instruccionActual]
      /\ UNCHANGED <<instruccionActual, sem_syscall, parteActual, viva, contextos, a_memoria,
                     de_memoria, de_kernel>>
  BY DEF Decode, Decodificar, En
<1>1. /\ sem_instruccion = 1 /\ EnPrograma
      /\ instruccionActual = Programa[ciclo.hilo][ciclo.pc + 1]
      /\ Ninguna("OBTENER_INSTRUCCION", "ENVIAR_INSTRUCCION")
  BY <1>0 DEF IInv, Instrucciones
<1>2. /\ ciclo \in [fase : Fases, hilo : Hilos \cup {Nada}, pc : Nat,
                     inst : Instruccion \cup {Nada}]
      /\ ciclo.hilo \in Hilos
  BY <1>0 DEF IInv, Tipos
<1>3. instruccionActual \in Instruccion
  <2>1. Programa[ciclo.hilo] \in Seq(Instruccion)
    BY <1>2, ConfiguracionCpu
  <2>2. ciclo.pc + 1 \in 1 .. Len(Programa[ciclo.hilo])
    BY <1>1, <1>2, <2>1 DEF EnPrograma
  <2> QED BY <1>1, <2>1, <2>2
<1>4. /\ ciclo' \in [fase : Fases, hilo : Hilos \cup {Nada}, pc : Nat,
                     inst : Instruccion \cup {Nada}]
      /\ ciclo'.fase = "execute" /\ ciclo'.inst = instruccionActual
      /\ ciclo'.hilo = ciclo.hilo /\ ciclo'.pc = ciclo.pc
  BY <1>0, <1>2, <1>3 DEF Fases
<1>5. Tipos' /\ InstruccionDelPC'
  BY <1>0, <1>1, <1>3, <1>4 DEF IInv, Tipos, InstruccionDelPC
<1>6. Quieto'
  <2>1. sem_syscall = 0 /\ Ninguna("ACTUALIZAR_CONTEXTO", "CONFIRMAR_CONTEXTO_ACTUALIZADO")
    BY <1>0 DEF IInv, Guardados
  <2>2. de_kernel = << >> /\ Ninguna("OBTENER_CONTEXTO", "ENVIAR_CONTEXTO")
    BY <1>0 DEF IInv, Despachos
  <2> QED BY <1>0, <1>1, <2>1, <2>2 DEF Quieto, Ninguna
<1> QED BY <1>5, <1>6, QuietoBasta DEF IInv

LEMMA PasoSyscall == ASSUME IInv, ExecuteSyscall PROVE IInv'
<1> DEFINE m == Msg("ACTUALIZAR_CONTEXTO", ciclo.hilo, ciclo.pc + 1)
<1>0. /\ viva /\ ciclo.fase = "execute" /\ a_memoria' = Append(a_memoria, m)
      /\ ciclo' = [ciclo EXCEPT !.fase = "sem_syscall", !.pc = @ + 1]
      /\ UNCHANGED <<instruccionActual, sem_instruccion, sem_syscall, parteActual, viva,
                     contextos, de_memoria, de_kernel>>
  BY DEF ExecuteSyscall, Ejecuta, En, Avanzar, ActualizarContexto, compartido
<1>1. Quieto
  BY <1>0, EnElCiclo
<1>2. /\ a_memoria \in Seq(Mensaje) /\ de_memoria \in Seq(Mensaje)
      /\ sem_instruccion \in Nat /\ sem_syscall \in Nat
      /\ ciclo.hilo \in Hilos /\ ciclo.pc \in Nat
  BY <1>0 DEF IInv, Tipos
<1>3. m \in Mensaje /\ m.op = "ACTUALIZAR_CONTEXTO" /\ m.hilo = ciclo.hilo /\ m.n = ciclo.pc + 1
  BY <1>2 DEF Msg, Mensaje
<1> HIDE DEF m
<1>4. /\ a_memoria' \in Seq(Mensaje)
      /\ \A op : op # "ACTUALIZAR_CONTEXTO" => (Sin(a_memoria, op) <=> Sin(a_memoria', op))
  BY <1>0, <1>2, <1>3, Agrega
<1>5. /\ Uno(a_memoria', "ACTUALIZAR_CONTEXTO")
      /\ De(a_memoria', "ACTUALIZAR_CONTEXTO", ciclo.hilo, ciclo.pc + 1)
  BY <1>0, <1>1, <1>2, <1>3, Agrega DEF Quieto, Ninguna
<1>6. /\ Tipos' /\ InstruccionDelPC'
      /\ ciclo'.fase = "sem_syscall" /\ ciclo'.pc = ciclo.pc + 1 /\ ciclo'.hilo = ciclo.hilo
  <2>1. ciclo' = [ciclo EXCEPT !.fase = "sem_syscall", !.pc = ciclo.pc + 1]
    BY <1>0
  <2>2. "sem_syscall" \in Fases \ {"sin hilo", "execute"} /\ ciclo.pc + 1 \in Nat
    BY <1>2 DEF Fases
  <2> QED BY <1>0, <1>2, <1>4, <2>1, <2>2, CicloTipos
<1>7. /\ \A op : Sin(a_memoria', op) => Uno(a_memoria', op)
      /\ \A op : Sin(de_memoria, op) => Uno(de_memoria, op)
  BY DEF Sin, Uno
<1>8. /\ \A op, h, n : Sin(a_memoria', op) => De(a_memoria', op, h, n)
      /\ \A op, h, n : Sin(de_memoria, op) => De(de_memoria, op, h, n)
  BY DEF Sin, De
<1>9. Despachos'
  BY <1>0, <1>1, <1>4, <1>7 DEF Quieto, Despachos, Ficha, Ninguna
<1>10. Instrucciones'
  BY <1>0, <1>1, <1>4, <1>7, <1>8 DEF Quieto, Instrucciones, Ficha, Ninguna, DelCiclo
<1>11. Guardados'
  BY <1>0, <1>1, <1>5, <1>6, <1>7, <1>8 DEF Quieto, Guardados, Ficha, Ninguna, DelCiclo
<1> QED BY <1>6, <1>9, <1>10, <1>11 DEF IInv

LEMMA PasoEnviar == ASSUME IInv, EnviarSyscall PROVE IInv'
<1>0. /\ viva /\ ciclo.fase = "sem_syscall" /\ sem_syscall # 0
      /\ sem_syscall' = sem_syscall - 1 /\ ciclo' = [ciclo EXCEPT !.fase = "ciclo"]
      /\ UNCHANGED <<instruccionActual, sem_instruccion, parteActual, viva, contextos,
                     a_memoria, de_memoria, de_kernel>>
  BY DEF EnviarSyscall, EnviarYParar, En
<1>1. sem_syscall = 1 /\ Ninguna("ACTUALIZAR_CONTEXTO", "CONFIRMAR_CONTEXTO_ACTUALIZADO")
  BY <1>0 DEF IInv, Guardados
<1>2. sem_instruccion = 0 /\ Ninguna("OBTENER_INSTRUCCION", "ENVIAR_INSTRUCCION")
  BY <1>0 DEF IInv, Instrucciones
<1>3. de_kernel = << >> /\ Ninguna("OBTENER_CONTEXTO", "ENVIAR_CONTEXTO")
  BY <1>0 DEF IInv, Despachos
<1>4. Quieto'
  BY <1>0, <1>1, <1>2, <1>3 DEF Quieto, Ninguna
<1>5. Tipos' /\ InstruccionDelPC'
  <2>1. /\ ciclo \in [fase : Fases, hilo : Hilos \cup {Nada}, pc : Nat,
                       inst : Instruccion \cup {Nada}]
        /\ a_memoria \in Seq(Mensaje) /\ de_memoria \in Seq(Mensaje) /\ ciclo.pc \in Nat
    BY DEF IInv, Tipos
  <2>2. ciclo' = [ciclo EXCEPT !.fase = "ciclo", !.pc = ciclo.pc]
    BY <1>0, <2>1
  <2>3. sem_instruccion' \in Nat /\ sem_syscall' \in Nat
    BY <1>0, <1>1, <1>2
  <2> QED BY <1>0, <2>1, <2>2, <2>3, CicloTipos DEF Fases
<1> QED BY <1>4, <1>5, QuietoBasta DEF IInv

\* Messages that are nobody's token: what goes on in WRITE_MEM and READ_MEM.
LEMMA Acceso ==
  ASSUME Quieto, a_memoria \in Seq(Mensaje), NEW m \in Mensaje,
         m.op \in {"WRITE_MEM", "READ_MEM"}, a_memoria' = Append(a_memoria, m),
         UNCHANGED <<de_memoria, de_kernel, sem_instruccion, sem_syscall>>
  PROVE  Quieto' /\ a_memoria' \in Seq(Mensaje)
<1>1. /\ a_memoria' \in Seq(Mensaje)
      /\ \A op : op \notin {"WRITE_MEM", "READ_MEM"} =>
           (Sin(a_memoria, op) <=> Sin(a_memoria', op))
  BY Agrega
<1> QED BY <1>1 DEF Quieto, Ninguna

LEMMA Direccion ==
  ASSUME IInv, ciclo.fase = "execute"
  PROVE  DireccionFisica \in Nat
<1>1. parteActual \in Limites /\ ciclo.inst \in Instruccion
  BY DEF IInv, Tipos
<1>2. parteActual.base \in Int /\ ciclo.inst.dir \in Int
  BY <1>1, ConfiguracionCpu DEF Limites, Instruccion
<1> QED BY <1>2, ConfiguracionCpu DEF DireccionFisica

\* The instructions that leave nothing owed.
LEMMA PasoSinEspera ==
  ASSUME IInv,
         ExecuteRegistros \/ ExecuteDesconocida \/ WriteMem \/ ReadMem \/ LeerDesdeMemoria
  PROVE  IInv'
<1>0. /\ viva /\ ciclo.fase \in {"execute", "recv"}
      /\ UNCHANGED <<instruccionActual, sem_instruccion, sem_syscall, parteActual, viva,
                     contextos, de_kernel>>
  BY DEF ExecuteRegistros, ExecuteDesconocida, WriteMem, ReadMem, LeerDesdeMemoria, Ejecuta, En,
         compartido
<1>1. Quieto
  BY <1>0, EnElCiclo
<1>2. /\ a_memoria \in Seq(Mensaje) /\ de_memoria \in Seq(Mensaje)
      /\ sem_instruccion \in Nat /\ sem_syscall \in Nat
      /\ ciclo.hilo \in Hilos /\ ciclo.pc \in Nat
      /\ ciclo \in [fase : Fases, hilo : Hilos \cup {Nada}, pc : Nat,
                     inst : Instruccion \cup {Nada}]
  BY <1>0 DEF IInv, Tipos
<1>3. PICK fase \in {"ciclo", "recv"}, pc \in Nat :
        ciclo' = [ciclo EXCEPT !.fase = fase, !.pc = pc]
  <2>1. CASE ExecuteRegistros \/ WriteMem \/ LeerDesdeMemoria
    <3>1. ciclo' = [ciclo EXCEPT !.fase = "ciclo", !.pc = ciclo.pc + 1]
      BY <2>1 DEF ExecuteRegistros, WriteMem, LeerDesdeMemoria, Avanzar
    <3>2. ciclo.pc + 1 \in Nat
      BY <1>2
    <3> QED BY <3>1, <3>2
  <2>2. CASE ExecuteDesconocida
    <3>1. ciclo' = [ciclo EXCEPT !.fase = "ciclo", !.pc = ciclo.pc]
      BY <1>2, <2>2 DEF ExecuteDesconocida
    <3> QED BY <1>2, <3>1
  <2>3. CASE ReadMem
    <3>1. ciclo' = [ciclo EXCEPT !.fase = "recv", !.pc = ciclo.pc]
      BY <1>2, <2>3 DEF ReadMem
    <3> QED BY <1>2, <3>1
  <2> QED BY <2>1, <2>2, <2>3
<1>4. Quieto' /\ a_memoria' \in Seq(Mensaje) /\ de_memoria' \in Seq(Mensaje)
  <2>1. CASE ExecuteRegistros \/ ExecuteDesconocida
    <3>1. UNCHANGED <<a_memoria, de_memoria>>
      BY <2>1 DEF ExecuteRegistros, ExecuteDesconocida
    <3> QED BY <1>0, <1>1, <1>2, <3>1 DEF Quieto, Ninguna
  <2>2. CASE WriteMem \/ ReadMem
    <3>1. PICK op \in {"WRITE_MEM", "READ_MEM"} :
            a_memoria' = Append(a_memoria, Msg(op, ciclo.hilo, DireccionFisica))
      BY <2>2 DEF WriteMem, ReadMem
    <3>2. de_memoria' = de_memoria /\ ciclo.fase = "execute"
      BY <2>2 DEF WriteMem, ReadMem, Ejecuta, En
    <3> DEFINE m == Msg(op, ciclo.hilo, DireccionFisica)
    <3>3. m \in Mensaje /\ m.op = op
      BY <1>2, <3>2, Direccion DEF Msg, Mensaje
    <3>4. a_memoria' = Append(a_memoria, m)
      BY <3>1
    <3> HIDE DEF m
    <3> QED BY <1>0, <1>1, <1>2, <3>2, <3>3, <3>4, Acceso
  <2>3. CASE LeerDesdeMemoria
    <3>1. /\ a_memoria' = a_memoria /\ de_memoria # << >>
          /\ de_memoria' = de_memoria \/ de_memoria' = Tail(de_memoria)
      BY <2>3 DEF LeerDesdeMemoria
    <3>2. CASE de_memoria' = de_memoria
      BY <1>0, <1>1, <1>2, <3>1, <3>2 DEF Quieto, Ninguna
    <3>3. CASE de_memoria' = Tail(de_memoria)
      <4>1. /\ de_memoria' \in Seq(Mensaje)
            /\ \A op : Sin(de_memoria, op) => Sin(de_memoria', op)
        BY <1>2, <3>1, <3>3, Saca
      <4> QED BY <1>0, <1>1, <1>2, <3>1, <4>1 DEF Quieto, Ninguna
    <3> QED BY <3>1, <3>2, <3>3
  <2> QED BY <2>1, <2>2, <2>3
<1>5. Tipos' /\ InstruccionDelPC'
  <2>1. fase \in Fases \ {"sin hilo", "execute"}
    BY DEF Fases
  <2> QED BY <1>0, <1>2, <1>3, <1>4, <2>1, CicloTipos
<1> QED BY <1>4, <1>5, QuietoBasta DEF IInv

\* The process ends: what is left is for memoria.
LEMMA PasoFin == ASSUME IInv, ExecuteJnz \/ SegmentationFault PROVE IInv'
<1>0. /\ viva' = FALSE /\ ciclo.fase = "execute"
      /\ UNCHANGED <<sem_instruccion, sem_syscall, parteActual, ciclo, contextos, de_memoria,
                     de_kernel>>
  BY DEF ExecuteJnz, SegmentationFault, AccedeAMemoria, Ejecuta, En, compartido
<1>1. a_memoria \in Seq(Mensaje) /\ ciclo.hilo \in Hilos /\ ciclo.pc \in Nat
  BY <1>0 DEF IInv, Tipos
<1>2. a_memoria' \in Seq(Mensaje)
  <2>1. CASE ExecuteJnz
    BY <1>1, <2>1 DEF ExecuteJnz
  <2>2. CASE SegmentationFault
    <3>1. Msg("ACTUALIZAR_CONTEXTO", ciclo.hilo, ciclo.pc) \in Mensaje
      BY <1>1 DEF Msg, Mensaje
    <3>2. a_memoria' = Append(a_memoria, Msg("ACTUALIZAR_CONTEXTO", ciclo.hilo, ciclo.pc))
      BY <2>2 DEF SegmentationFault, ActualizarContexto
    <3> QED BY <1>1, <3>1, <3>2, Agrega
  <2> QED BY <2>1, <2>2
<1>3. Tipos' /\ InstruccionDelPC'
  BY <1>0, <1>2 DEF IInv, Tipos, InstruccionDelPC
<1> QED BY <1>0, <1>3 DEF IInv

-----------------------------------------------------------------------------
(* Memoria *)

\* It takes a message and sends one or none, about the same thread and with a number that
\* is one of the answers for that message.
LEMMA PasoMemoria == ASSUME IInv, Memoria PROVE IInv'
<1> DEFINE c == Head(a_memoria)
<1>0. /\ a_memoria # << >> /\ a_memoria' = Tail(a_memoria)
      /\ UNCHANGED <<instruccionActual, sem_instruccion, sem_syscall, parteActual, ciclo, viva,
                     de_kernel>>
  BY DEF Memoria, DevolverContextoEjecucion, ActualizarContextoDeEjecucion, ObtenerInstruccion,
         AccesoAMemoria, EscucharCpu, compartido
<1>1. a_memoria \in Seq(Mensaje) /\ de_memoria \in Seq(Mensaje) /\ contextos \in [Hilos -> Nat]
  BY DEF IInv, Tipos
<1>2. /\ a_memoria' \in Seq(Mensaje) /\ c \in Mensaje
      /\ \A op :
           /\ Sin(a_memoria, op) => Sin(a_memoria', op)
           /\ Uno(a_memoria, op) => Uno(a_memoria', op)
           /\ \A h, n : De(a_memoria, op, h, n) => De(a_memoria', op, h, n)
           /\ c.op = op => ~Sin(a_memoria, op)
           /\ c.op = op /\ Uno(a_memoria, op) => Sin(a_memoria', op)
           /\ c.op = op => \A h, n : De(a_memoria, op, h, n) => c.hilo = h /\ c.n = n
  BY <1>0, <1>1, Saca
<1>3. c.hilo \in Hilos /\ c.n \in Nat
  BY <1>2 DEF Mensaje
<1>4. InstruccionDelPC'
  BY <1>0 DEF IInv, InstruccionDelPC
<1>5. ASSUME de_memoria' \in Seq(Mensaje), contextos' \in [Hilos -> Nat] PROVE Tipos'
  BY <1>0, <1>2, <1>5 DEF IInv, Tipos
<1>s. \A op : Sin(de_memoria, op) => Uno(de_memoria, op)
  BY DEF Sin, Uno
<1>6. CASE DevolverContextoEjecucion
  <2> DEFINE m == Msg("ENVIAR_CONTEXTO", c.hilo, contextos[c.hilo])
  <2>1. c.op = "OBTENER_CONTEXTO" /\ de_memoria' = Append(de_memoria, m) /\ contextos' = contextos
    BY <1>6 DEF DevolverContextoEjecucion, EscucharCpu
  <2>2. m \in Mensaje /\ m.op = "ENVIAR_CONTEXTO"
    BY <1>1, <1>3 DEF Msg, Mensaje
  <2> HIDE DEF m, c
  <2>3. /\ de_memoria' \in Seq(Mensaje)
        /\ \A op : op # "ENVIAR_CONTEXTO" =>
             /\ Sin(de_memoria, op) <=> Sin(de_memoria', op)
             /\ Uno(de_memoria, op) => Uno(de_memoria', op)
             /\ \A h, n : De(de_memoria, op, h, n) => De(de_memoria', op, h, n)
        /\ Sin(de_memoria, "ENVIAR_CONTEXTO") => Uno(de_memoria', "ENVIAR_CONTEXTO")
    BY <1>1, <2>1, <2>2, Agrega
  <2>4. Tipos'
    BY <1>1, <1>5, <2>1, <2>3
  <2> SUFFICES ASSUME viva PROVE Despachos' /\ Instrucciones' /\ Guardados'
    BY <1>0, <1>4, <2>4 DEF IInv
  <2>5. ~Sin(a_memoria, "OBTENER_CONTEXTO")
    BY <1>2, <2>1
  <2>6. /\ Sin(de_memoria, "ENVIAR_CONTEXTO") /\ ciclo.fase = "sin hilo" /\ de_kernel = << >>
        /\ Sin(a_memoria', "OBTENER_CONTEXTO")
    BY <1>2, <2>1, <2>5 DEF IInv, Despachos, Ficha, Ninguna
  <2>7. Despachos'
    BY <1>0, <1>2, <2>3, <2>6 DEF IInv, Despachos, Ficha, Ninguna
  <2>8. Instrucciones'
    BY <1>0, <1>2, <2>3 DEF IInv, Instrucciones, Ficha, Ninguna, DelCiclo, EnPrograma
  <2>9. Guardados'
    BY <1>0, <1>2, <2>1, <2>3 DEF IInv, Guardados, Ficha, Ninguna, DelCiclo
  <2> QED BY <2>7, <2>8, <2>9
<1>7. CASE ActualizarContextoDeEjecucion
  <2> DEFINE m == Msg("CONFIRMAR_CONTEXTO_ACTUALIZADO", c.hilo, 1)
  <2>1. /\ c.op = "ACTUALIZAR_CONTEXTO" /\ de_memoria' = Append(de_memoria, m)
        /\ contextos' = [contextos EXCEPT ![c.hilo] = c.n]
    BY <1>7 DEF ActualizarContextoDeEjecucion, EscucharCpu
  <2>2. m \in Mensaje /\ m.op = "CONFIRMAR_CONTEXTO_ACTUALIZADO"
    BY <1>3 DEF Msg, Mensaje
  <2> HIDE DEF m, c
  <2>3. /\ de_memoria' \in Seq(Mensaje)
        /\ \A op : op # "CONFIRMAR_CONTEXTO_ACTUALIZADO" =>
             /\ Sin(de_memoria, op) <=> Sin(de_memoria', op)
             /\ Uno(de_memoria, op) => Uno(de_memoria', op)
             /\ \A h, n : De(de_memoria, op, h, n) => De(de_memoria', op, h, n)
        /\ Sin(de_memoria, "CONFIRMAR_CONTEXTO_ACTUALIZADO") =>
             Uno(de_memoria', "CONFIRMAR_CONTEXTO_ACTUALIZADO")
    BY <1>1, <2>1, <2>2, Agrega
  <2>4. contextos' \in [Hilos -> Nat] /\ contextos'[c.hilo] = c.n
    BY <1>1, <1>3, <2>1
  <2>5. Tipos'
    BY <1>5, <2>3, <2>4
  <2> SUFFICES ASSUME viva PROVE Despachos' /\ Instrucciones' /\ Guardados'
    BY <1>0, <1>4, <2>5 DEF IInv
  <2>6. ~Sin(a_memoria, "ACTUALIZAR_CONTEXTO")
    BY <1>2, <2>1
  <2>7. /\ Sin(de_memoria, "CONFIRMAR_CONTEXTO_ACTUALIZADO") /\ ciclo.fase = "sem_syscall"
        /\ sem_syscall = 0 /\ Sin(a_memoria', "ACTUALIZAR_CONTEXTO")
        /\ c.hilo = ciclo.hilo /\ c.n = ciclo.pc
    BY <1>2, <2>1, <2>6 DEF IInv, Guardados, Ficha, Ninguna, DelCiclo
  <2>8. Despachos'
    BY <1>0, <1>2, <2>3 DEF IInv, Despachos, Ficha, Ninguna
  <2>9. Instrucciones'
    BY <1>0, <1>2, <2>3 DEF IInv, Instrucciones, Ficha, Ninguna, DelCiclo, EnPrograma
  <2>10. Guardados'
    BY <1>0, <1>2, <2>3, <2>4, <2>7 DEF IInv, Guardados, Ficha, Ninguna, DelCiclo
  <2> QED BY <2>8, <2>9, <2>10
<1>8. CASE ObtenerInstruccion
  <2> DEFINE m == Msg("ENVIAR_INSTRUCCION", c.hilo, c.n)
  <2>1. /\ c.op = "OBTENER_INSTRUCCION" /\ contextos' = contextos
        /\ \/ de_memoria' = de_memoria
           \/ HayInstruccion(c.hilo, c.n) /\ de_memoria' = Append(de_memoria, m)
    BY <1>8 DEF ObtenerInstruccion, EscucharCpu, Responde
  <2>2. m \in Mensaje /\ m.op = "ENVIAR_INSTRUCCION" /\ m.hilo = c.hilo /\ m.n = c.n
    BY <1>3 DEF Msg, Mensaje
  <2> HIDE DEF m, c
  <2>3. CASE de_memoria' = de_memoria
    <3>1. Tipos'
      BY <1>1, <1>5, <2>1, <2>3
    <3>2. viva => Despachos'
      BY <1>0, <1>2, <2>3 DEF IInv, Despachos, Ficha, Ninguna
    <3>3. viva => Instrucciones'
      BY <1>0, <1>2, <2>3 DEF IInv, Instrucciones, Ficha, Ninguna, DelCiclo, EnPrograma
    <3>4. viva => Guardados'
      BY <1>0, <1>2, <2>1, <2>3 DEF IInv, Guardados, Ficha, Ninguna, DelCiclo
    <3> QED BY <1>0, <1>4, <3>1, <3>2, <3>3, <3>4 DEF IInv
  <2>4. CASE HayInstruccion(c.hilo, c.n) /\ de_memoria' = Append(de_memoria, m)
    <3>1. /\ de_memoria' \in Seq(Mensaje)
          /\ \A op : op # "ENVIAR_INSTRUCCION" =>
               /\ Sin(de_memoria, op) <=> Sin(de_memoria', op)
               /\ Uno(de_memoria, op) => Uno(de_memoria', op)
               /\ \A h, n : De(de_memoria, op, h, n) => De(de_memoria', op, h, n)
          /\ Sin(de_memoria, "ENVIAR_INSTRUCCION") =>
               /\ Uno(de_memoria', "ENVIAR_INSTRUCCION")
               /\ De(de_memoria', "ENVIAR_INSTRUCCION", c.hilo, c.n)
      BY <1>1, <2>2, <2>4, Agrega
    <3>2. Tipos'
      BY <1>1, <1>5, <2>1, <3>1
    <3> SUFFICES ASSUME viva PROVE Despachos' /\ Instrucciones' /\ Guardados'
      BY <1>0, <1>4, <3>2 DEF IInv
    <3>3. ~Sin(a_memoria, "OBTENER_INSTRUCCION")
      BY <1>2, <2>1
    <3>4. /\ Sin(de_memoria, "ENVIAR_INSTRUCCION") /\ ciclo.fase = "fetch"
          /\ sem_instruccion = 0 /\ Sin(a_memoria', "OBTENER_INSTRUCCION")
          /\ c.hilo = ciclo.hilo /\ c.n = ciclo.pc
      BY <1>2, <2>1, <3>3 DEF IInv, Instrucciones, Ficha, Ninguna, DelCiclo
    <3>5. EnPrograma
      BY <2>4, <3>4 DEF EnPrograma, HayInstruccion
    <3>6. Despachos'
      BY <1>0, <1>2, <3>1 DEF IInv, Despachos, Ficha, Ninguna
    <3>7. Instrucciones'
      BY <1>0, <1>2, <3>1, <3>4, <3>5 DEF IInv, Instrucciones, Ficha, Ninguna, DelCiclo, EnPrograma
    <3>8. Guardados'
      BY <1>0, <1>2, <2>1, <3>1 DEF IInv, Guardados, Ficha, Ninguna, DelCiclo
    <3> QED BY <3>6, <3>7, <3>8
  <2> QED BY <2>1, <2>3, <2>4
<1>9. CASE AccesoAMemoria
  <2>1. contextos' = contextos
    BY <1>9 DEF AccesoAMemoria
  <2>2. PICK op \in {"CONFIRMAR_WRITE_MEM", "ENVIAR_READ_MEM"} :
          de_memoria' = de_memoria \/ de_memoria' = Append(de_memoria, Msg(op, c.hilo, c.n))
    BY <1>9 DEF AccesoAMemoria, Responde
  <2> DEFINE m == Msg(op, c.hilo, c.n)
  <2>3. m \in Mensaje /\ m.op = op
    BY <1>3 DEF Msg, Mensaje
  <2>4. de_memoria' = de_memoria \/ de_memoria' = Append(de_memoria, m)
    BY <2>2
  <2> HIDE DEF m, c
  <2>5. /\ de_memoria' \in Seq(Mensaje)
        /\ \A r : r \notin {"CONFIRMAR_WRITE_MEM", "ENVIAR_READ_MEM"} =>
             /\ Sin(de_memoria, r) <=> Sin(de_memoria', r)
             /\ Uno(de_memoria, r) => Uno(de_memoria', r)
             /\ \A h, n : De(de_memoria, r, h, n) => De(de_memoria', r, h, n)
    <3>1. CASE de_memoria' = de_memoria
      BY <1>1, <3>1
    <3>2. CASE de_memoria' = Append(de_memoria, m)
      BY <1>1, <2>3, <3>2, Agrega
    <3> QED BY <2>4, <3>1, <3>2
  <2>6. Tipos'
    BY <1>1, <1>5, <2>1, <2>5
  <2>7. viva => Despachos'
    BY <1>0, <1>2, <2>5 DEF IInv, Despachos, Ficha, Ninguna
  <2>8. viva => Instrucciones'
    BY <1>0, <1>2, <2>5 DEF IInv, Instrucciones, Ficha, Ninguna, DelCiclo, EnPrograma
  <2>9. viva => Guardados'
    BY <1>0, <1>2, <2>1, <2>5 DEF IInv, Guardados, Ficha, Ninguna, DelCiclo
  <2> QED BY <1>0, <1>4, <2>6, <2>7, <2>8, <2>9 DEF IInv
<1> QED BY <1>6, <1>7, <1>8, <1>9 DEF Memoria

-----------------------------------------------------------------------------

LEMMA IInvInductiva == IInv /\ [Next]_vars => IInv'
<1> SUFFICES ASSUME IInv, [Next]_vars PROVE IInv'
  OBVIOUS
<1>1. CASE RecibirTid
  BY <1>1, PasoRecibirTid
<1>2. CASE EscuchaMemoria
  BY <1>2, PasoEscuchaMemoria
<1>3. CASE CicloDeInstruccion
  BY <1>3, PasoFetch, PasoDecode, PasoSyscall, PasoEnviar, PasoSinEspera, PasoFin
  DEF CicloDeInstruccion
<1>4. CASE Memoria
  BY <1>4, PasoMemoria
<1>5. CASE UNCHANGED vars
  <2>1. UNCHANGED <<instruccionActual, sem_instruccion, sem_syscall, parteActual, ciclo, viva,
                    contextos, a_memoria, de_memoria, de_kernel>>
    BY <1>5 DEF vars, compartido
  <2> QED BY <2>1 DEF IInv, Tipos, InstruccionDelPC, Despachos, Instrucciones, Guardados, Ficha,
              Ninguna, DelCiclo, EnPrograma
<1> QED BY <1>1, <1>2, <1>3, <1>4, <1>5 DEF Next

LEMMA SpecIInv == Spec => []IInv
BY Inicio, IInvInductiva, PTL DEF Spec

\* What the cycle executes is the instruction at its own PC, whatever the listener does to
\* instruccionActual meanwhile.
THEOREM InstruccionPropia == Spec => []InstruccionDelPC
<1>1. IInv => InstruccionDelPC
  BY DEF IInv
<1> QED BY <1>1, SpecIInv, PTL

\* The wait of a system call is satisfied by the confirmation of its own context.
THEOREM ContextoAntes == Spec => ContextoGuardado
<1>1. IInv /\ [Next]_vars =>
        [ciclo.fase = "sem_syscall" /\ ciclo'.fase # "sem_syscall"
           => contextos[ciclo.hilo] = ciclo.pc]_vars
  <2> SUFFICES ASSUME IInv, Next, ciclo.fase = "sem_syscall", ciclo'.fase # "sem_syscall"
               PROVE  contextos[ciclo.hilo] = ciclo.pc
    OBVIOUS
  <2>1. CASE EnviarSyscall
    BY <2>1 DEF EnviarSyscall, EnviarYParar, En, IInv, Guardados
  <2>2. CASE ReciboContexto
    <3>1. viva /\ de_memoria # << >> /\ Head(de_memoria).op = "ENVIAR_CONTEXTO"
      BY <2>2 DEF ReciboContexto, Recibe
    <3>2. de_memoria \in Seq(Mensaje)
      BY DEF IInv, Tipos
    <3>3. ~Sin(de_memoria, "ENVIAR_CONTEXTO")
      BY <3>1, <3>2, Saca
    <3> QED BY <3>1, <3>3 DEF IInv, Despachos, Ninguna
  <2>3. CASE ~EnviarSyscall /\ ~ReciboContexto
    <3>1. ciclo' = ciclo
      BY <2>3 DEF Next, RecibirTid, EscuchaMemoria, RecibirInstruccionDeMemoria, ConfirmarContexto,
         Descartar, CicloDeInstruccion, Fetch, Decode, Decodificar, ExecuteSyscall,
         ExecuteRegistros, ExecuteJnz, ExecuteDesconocida, SegmentationFault, WriteMem, ReadMem,
         LeerDesdeMemoria, Ejecuta, AccedeAMemoria, En, Memoria, DevolverContextoEjecucion,
         ActualizarContextoDeEjecucion, ObtenerInstruccion, AccesoAMemoria, EscucharCpu
    <3> QED BY <3>1
  <2> QED BY <2>1, <2>2, <2>3
<1> QED BY <1>1, SpecIInv, PTL DEF Spec, ContextoGuardado
=============================================================================
