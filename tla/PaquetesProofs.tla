---------------------------- MODULE PaquetesProofs ----------------------------
(***************************************************************************)
(* Proofs about Paquetes, for any number of threads and packets, strings   *)
(* of any length and any garbage in an offset: the blocks of the           *)
(* serialisers are just full, and the socket is a queue of messages.       *)
(***************************************************************************)
EXTENDS Paquetes, SequenceTheorems, WellFoundedInduction, TLAPS

-----------------------------------------------------------------------------
(* Induction *)

\* A non-empty set of naturals has a least element.
LEMMA Minimo ==
  ASSUME NEW T \in SUBSET Nat, T # {} PROVE \E i \in T : \A j \in T : i <= j
<1> DEFINE R == OpToRel(<, Nat)
<1>1. IsWellFoundedOn(R, Nat)
  BY NatLessThanWellFounded
<1>2. PICK i \in T : \A j \in T : ~(<<j, i>> \in R)
  <2> HIDE DEF R
  <2> QED BY <1>1, WFMin
<1>3. \A j \in T : ~(j < i)
  BY <1>2 DEF OpToRel
<1> QED BY <1>3

\* So what holds of 0 and goes from each number to the next holds of all up to n.
LEMMA Induccion ==
  ASSUME NEW n \in Nat, NEW S, 0 \in S, \A k \in 1 .. n : k - 1 \in S => k \in S
  PROVE  \A k \in 0 .. n : k \in S
<1> DEFINE T == {k \in 0 .. n : k \notin S}
<1> SUFFICES ASSUME T # {} PROVE FALSE
  OBVIOUS
<1>1. PICK k \in T : \A j \in T : k <= j
  <2>1. T \in SUBSET Nat
    OBVIOUS
  <2> HIDE DEF T
  <2> QED BY <2>1, Minimo
<1>2. k \in 1 .. n /\ k - 1 \in 0 .. n /\ k - 1 < k
  BY <1>1
<1> QED BY <1>1, <1>2

-----------------------------------------------------------------------------
(* Bytes and fields *)

Nombres ==
  {"pid", "tid", "tamanio", "prioridad", "path", "bit_confirmacion", "pc", "base", "limite",
   "registros", "dir_fis", "valor", "instruccion", "numero", "archivo", "tid_pedido", "tiempo",
   "recurso"}

Ops == UNION {Operaciones[c] : c \in DOMAIN Operaciones}

ValorT == ({"op"} \X Ops) \cup (({"num", "basura"} \cup Nombres) \X Nat)
Byte   == ValorT \X Nat
Bloque == Seq(Byte)

\* A field as the serialisers copy it: never less than what the pointer moves.
CampoT ==
  {c \in [nombre : Nombres, copia : Nat, avance : Nat, cadena : BOOLEAN] :
     0 < c.avance /\ c.avance <= c.copia /\ (c.cadena => c.copia = c.avance)}

\* What the sender knows of a message.
MensajeT == [n : Nat, largo : Nat]

Escritura == [stream : Bloque, pos : Nat, dentro : BOOLEAN]

LEMMA BytesEs ==
  ASSUME NEW v \in ValorT, NEW n \in Nat
  PROVE  /\ Bytes(v, n) \in Bloque /\ Len(Bytes(v, n)) = n
         /\ \A i \in 1 .. n : Bytes(v, n)[i] = <<v, i>>
BY DEF Bytes, Bloque, Byte

LEMMA IndefinidosEs ==
  ASSUME NEW n \in Nat PROVE Indefinidos(n) \in Bloque /\ Len(Indefinidos(n)) = n
<1>1. "basura" \in {"num", "basura"} \cup Nombres
  OBVIOUS
<1>2. Indefinido \in Byte
  BY <1>1 DEF Indefinido, Byte, ValorT
<1> QED BY <1>2 DEF Indefinidos, Bloque

LEMMA CopiarEs ==
  ASSUME NEW b \in Bloque, NEW off \in Nat, NEW x \in Bloque
  PROVE  /\ Copiar(b, off, x) \in Bloque /\ Len(Copiar(b, off, x)) = Len(b)
         /\ \A i \in 1 .. Len(b) :
              Copiar(b, off, x)[i] = IF off < i /\ i <= off + Len(x) THEN x[i - off] ELSE b[i]
<1>1. CASE off >= Len(b)
  BY <1>1 DEF Copiar, Bloque
<1>2. CASE off < Len(b)
  <2> DEFINE p == SubSeq(b, 1, off)
             q == SubSeq(b, off + Len(x) + 1, Len(b))
             t == p \o x \o q
  <2> HIDE DEF p, q, t
  <2>0. Len(b) \in Nat /\ Len(x) \in Nat
    BY DEF Bloque
  <2>1. /\ p \in Bloque /\ Len(p) = off /\ \A i \in 1 .. off : p[i] = b[i]
    BY <1>2, <2>0 DEF Bloque, p
  <2>2. /\ q \in Bloque /\ Len(q) = IF off + Len(x) < Len(b) THEN Len(b) - off - Len(x) ELSE 0
        /\ \A i \in 1 .. Len(q) : q[i] = b[off + Len(x) + i]
    BY <1>2, <2>0 DEF Bloque, q
  <2>3. /\ p \o x \in Bloque /\ Len(p \o x) = off + Len(x)
        /\ \A i \in 1 .. off + Len(x) : (p \o x)[i] = IF i <= off THEN b[i] ELSE x[i - off]
    BY <2>0, <2>1 DEF Bloque
  <2>4. /\ t \in Bloque /\ Len(t) = off + Len(x) + Len(q)
        /\ \A i \in 1 .. Len(t) :
             t[i] = IF i <= off + Len(x) THEN (p \o x)[i] ELSE q[i - (off + Len(x))]
    <3> DEFINE y == p \o x
    <3>1. t = y \o q /\ y \in Seq(Byte) /\ q \in Seq(Byte) /\ Len(y) = off + Len(x)
      BY <2>2, <2>3 DEF Bloque, t
    <3> HIDE DEF y
    <3>2. t \in Seq(Byte) /\ Len(t) = Len(y) + Len(q)
          /\ \A i \in 1 .. Len(t) : t[i] = IF i <= Len(y) THEN y[i] ELSE q[i - Len(y)]
      BY <3>1
    <3> QED BY <3>1, <3>2 DEF y, Bloque
  <2>5. Copiar(b, off, x) = SubSeq(t, 1, Len(b)) /\ Len(t) >= Len(b)
    <3>1. Copiar(b, off, x) = SubSeq(t, 1, Len(b))
      <4>1. ~(off >= Len(b))
        BY <1>2, <2>0
      <4> QED BY <4>1, Zenon DEF Copiar, p, q, t
    <3>2. Len(t) = off + Len(x) + Len(q)
      BY <2>4
    <3>3. Len(q) = IF off + Len(x) < Len(b) THEN Len(b) - off - Len(x) ELSE 0
      BY <2>2
    <3>4. Len(t) >= Len(b)
      <4>1. CASE off + Len(x) < Len(b)
        BY <4>1, <3>2, <3>3, <1>2, <2>0
      <4>2. CASE ~(off + Len(x) < Len(b))
        BY <4>2, <3>2, <3>3, <1>2, <2>0
      <4> QED BY <4>1, <4>2
    <3> QED BY <3>1, <3>4
  <2>6. /\ Copiar(b, off, x) \in Bloque /\ Len(Copiar(b, off, x)) = Len(b)
        /\ \A i \in 1 .. Len(b) : Copiar(b, off, x)[i] = t[i]
    BY <2>0, <2>4, <2>5 DEF Bloque
  <2>7. ASSUME NEW i \in 1 .. Len(b)
        PROVE  t[i] = IF off < i /\ i <= off + Len(x) THEN x[i - off] ELSE b[i]
    <3>1. i \in 1 .. Len(t)
      BY <2>0, <2>5, <2>4
    <3>2. CASE i <= off + Len(x)
      BY <3>1, <3>2, <2>0, <2>3, <2>4
    <3>3. CASE i > off + Len(x)
      <4>1. i - (off + Len(x)) \in 1 .. Len(q) /\ off + Len(x) + (i - (off + Len(x))) = i
        BY <3>1, <3>3, <2>0, <2>2
      <4>2. t[i] = q[i - (off + Len(x))]
        <5>1. ~(i <= off + Len(x))
          BY <3>3, <2>0
        <5> QED BY <3>1, <5>1, <2>4
      <4> QED BY <4>1, <4>2, <3>3, <2>0, <2>2
    <3> QED BY <3>2, <3>3, <2>0
  <2> QED BY <2>6, <2>7
<1> QED BY <1>1, <1>2 DEF Bloque

-----------------------------------------------------------------------------
(* Writing *)

\* One memcpy: what was written before stays, and what is written is there.
LEMMA EscribirEs ==
  ASSUME NEW modo \in {"offset", "memcpy"}, NEW e \in Escritura, NEW x \in Bloque, NEW a \in Nat
  PROVE  LET s == Escribir(modo, e, x, a)
             l == Len(e.stream) + IF modo = "offset" THEN Len(x) ELSE 0
         IN /\ s \in Escritura /\ s.pos = e.pos + a /\ Len(s.stream) = l
            /\ s.dentro = (e.dentro /\ e.pos + Len(x) <= l)
            /\ \A i \in 1 .. Len(e.stream) : i <= e.pos => s.stream[i] = e.stream[i]
            /\ \A i \in 1 .. Len(x) : e.pos + i <= l => s.stream[e.pos + i] = x[i]
<1> DEFINE s == Escribir(modo, e, x, a)
           b == IF modo = "offset" THEN e.stream \o Indefinidos(Len(x)) ELSE e.stream
           l == Len(e.stream) + IF modo = "offset" THEN Len(x) ELSE 0
<1> HIDE DEF b, s, l
<1>1. e.stream \in Bloque /\ e.pos \in Nat /\ e.dentro \in BOOLEAN /\ Len(x) \in Nat
      /\ Len(e.stream) \in Nat
  BY DEF Escritura, Bloque
<1>2. b \in Bloque /\ Len(b) = l /\ \A i \in 1 .. Len(e.stream) : b[i] = e.stream[i]
  <2>1. CASE modo = "offset"
    <3>1. Indefinidos(Len(x)) \in Bloque /\ Len(Indefinidos(Len(x))) = Len(x)
      BY <1>1, IndefinidosEs
    <3>2. b = e.stream \o Indefinidos(Len(x)) /\ l = Len(e.stream) + Len(x)
      BY <2>1 DEF b, l
    <3> DEFINE y == Indefinidos(Len(x))
    <3> HIDE DEF y
    <3>3. /\ e.stream \o y \in Bloque /\ Len(e.stream \o y) = Len(e.stream) + Len(x)
          /\ \A i \in 1 .. Len(e.stream) : (e.stream \o y)[i] = e.stream[i]
      <4>1. e.stream \in Seq(Byte) /\ y \in Seq(Byte) /\ Len(y) = Len(x)
        BY <3>1, <1>1 DEF Bloque, y
      <4>2. /\ e.stream \o y \in Seq(Byte)
            /\ Len(e.stream \o y) = Len(e.stream) + Len(y)
            /\ \A i \in 1 .. Len(e.stream) + Len(y) :
                 (e.stream \o y)[i] = IF i <= Len(e.stream) THEN e.stream[i]
                                       ELSE y[i - Len(e.stream)]
        BY ONLY <4>1, ConcatProperties
      <4>3. \A i \in 1 .. Len(e.stream) : i \in 1 .. Len(e.stream) + Len(y) /\ i <= Len(e.stream)
        BY <1>1, <4>1
      <4> QED BY <4>1, <4>2, <4>3 DEF Bloque
    <3> QED BY <3>2, <3>3 DEF y
  <2>2. CASE modo = "memcpy"
    BY <2>2, <1>1 DEF b, l
  <2> QED BY <2>1, <2>2
<1>3. s = [stream |-> Copiar(b, e.pos, x), pos |-> e.pos + a,
           dentro |-> e.dentro /\ e.pos + Len(x) <= Len(b)]
  BY DEF Escribir, b, s
<1>4. /\ s.stream = Copiar(b, e.pos, x) /\ s.pos = e.pos + a
      /\ s.dentro = (e.dentro /\ e.pos + Len(x) <= Len(b))
  BY <1>3
<1>5. /\ s.stream \in Bloque /\ Len(s.stream) = Len(b)
      /\ \A i \in 1 .. Len(b) :
           s.stream[i] = IF e.pos < i /\ i <= e.pos + Len(x) THEN x[i - e.pos] ELSE b[i]
  BY <1>1, <1>2, <1>4, CopiarEs
<1>6. s \in Escritura
  BY <1>1, <1>3, <1>4, <1>5 DEF Escritura
<1>7. ASSUME NEW i \in 1 .. Len(e.stream), i <= e.pos PROVE s.stream[i] = e.stream[i]
  <2>1. l \in Nat /\ Len(e.stream) <= l
    <3>1. CASE modo = "offset"
      BY <3>1, <1>1 DEF l
    <3>2. CASE modo # "offset"
      BY <3>2, <1>1 DEF l
    <3> QED BY <3>1, <3>2
  <2>2. i \in 1 .. Len(b) /\ ~(e.pos < i)
    BY <1>1, <1>2, <1>7, <2>1
  <2> QED BY <2>2, <1>2, <1>5
<1>8. ASSUME NEW i \in 1 .. Len(x), e.pos + i <= l PROVE s.stream[e.pos + i] = x[i]
  <2>1. e.pos + i \in 1 .. Len(b) /\ e.pos < e.pos + i /\ e.pos + i <= e.pos + Len(x)
        /\ (e.pos + i) - e.pos = i
    BY <1>1, <1>2, <1>8
  <2> QED BY <2>1, <1>5
<1> QED BY <1>2, <1>4, <1>5, <1>6, <1>7, <1>8 DEF s, l

\* What a field takes and which byte is the i-th of it.
Ancho(c, m) == c.avance + IF c.cadena THEN m.largo + 1 ELSE 0

Letra(c, m, i) ==
  IF ~c.cadena THEN << <<c.nombre, m.n>>, i >>
  ELSE IF i <= c.avance THEN << <<"num", m.largo + 1>>, i >>
  ELSE << <<c.nombre, m.n>>, i - c.avance >>

\* A field that goes where the block ends, or that fits.
Entra(modo, e, c, m) ==
  \/ modo = "offset" /\ e.pos = Len(e.stream) /\ c.copia = c.avance
  \/ /\ modo = "memcpy" /\ e.pos + c.copia <= Len(e.stream)
     /\ e.pos + Ancho(c, m) <= Len(e.stream)

LEMMA EscribirCampoEs ==
  ASSUME NEW modo \in {"offset", "memcpy"}, NEW e \in Escritura, NEW c \in CampoT,
         NEW m, m.n \in Nat, m.largo \in Nat
  PROVE  LET s == EscribirCampo(modo, e, c, m)
         IN /\ s \in Escritura /\ s.pos = e.pos + Ancho(c, m)
            /\ Entra(modo, e, c, m) =>
                 /\ s.dentro = e.dentro
                 /\ modo = "offset" => s.pos = Len(s.stream)
                 /\ modo = "memcpy" => Len(s.stream) = Len(e.stream)
                 /\ \A i \in 1 .. Len(e.stream) : i <= e.pos => s.stream[i] = e.stream[i]
                 /\ \A i \in 1 .. Ancho(c, m) : s.stream[e.pos + i] = Letra(c, m, i)
<1> DEFINE x == Bytes(<<"num", m.largo + 1>>, c.copia)
           y == Bytes(<<c.nombre, m.n>>, c.copia)
           z == Bytes(<<c.nombre, m.n>>, m.largo + 1)
           f == Escribir(modo, e, x, c.avance)
           g == Escribir(modo, e, y, c.avance)
           h == Escribir(modo, f, z, m.largo + 1)
           s == EscribirCampo(modo, e, c, m)
<1> HIDE DEF x, y, z, f, g, h, s
<1>1. /\ c.nombre \in Nombres /\ c.copia \in Nat /\ c.avance \in Nat /\ c.cadena \in BOOLEAN
      /\ c.avance <= c.copia /\ (c.cadena => c.copia = c.avance)
  BY DEF CampoT
<1>2. <<"num", m.largo + 1>> \in ValorT /\ <<c.nombre, m.n>> \in ValorT
  <2>1. "num" \in {"num", "basura"} \cup Nombres /\ c.nombre \in {"num", "basura"} \cup Nombres
    BY <1>1
  <2> QED BY <2>1 DEF ValorT
<1>3. /\ x \in Bloque /\ Len(x) = c.copia /\ \A i \in 1 .. c.copia : x[i] = << <<"num", m.largo + 1>>, i >>
      /\ y \in Bloque /\ Len(y) = c.copia /\ \A i \in 1 .. c.copia : y[i] = << <<c.nombre, m.n>>, i >>
      /\ z \in Bloque /\ Len(z) = m.largo + 1
      /\ \A i \in 1 .. m.largo + 1 : z[i] = << <<c.nombre, m.n>>, i >>
  <2>1. c.copia \in Nat /\ m.largo + 1 \in Nat
    BY <1>1
  <2>2. /\ x \in Bloque /\ Len(x) = c.copia
        /\ \A i \in 1 .. c.copia : x[i] = << <<"num", m.largo + 1>>, i >>
    BY <1>2, <2>1, BytesEs DEF x
  <2>3. /\ y \in Bloque /\ Len(y) = c.copia
        /\ \A i \in 1 .. c.copia : y[i] = << <<c.nombre, m.n>>, i >>
    BY <1>2, <2>1, BytesEs DEF y
  <2>4. /\ z \in Bloque /\ Len(z) = m.largo + 1
        /\ \A i \in 1 .. m.largo + 1 : z[i] = << <<c.nombre, m.n>>, i >>
    BY <1>2, <2>1, BytesEs DEF z
  <2> QED BY <2>2, <2>3, <2>4
<1>4. e.stream \in Bloque /\ e.pos \in Nat /\ e.dentro \in BOOLEAN /\ Len(e.stream) \in Nat
  BY DEF Escritura, Bloque
<1>5. CASE ~c.cadena
  <2>1. s = g
    BY <1>5 DEF s, EscribirCampo, y, g
  <2> DEFINE l == Len(e.stream) + IF modo = "offset" THEN Len(y) ELSE 0
  <2> HIDE DEF l
  <2>2. /\ s \in Escritura /\ s.pos = e.pos + c.avance /\ Len(s.stream) = l
        /\ s.dentro = (e.dentro /\ e.pos + Len(y) <= l)
        /\ \A i \in 1 .. Len(e.stream) : i <= e.pos => s.stream[i] = e.stream[i]
        /\ \A i \in 1 .. Len(y) : e.pos + i <= l => s.stream[e.pos + i] = y[i]
    <3>1. y \in Bloque /\ c.avance \in Nat
      BY <1>1, <1>3
    <3>2. /\ g \in Escritura /\ g.pos = e.pos + c.avance /\ Len(g.stream) = l
          /\ g.dentro = (e.dentro /\ e.pos + Len(y) <= l)
          /\ \A i \in 1 .. Len(e.stream) : i <= e.pos => g.stream[i] = e.stream[i]
          /\ \A i \in 1 .. Len(y) : e.pos + i <= l => g.stream[e.pos + i] = y[i]
      BY ONLY <3>1, modo \in {"offset", "memcpy"}, e \in Escritura, EscribirEs DEF g, l
    <3> QED BY <2>1, <3>2
  <2>3. Ancho(c, m) = c.avance
    BY <1>1, <1>5 DEF Ancho
  <2>4. ASSUME Entra(modo, e, c, m)
        PROVE  /\ s.dentro = e.dentro
               /\ modo = "offset" => s.pos = Len(s.stream)
               /\ modo = "memcpy" => Len(s.stream) = Len(e.stream)
               /\ e.pos + c.copia <= l
    BY <1>1, <1>3, <1>4, <2>2, <2>3, <2>4 DEF Entra, l
  <2>5. ASSUME Entra(modo, e, c, m), NEW i \in 1 .. Ancho(c, m)
        PROVE  s.stream[e.pos + i] = Letra(c, m, i)
    <3>1. i \in 1 .. Len(y) /\ i \in 1 .. c.copia /\ e.pos + i <= l
      <4>1. l \in Nat
        BY <1>3, <1>4, <1>1 DEF l
      <4> QED BY <1>1, <1>3, <1>4, <2>3, <2>4, <2>5, <4>1
    <3>2. s.stream[e.pos + i] = y[i]
      BY <2>2, <3>1
    <3> QED BY <1>3, <1>5, <3>1, <3>2 DEF Letra
  <2> QED BY <2>2, <2>3, <2>4, <2>5 DEF s
<1>6. CASE c.cadena
  <2>1. s = h
    BY <1>6 DEF s, f, x, z, h, EscribirCampo
  <2> DEFINE l == Len(e.stream) + IF modo = "offset" THEN Len(x) ELSE 0
             k == Len(f.stream) + IF modo = "offset" THEN Len(z) ELSE 0
  <2> HIDE DEF l, k
  <2>2. /\ f \in Escritura /\ f.pos = e.pos + c.avance /\ Len(f.stream) = l
        /\ f.dentro = (e.dentro /\ e.pos + Len(x) <= l)
        /\ \A i \in 1 .. Len(e.stream) : i <= e.pos => f.stream[i] = e.stream[i]
        /\ \A i \in 1 .. Len(x) : e.pos + i <= l => f.stream[e.pos + i] = x[i]
    <3>1. x \in Bloque /\ c.avance \in Nat
      BY <1>1, <1>3
    <3> QED BY ONLY <3>1, modo \in {"offset", "memcpy"}, e \in Escritura, EscribirEs DEF f, l
  <2>3. f.stream \in Bloque /\ f.pos \in Nat /\ f.dentro \in BOOLEAN /\ Len(f.stream) \in Nat
    BY <2>2 DEF Escritura, Bloque
  <2>4. /\ s \in Escritura /\ s.pos = f.pos + (m.largo + 1) /\ Len(s.stream) = k
        /\ s.dentro = (f.dentro /\ f.pos + Len(z) <= k)
        /\ \A i \in 1 .. Len(f.stream) : i <= f.pos => s.stream[i] = f.stream[i]
        /\ \A i \in 1 .. Len(z) : f.pos + i <= k => s.stream[f.pos + i] = z[i]
    <3>1. z \in Bloque /\ m.largo + 1 \in Nat /\ f \in Escritura
      BY <1>3, <2>2
    <3>2. /\ h \in Escritura /\ h.pos = f.pos + (m.largo + 1) /\ Len(h.stream) = k
          /\ h.dentro = (f.dentro /\ f.pos + Len(z) <= k)
          /\ \A i \in 1 .. Len(f.stream) : i <= f.pos => h.stream[i] = f.stream[i]
          /\ \A i \in 1 .. Len(z) : f.pos + i <= k => h.stream[f.pos + i] = z[i]
      BY ONLY ZenonT(60), <3>1, modo \in {"offset", "memcpy"}, EscribirEs DEF h, k
    <3> QED BY <2>1, <3>2
  <2>5. Ancho(c, m) = c.avance + (m.largo + 1)
    BY <1>1, <1>6 DEF Ancho
  <2>6. s.pos = e.pos + Ancho(c, m)
    BY <1>1, <1>4, <2>2, <2>4, <2>5
  <2>7. /\ l \in Nat /\ k \in Nat /\ Len(e.stream) <= l
        /\ modo = "offset" => l = Len(e.stream) + c.copia /\ k = l + (m.largo + 1)
        /\ modo = "memcpy" => l = Len(e.stream) /\ k = l
    BY SMTT(30), <1>1, <1>3, <1>4, <2>2, <2>3 DEF l, k
  <2>8. ASSUME Entra(modo, e, c, m)
        PROVE  /\ s.dentro = e.dentro
               /\ modo = "offset" => s.pos = Len(s.stream)
               /\ modo = "memcpy" => Len(s.stream) = Len(e.stream)
               /\ e.pos + c.avance <= l /\ e.pos + Ancho(c, m) <= k
    <3>1. s.dentro = (e.dentro /\ e.pos + c.copia <= l /\ e.pos + c.avance + (m.largo + 1) <= k)
      BY <1>3, <2>2, <2>4
    <3>2. Len(s.stream) = k /\ Ancho(c, m) \in Nat /\ c.copia = c.avance
      BY <1>1, <1>6, <2>4, <2>5
    <3>3. CASE modo = "offset" /\ e.pos = Len(e.stream)
      <4>1. e.pos + c.copia <= l /\ e.pos + c.avance + (m.largo + 1) = k
        BY <1>1, <1>4, <2>7, <3>2, <3>3
      <4>2. s.pos = k
        BY SMTT(30), <1>1, <1>4, <2>5, <2>6, <4>1
      <4>3. s.dentro = e.dentro
        BY <1>4, <2>7, <3>1, <4>1
      <4>4. e.pos + Ancho(c, m) <= k
        BY <1>1, <1>4, <2>5, <2>7, <4>1
      <4> QED BY <3>2, <3>3, <4>1, <4>2, <4>3, <4>4
    <3>4. CASE /\ modo = "memcpy" /\ e.pos + c.copia <= Len(e.stream)
               /\ e.pos + Ancho(c, m) <= Len(e.stream)
      <4>1. l = Len(e.stream) /\ k = Len(e.stream)
        BY <2>7, <3>4
      <4>2. e.pos + c.copia <= l /\ e.pos + c.avance + (m.largo + 1) <= k
        BY <1>1, <1>4, <2>5, <3>4, <4>1
      <4> QED BY <1>1, <1>4, <2>5, <3>1, <3>2, <3>4, <4>1, <4>2
    <3> QED BY <2>8, <3>3, <3>4 DEF Entra
  <2>9. ASSUME Entra(modo, e, c, m), NEW i \in 1 .. Len(e.stream), i <= e.pos
        PROVE  s.stream[i] = e.stream[i]
    <3>1. i \in 1 .. Len(f.stream) /\ i <= f.pos
      BY <1>1, <1>4, <2>2, <2>7, <2>9
    <3> QED BY <3>1, <2>2, <2>4, <2>9
  <2>10. ASSUME Entra(modo, e, c, m), NEW i \in 1 .. Ancho(c, m)
        PROVE  s.stream[e.pos + i] = Letra(c, m, i)
    <3>1. CASE i <= c.avance
      <4>1. /\ i \in 1 .. Len(x) /\ i \in 1 .. c.copia /\ e.pos + i <= l
            /\ e.pos + i \in 1 .. Len(f.stream) /\ e.pos + i <= f.pos
        <5>1. c.copia = c.avance /\ Len(x) = c.copia /\ Len(f.stream) = l /\ f.pos = e.pos + c.avance
          BY <1>1, <1>3, <1>6, <2>2
        <5>2. e.pos + c.avance <= l /\ i \in 1 .. c.avance
          BY <1>1, <2>5, <2>8, <2>10, <3>1
        <5> DEFINE pos == e.pos
                   a == c.avance
        <5>3. pos \in Nat /\ a \in Nat /\ l \in Nat /\ pos + a <= l /\ i \in 1 .. a
          BY <1>1, <1>4, <2>7, <5>2
        <5> HIDE DEF pos, a
        <5>4. pos + i <= l /\ pos + i \in 1 .. l /\ pos + i <= pos + a
          BY ONLY <5>3
        <5> QED BY <5>1, <5>2, <5>4 DEF pos, a
      <4>2. s.stream[e.pos + i] = f.stream[e.pos + i] /\ f.stream[e.pos + i] = x[i]
        BY <2>2, <2>4, <4>1
      <4> QED BY <1>3, <1>6, <3>1, <4>1, <4>2 DEF Letra
    <3>2. CASE i > c.avance
      <4>1. PICK j \in 1 .. m.largo + 1 : i = c.avance + j
        <5>1. i - c.avance \in 1 .. m.largo + 1 /\ i = c.avance + (i - c.avance)
          BY <1>1, <2>5, <3>2
        <5> QED BY <5>1
      <4>2. j \in 1 .. Len(z) /\ f.pos + j <= k /\ f.pos + j = e.pos + i /\ i - c.avance = j
            /\ ~(i <= c.avance)
        <5>1. Len(z) = m.largo + 1 /\ f.pos = e.pos + c.avance
              /\ e.pos + (c.avance + (m.largo + 1)) <= k
          BY <1>3, <2>2, <2>5, <2>8, <2>10
        <5>2. j \in Nat /\ 1 <= j /\ j <= m.largo + 1 /\ m.largo + 1 \in Nat
          OBVIOUS
        <5>3. f.pos + j <= k
          BY SMTT(30), <1>1, <1>4, <2>7, <5>1, <5>2
        <5>4. f.pos + j = e.pos + i /\ i - c.avance = j /\ ~(i <= c.avance)
          BY SMTT(30), <1>1, <1>4, <4>1, <5>1, <5>2
        <5> QED BY <5>1, <5>3, <5>4
      <4>3. s.stream[e.pos + i] = z[j]
        BY <2>4, <4>2
      <4> QED BY <1>3, <1>6, <4>1, <4>2, <4>3 DEF Letra
    <3> QED BY <1>1, <2>5, <3>1, <3>2
  <2> QED BY <2>4, <2>6, <2>8, <2>9, <2>10 DEF s
<1> QED BY <1>1, <1>5, <1>6

-----------------------------------------------------------------------------
(* Serialising *)

FormatoT(F) ==
  /\ F.modo \in {"offset", "memcpy"} /\ F.campos \in Seq(CampoT)
  /\ F.modo = "memcpy" => F.tamanio \in Nat

\* The stream after each field.
LEMMA SerializarEs ==
  ASSUME NEW F, FormatoT(F), NEW m, m.n \in Nat, m.largo \in Nat, NEW o \in Nat
  PROVE  \E f \in [0 .. Len(F.campos) -> Escritura] :
           /\ f[0] = Inicio(F, o)
           /\ \A k \in 1 .. Len(F.campos) : f[k] = EscribirCampo(F.modo, f[k - 1], F.campos[k], m)
           /\ Serializar(F, m, o) = f[Len(F.campos)]
<1> DEFINE n == Len(F.campos)
           Sigue(e, k) == EscribirCampo(F.modo, e, F.campos[k], m)
           Hasta(k) == \E f \in [0 .. k -> Escritura] :
                         f[0] = Inicio(F, o) /\ \A j \in 1 .. k : f[j] = Sigue(f[j - 1], j)
           Ec(g) == g = [k \in 0 .. n |-> IF k = 0 THEN Inicio(F, o) ELSE Sigue(g[k - 1], k)]
           h == CHOOSE g : Ec(g)
<1>1. n \in Nat /\ \A k \in 1 .. n : F.campos[k] \in CampoT
  BY DEF FormatoT
<1>2. Serializar(F, m, o) = h[n]
  BY DEF Serializar
<1> HIDE DEF n
<1>3. \A e \in Escritura, k \in 1 .. n : Sigue(e, k) \in Escritura
  <2> SUFFICES ASSUME NEW e \in Escritura, NEW k \in 1 .. n PROVE Sigue(e, k) \in Escritura
    OBVIOUS
  <2>1. F.modo \in {"offset", "memcpy"} /\ F.campos[k] \in CampoT
    BY <1>1 DEF FormatoT
  <2> QED BY <2>1, EscribirCampoEs
<1> HIDE DEF Sigue
<1>4. Inicio(F, o) \in Escritura
  <2>1. CASE F.modo = "offset"
    <3>1. << >> \in Bloque
      BY DEF Bloque
    <3> QED BY <2>1, <3>1 DEF Inicio, Escritura
  <2>2. CASE F.modo = "memcpy"
    <3>1. Indefinidos(F.tamanio) \in Bloque
      BY <2>2, IndefinidosEs DEF FormatoT
    <3> QED BY <2>2, <3>1 DEF Inicio, Escritura
  <2> QED BY <2>1, <2>2 DEF FormatoT
<1>5. Hasta(0)
  <2> DEFINE f == [j \in 0 .. 0 |-> Inicio(F, o)]
  <2>1. f \in [0 .. 0 -> Escritura] /\ f[0] = Inicio(F, o)
    BY <1>4
  <2>2. \A j \in 1 .. 0 : FALSE
    OBVIOUS
  <2> HIDE DEF f
  <2> QED BY <2>1, <2>2
<1>6. ASSUME NEW k \in 1 .. n, Hasta(k - 1) PROVE Hasta(k)
  <2>1. PICK f \in [0 .. k - 1 -> Escritura] :
          f[0] = Inicio(F, o) /\ \A j \in 1 .. k - 1 : f[j] = Sigue(f[j - 1], j)
    BY <1>6
  <2> DEFINE g == [j \in 0 .. k |-> IF j = k THEN Sigue(f[k - 1], k) ELSE f[j]]
  <2>2. k - 1 \in 0 .. k - 1 /\ k \in Nat /\ k # 0 /\ Sigue(f[k - 1], k) \in Escritura
    <3>1. k - 1 \in 0 .. k - 1 /\ k \in Nat /\ k # 0
      BY <1>1
    <3>2. f[k - 1] \in Escritura
      BY <2>1, <3>1
    <3> QED BY <1>3, <3>1, <3>2
  <2>3. g \in [0 .. k -> Escritura]
    <3>1. \A j \in 0 .. k : j # k => j \in 0 .. k - 1
      BY <2>2
    <3> QED BY <2>1, <2>2, <3>1
  <2>4. g[0] = Inicio(F, o)
    BY <2>1, <2>2
  <2>5. ASSUME NEW j \in 1 .. k PROVE g[j] = Sigue(g[j - 1], j)
    <3>1. j \in 0 .. k /\ j - 1 \in 0 .. k /\ j - 1 # k
      BY <2>2
    <3>2. CASE j = k
      BY <3>1, <3>2
    <3>3. CASE j # k
      <4>1. j \in 1 .. k - 1
        BY <2>2, <3>3
      <4> QED BY <2>1, <3>1, <3>3, <4>1
    <3> QED BY <3>2, <3>3
  <2> QED BY <2>3, <2>4, <2>5
<1>7. Hasta(n)
  <2> DEFINE S == {k \in 0 .. n : Hasta(k)}
  <2> HIDE DEF Hasta
  <2>1. 0 \in S /\ \A k \in 1 .. n : k - 1 \in S => k \in S
    BY <1>1, <1>5, <1>6
  <2> HIDE DEF S
  <2>2. n \in S
    BY <1>1, <2>1, Induccion
  <2> QED BY <2>2 DEF S
<1>8. PICK f \in [0 .. n -> Escritura] :
        f[0] = Inicio(F, o) /\ \A j \in 1 .. n : f[j] = Sigue(f[j - 1], j)
  BY <1>7
<1>9. Ec(f)
  <2> DEFINE e == [k \in 0 .. n |-> IF k = 0 THEN Inicio(F, o) ELSE Sigue(f[k - 1], k)]
  <2>1. \A k \in 0 .. n : k = 0 \/ k \in 1 .. n
    BY <1>1
  <2>2. \A k \in 0 .. n : f[k] = e[k]
    BY <1>8, <2>1
  <2>3. f = [k \in 0 .. n |-> f[k]]
    BY <1>8
  <2> QED BY <2>2, <2>3
<1>10. Ec(h)
  <2> HIDE DEF Ec
  <2> QED BY <1>9
<1>11. \A k \in 0 .. n : h[k] = IF k = 0 THEN Inicio(F, o) ELSE Sigue(h[k - 1], k)
  BY <1>10
<1> HIDE DEF h
<1>12. h[n] = f[n]
  <2> DEFINE S == {k \in 0 .. n : h[k] = f[k]}
  <2> HIDE DEF S
  <2>1. 0 \in S
    BY <1>1, <1>8, <1>11 DEF S
  <2>2. ASSUME NEW k \in 1 .. n, k - 1 \in S PROVE k \in S
    <3>1. k \in 0 .. n /\ k # 0 /\ h[k - 1] = f[k - 1]
      BY <1>1, <2>2 DEF S
    <3> QED BY <1>8, <1>11, <3>1 DEF S
  <2>3. \A k \in 1 .. n : k - 1 \in S => k \in S
    BY <2>2
  <2>4. \A k \in 0 .. n : k \in S
    BY ONLY <1>1, <2>1, <2>3, Induccion
  <2> QED BY <1>1, <2>4 DEF S
<1> QED BY <1>2, <1>8, <1>12 DEF n, Sigue

\* A serialiser that computes the size of its block, or that makes it grow, and starts
\* at its beginning.
Cabe(F, m) ==
  LET n == Len(F.campos)
  IN \/ F.modo = "offset" /\ \A k \in 1 .. n : F.campos[k].copia = F.campos[k].avance
     \/ /\ F.modo = "memcpy"
        /\ \E P \in [0 .. n -> Nat] :
             /\ P[0] = 0 /\ P[n] = F.tamanio
             /\ \A k \in 1 .. n : /\ P[k] = P[k - 1] + Ancho(F.campos[k], m)
                                  /\ P[k - 1] + F.campos[k].copia <= F.tamanio
                                  /\ P[k] <= F.tamanio

\* Where each field is, and how long the stream.
Lugares(p, F, m, stream) ==
  /\ p \in [0 .. Len(F.campos) -> Nat] /\ p[0] = 0 /\ p[Len(F.campos)] = Len(stream)
  /\ \A k \in 1 .. Len(F.campos) :
       /\ p[k] = p[k - 1] + Ancho(F.campos[k], m) /\ p[k] <= Len(stream)
       /\ \A i \in 1 .. Ancho(F.campos[k], m) : stream[p[k - 1] + i] = Letra(F.campos[k], m, i)

LEMMA SerializaBien ==
  ASSUME NEW F, FormatoT(F), NEW m, m.n \in Nat, m.largo \in Nat, Cabe(F, m)
  PROVE  LET s == Serializar(F, m, 0)
         IN s.dentro /\ s.pos = Len(s.stream) /\ \E p : Lugares(p, F, m, s.stream)
<1> DEFINE n == Len(F.campos)
           c == F.campos
           s == Serializar(F, m, 0)
<1>1. n \in Nat /\ \A k \in 1 .. n : c[k] \in CampoT
  BY DEF FormatoT
<1>2. PICK f \in [0 .. n -> Escritura] :
        /\ f[0] = Inicio(F, 0)
        /\ \A k \in 1 .. n : f[k] = EscribirCampo(F.modo, f[k - 1], c[k], m)
        /\ s = f[n]
  BY SerializarEs
<1>3. PICK P : F.modo = "memcpy" =>
        /\ P \in [0 .. n -> Nat] /\ P[0] = 0 /\ P[n] = F.tamanio /\ F.tamanio \in Nat
        /\ \A k \in 1 .. n : /\ P[k] = P[k - 1] + Ancho(c[k], m)
                             /\ P[k - 1] + c[k].copia <= F.tamanio
                             /\ P[k] <= F.tamanio
  BY DEF Cabe, FormatoT
<1>4. F.modo = "offset" => \A k \in 1 .. n : c[k].copia = c[k].avance
  BY DEF Cabe
<1>5. F.modo \in {"offset", "memcpy"}
  BY DEF FormatoT
<1>6. \A k \in 0 .. n : f[k].stream \in Bloque /\ f[k].pos \in Nat /\ Len(f[k].stream) \in Nat
  BY <1>2 DEF Escritura, Bloque
<1>7. \A k \in 1 .. n : Ancho(c[k], m) \in Nat
  BY <1>1 DEF Ancho, CampoT
<1> HIDE DEF n, c, s
<1> DEFINE Hecho(k) ==
             /\ f[k].dentro /\ f[k].pos <= Len(f[k].stream)
             /\ F.modo = "offset" => f[k].pos = Len(f[k].stream)
             /\ F.modo = "memcpy" => Len(f[k].stream) = F.tamanio /\ f[k].pos = P[k]
             /\ \A j \in 1 .. k :
                  /\ f[j].pos = f[j - 1].pos + Ancho(c[j], m) /\ f[j].pos <= f[k].pos
                  /\ \A i \in 1 .. Ancho(c[j], m) : f[k].stream[f[j - 1].pos + i] = Letra(c[j], m, i)
           S == {k \in 0 .. n : Hecho(k)}
<1>8. Hecho(0) /\ f[0].pos = 0
  <2>1. CASE F.modo = "offset"
    <3>1. f[0] = [stream |-> << >>, pos |-> 0, dentro |-> TRUE]
      BY <1>2, <2>1 DEF Inicio
    <3> QED BY <2>1, <3>1
  <2>2. CASE F.modo = "memcpy"
    <3>1. f[0] = [stream |-> Indefinidos(F.tamanio), pos |-> 0, dentro |-> TRUE]
      BY <1>2, <2>2 DEF Inicio
    <3>2. Len(Indefinidos(F.tamanio)) = F.tamanio /\ F.tamanio \in Nat /\ P[0] = 0
      BY <1>3, <2>2, IndefinidosEs
    <3> QED BY <2>2, <3>1, <3>2
  <2> QED BY <1>5, <2>1, <2>2
<1>9. ASSUME NEW k \in 1 .. n, Hecho(k - 1) PROVE Hecho(k)
  <2> DEFINE e == f[k - 1]
             d == f[k]
             a == Ancho(c[k], m)
  <2>1. k - 1 \in 0 .. n /\ k \in 0 .. n /\ k \in Nat
    BY <1>1
  <2>2. /\ e \in Escritura /\ d = EscribirCampo(F.modo, e, c[k], m) /\ c[k] \in CampoT
        /\ e.stream \in Bloque /\ e.pos \in Nat /\ Len(e.stream) \in Nat /\ a \in Nat
    BY <1>1, <1>2, <1>6, <1>7, <2>1
  <2> HIDE DEF a, d, e
  <2>3. /\ e.dentro /\ e.pos <= Len(e.stream)
        /\ F.modo = "offset" => e.pos = Len(e.stream)
        /\ F.modo = "memcpy" => Len(e.stream) = F.tamanio /\ e.pos = P[k - 1]
    BY <1>9 DEF e
  <2>4. Entra(F.modo, e, c[k], m)
    <3>1. CASE F.modo = "offset"
      BY <1>4, <2>3, <3>1 DEF Entra
    <3>2. CASE F.modo = "memcpy"
      <4>1. P[k - 1] + c[k].copia <= F.tamanio /\ P[k - 1] + a <= F.tamanio
        BY <1>3, <3>2 DEF a
      <4> QED BY <2>3, <3>2, <4>1 DEF Entra, a
    <3> QED BY <1>5, <3>1, <3>2
  <2>5. /\ d \in Escritura /\ d.pos = e.pos + a /\ d.dentro = e.dentro
        /\ F.modo = "offset" => d.pos = Len(d.stream)
        /\ F.modo = "memcpy" => Len(d.stream) = Len(e.stream)
        /\ \A i \in 1 .. Len(e.stream) : i <= e.pos => d.stream[i] = e.stream[i]
        /\ \A i \in 1 .. a : d.stream[e.pos + i] = Letra(c[k], m, i)
    <3> DEFINE q == EscribirCampo(F.modo, e, c[k], m)
    <3> HIDE DEF q
    <3>1. /\ q \in Escritura /\ q.pos = e.pos + a
          /\ Entra(F.modo, e, c[k], m) =>
               /\ q.dentro = e.dentro
               /\ F.modo = "offset" => q.pos = Len(q.stream)
               /\ F.modo = "memcpy" => Len(q.stream) = Len(e.stream)
               /\ \A i \in 1 .. Len(e.stream) : i <= e.pos => q.stream[i] = e.stream[i]
               /\ \A i \in 1 .. a : q.stream[e.pos + i] = Letra(c[k], m, i)
      <4>1. F.modo \in {"offset", "memcpy"} /\ e \in Escritura /\ c[k] \in CampoT
            /\ m.n \in Nat /\ m.largo \in Nat
        BY <1>5, <2>2
      <4> QED BY ONLY <4>1, EscribirCampoEs DEF a, q
    <3>2. d = q
      BY <2>2 DEF q
    <3> QED BY <2>4, <3>1, <3>2
  <2>6. d.pos <= Len(d.stream)
    <3>1. CASE F.modo = "offset"
      BY <1>6, <2>1, <2>5, <3>1 DEF d
    <3>2. CASE F.modo = "memcpy"
      BY <1>3, <2>2, <2>3, <2>5, <3>2 DEF a
    <3> QED BY <1>5, <3>1, <3>2
  <2>7. F.modo = "memcpy" => Len(d.stream) = F.tamanio /\ d.pos = P[k]
    BY <1>3, <2>2, <2>3, <2>5 DEF a
  <2>8. ASSUME NEW j \in 1 .. k
        PROVE  /\ f[j].pos = f[j - 1].pos + Ancho(c[j], m) /\ f[j].pos <= d.pos
               /\ \A i \in 1 .. Ancho(c[j], m) : d.stream[f[j - 1].pos + i] = Letra(c[j], m, i)
    <3>1. CASE j = k
      BY <2>2, <2>5, <3>1 DEF a, d, e
    <3>2. CASE j # k
      <4>1. j \in 1 .. k - 1 /\ j \in 0 .. n /\ j - 1 \in 0 .. n /\ j \in 1 .. n
        BY <1>1, <2>1, <3>2
      <4>2. /\ f[j].pos = f[j - 1].pos + Ancho(c[j], m) /\ f[j].pos <= e.pos
            /\ \A i \in 1 .. Ancho(c[j], m) : e.stream[f[j - 1].pos + i] = Letra(c[j], m, i)
        BY <1>9, <4>1 DEF e
      <4>3. f[j].pos \in Nat /\ f[j - 1].pos \in Nat /\ Ancho(c[j], m) \in Nat
        BY <1>6, <1>7, <4>1
      <4>4. f[j].pos <= d.pos
        BY <2>2, <2>5, <4>2, <4>3
      <4>5. ASSUME NEW i \in 1 .. Ancho(c[j], m)
            PROVE  d.stream[f[j - 1].pos + i] = Letra(c[j], m, i)
        <5>1. f[j - 1].pos + i \in 1 .. Len(e.stream) /\ f[j - 1].pos + i <= e.pos
          <6>1. f[j - 1].pos + i <= f[j].pos /\ i \in Nat /\ i >= 1
            BY <4>2, <4>3
          <6>2. f[j - 1].pos + i <= e.pos
            BY <2>2, <4>2, <4>3, <6>1
          <6>3. e.pos <= Len(e.stream) /\ Len(e.stream) \in Nat /\ e.pos \in Nat
            BY <2>2, <2>3
          <6>4. f[j - 1].pos + i \in Nat /\ 1 <= f[j - 1].pos + i
            BY <4>3, <6>1
          <6> DEFINE w == f[j - 1].pos + i
          <6> HIDE DEF w
          <6>5. w \in Nat /\ 1 <= w /\ w <= e.pos
            BY <6>2, <6>4 DEF w
          <6>6. w \in 1 .. Len(e.stream) /\ w <= e.pos
            BY <6>3, <6>5
          <6> QED BY <6>6 DEF w
        <5> QED BY <2>5, <4>2, <5>1
      <4> QED BY <4>2, <4>4, <4>5
    <3> QED BY <3>1, <3>2
  <2> QED BY <2>3, <2>5, <2>6, <2>7, <2>8 DEF d
<1>10. Hecho(n)
  <2> HIDE DEF Hecho, S
  <2>1. 0 \in S /\ \A k \in 1 .. n : k - 1 \in S => k \in S
    BY <1>1, <1>8, <1>9 DEF S
  <2>2. \A k \in 0 .. n : k \in S
    BY ONLY <1>1, <2>1, Induccion
  <2> QED BY <1>1, <2>2 DEF S
<1>11. s.dentro /\ s.pos = Len(s.stream)
  <2>1. CASE F.modo = "offset"
    BY <1>2, <1>10, <2>1
  <2>2. CASE F.modo = "memcpy"
    BY <1>2, <1>3, <1>10, <2>2
  <2> QED BY <1>5, <2>1, <2>2
<1> DEFINE p == [k \in 0 .. n |-> f[k].pos]
<1>12. p \in [0 .. n -> Nat] /\ p[0] = 0 /\ p[n] = Len(s.stream)
  <2>1. 0 \in 0 .. n /\ n \in 0 .. n
    BY <1>1
  <2> QED BY <1>2, <1>6, <1>8, <1>11, <2>1
<1>13. ASSUME NEW k \in 1 .. n
       PROVE  /\ p[k] = p[k - 1] + Ancho(c[k], m) /\ p[k] <= Len(s.stream)
              /\ \A i \in 1 .. Ancho(c[k], m) : s.stream[p[k - 1] + i] = Letra(c[k], m, i)
  <2>1. k \in 0 .. n /\ k - 1 \in 0 .. n
    BY <1>1
  <2>2. p[k] = f[k].pos /\ p[k - 1] = f[k - 1].pos
    BY <2>1
  <2> HIDE DEF p
  <2> QED BY <1>2, <1>10, <1>11, <2>2
<1> HIDE DEF p
<1>14. Lugares(p, F, m, s.stream)
  BY <1>12, <1>13 DEF Lugares, n, c
<1> QED BY <1>11, <1>14 DEF s

-----------------------------------------------------------------------------
(* The serialisers of the program *)

\* The fields that are copied for what they take, and those of one word.
Justos   == {c \in CampoT : c.copia = c.avance}
Palabras == {c \in CampoT : c.copia = 4 /\ c.avance = 4 /\ ~c.cadena}

LEMMA CamposEs ==
  /\ \A x \in Nombres : /\ U32(x) \in Palabras /\ U32(x) \in Justos
                        /\ Cadena(x) \in Justos /\ CadenaSizeT(x) \in Justos
  /\ Palabras \subseteq CampoT /\ Justos \subseteq CampoT /\ Palabras \subseteq Justos
  /\ Pid \in Palabras /\ Tid \in Palabras
  /\ Campo("registros", 32, 32, FALSE) \in Justos
  /\ Campo("prioridad", 8, 4, FALSE) \in CampoT
<1>1. \A x \in Nombres : U32(x) \in CampoT /\ Cadena(x) \in CampoT /\ CadenaSizeT(x) \in CampoT
  BY DEF U32, Cadena, CadenaSizeT, Campo, CampoT
<1>2. \A x \in Nombres : /\ U32(x) \in Palabras /\ U32(x) \in Justos
                         /\ Cadena(x) \in Justos /\ CadenaSizeT(x) \in Justos
  BY <1>1 DEF U32, Cadena, CadenaSizeT, Campo, Palabras, Justos
<1>3. "pid" \in Nombres /\ "tid" \in Nombres /\ "registros" \in Nombres /\ "prioridad" \in Nombres
  BY DEF Nombres
<1>4. Pid \in Palabras /\ Tid \in Palabras
  BY <1>2, <1>3 DEF Pid, Tid
<1>5. Campo("registros", 32, 32, FALSE) \in Justos /\ Campo("prioridad", 8, 4, FALSE) \in CampoT
  BY <1>3 DEF Campo, CampoT, Justos
<1>6. Palabras \subseteq CampoT /\ Justos \subseteq CampoT /\ Palabras \subseteq Justos
  BY DEF Palabras, Justos
<1> QED BY <1>2, <1>4, <1>5, <1>6

\* The blocks that grow with each field.
LEMMA AgregarCabe ==
  ASSUME NEW campos \in Seq(Justos), NEW m
  PROVE  FormatoT(Agregar(campos)) /\ Cabe(Agregar(campos), m)
<1>1. campos \in Seq(CampoT) /\ \A k \in 1 .. Len(campos) : campos[k].copia = campos[k].avance
  <2>1. \A k \in 1 .. Len(campos) : campos[k] \in Justos
    OBVIOUS
  <2>2. campos \in [1 .. Len(campos) -> CampoT] /\ Len(campos) \in Nat
    BY <2>1 DEF Justos
  <2> QED BY <2>1, <2>2 DEF Justos
<1>2. Agregar(campos).modo = "offset" /\ Agregar(campos).campos = campos
  BY DEF Agregar
<1> QED BY <1>1, <1>2 DEF FormatoT, Cabe

\* The blocks of n words.
LEMMA PalabrasCabe ==
  ASSUME NEW campos \in Seq(Palabras), NEW m, NEW t, t = 4 * Len(campos)
  PROVE  FormatoT(Memcpy(t, campos)) /\ Cabe(Memcpy(t, campos), m)
<1> DEFINE n == Len(campos)
           P == [k \in 0 .. n |-> 4 * k]
<1>1. n \in Nat /\ \A k \in 1 .. n : campos[k] \in Palabras
  OBVIOUS
<1>2. campos \in Seq(CampoT)
  <2>1. campos \in [1 .. n -> CampoT]
    BY <1>1 DEF Palabras
  <2> QED BY <1>1, <2>1
<1>3. /\ Memcpy(t, campos).modo = "memcpy" /\ Memcpy(t, campos).campos = campos
      /\ Memcpy(t, campos).tamanio = t
  BY DEF Memcpy
<1> HIDE DEF n
<1>4. P \in [0 .. n -> Nat] /\ P[0] = 0 /\ P[n] = t
  BY <1>1 DEF n
<1>5. ASSUME NEW k \in 1 .. n
      PROVE  /\ P[k] = P[k - 1] + Ancho(campos[k], m)
             /\ P[k - 1] + campos[k].copia <= t /\ P[k] <= t
  <2>1. Ancho(campos[k], m) = 4 /\ campos[k].copia = 4
    <3>1. campos[k].avance = 4 /\ campos[k].copia = 4 /\ ~campos[k].cadena
      BY <1>1 DEF Palabras
    <3> QED BY <3>1 DEF Ancho
  <2>2. P[k] = 4 * k /\ P[k - 1] = 4 * (k - 1)
    BY <1>1
  <2>3. k \in Nat /\ k >= 1 /\ k <= n /\ t = 4 * n
    BY <1>1 DEF n
  <2> HIDE DEF P
  <2> QED BY <1>1, <2>1, <2>2, <2>3
<1>6. t \in Nat
  BY <1>1 DEF n
<1> HIDE DEF P
<1> QED BY <1>2, <1>3, <1>4, <1>5, <1>6 DEF FormatoT, Cabe, n

\* Those with a string, whose sizes are computed by hand.
LEMMA MemcpyCabe ==
  ASSUME NEW campos \in Seq(CampoT), NEW m, NEW t \in Nat,
         NEW P \in [0 .. Len(campos) -> Nat], P[0] = 0, P[Len(campos)] = t,
         \A k \in 1 .. Len(campos) : /\ P[k] = P[k - 1] + Ancho(campos[k], m)
                                     /\ P[k - 1] + campos[k].copia <= t /\ P[k] <= t
  PROVE  FormatoT(Memcpy(t, campos)) /\ Cabe(Memcpy(t, campos), m)
<1>1. /\ Memcpy(t, campos).modo = "memcpy" /\ Memcpy(t, campos).campos = campos
      /\ Memcpy(t, campos).tamanio = t
  BY DEF Memcpy
<1> QED BY <1>1 DEF FormatoT, Cabe

LEMMA Juntas ==
  ASSUME NEW S, NEW a \in S, NEW b \in S, NEW c \in S, NEW d \in S
  PROVE  <<a, b>> \o <<c, d>> = <<a, b, c, d>>
<1> DEFINE x == <<a, b>>
           y == <<c, d>>
           z == <<a, b, c, d>>
<1> HIDE DEF x, y, z
<1>1. x \in Seq(S) /\ Len(x) = 2 /\ x[1] = a /\ x[2] = b
  BY DEF x
<1>2. y \in Seq(S) /\ Len(y) = 2 /\ y[1] = c /\ y[2] = d
  BY DEF y
<1>3. z \in Seq(S) /\ Len(z) = 4 /\ z[1] = a /\ z[2] = b /\ z[3] = c /\ z[4] = d
  BY DEF z
<1>4. x \o y \in Seq(S)
  BY <1>1, <1>2, ConcatProperties
<1>5. Len(x \o y) = 4
  <2>1. Len(x \o y) = Len(x) + Len(y)
    BY <1>1, <1>2, ConcatProperties
  <2>2. Len(x) = 2 /\ Len(y) = 2
    BY <1>1, <1>2
  <2> QED BY <2>1, <2>2
<1>6. \A i \in 1 .. 4 : (x \o y)[i] = IF i <= 2 THEN x[i] ELSE y[i - 2]
  BY <1>1, <1>2, <1>5, ConcatProperties
<1>7. ASSUME NEW i \in 1 .. 4 PROVE (x \o y)[i] = z[i]
  <2>1. i = 1 \/ i = 2 \/ i = 3 \/ i = 4
    OBVIOUS
  <2>2. (x \o y)[1] = a /\ (x \o y)[2] = b
    <3>1. 1 \in 1 .. 4 /\ 1 <= 2 /\ 2 \in 1 .. 4 /\ 2 <= 2
      OBVIOUS
    <3>2. (x \o y)[1] = x[1] /\ (x \o y)[2] = x[2]
      BY ONLY <1>6, <3>1
    <3> QED BY <1>1, <3>2
  <2>3. (x \o y)[3] = c /\ (x \o y)[4] = d
    <3>1. 3 \in 1 .. 4 /\ ~(3 <= 2) /\ 3 - 2 = 1 /\ 4 \in 1 .. 4 /\ ~(4 <= 2) /\ 4 - 2 = 2
      OBVIOUS
    <3>2. (x \o y)[3] = y[1]
      BY <1>6, <3>1
    <3>3. (x \o y)[4] = y[2]
      BY <1>6, <3>1
    <3> QED BY <1>2, <3>2, <3>3
  <2> QED BY <1>3, <2>1, <2>2, <2>3
<1>8. x \o y = z
  BY <1>3, <1>4, <1>5, <1>7, SeqEqual
<1> QED BY <1>8 DEF x, y, z

LEMMA JuntasTres ==
  ASSUME NEW S, NEW a \in S, NEW b \in S, NEW c \in S
  PROVE  <<a, b>> \o <<c>> = <<a, b, c>>
<1> DEFINE x == <<a, b>>
           y == <<c>>
           z == <<a, b, c>>
<1> HIDE DEF x, y, z
<1>1. x \in Seq(S) /\ Len(x) = 2 /\ x[1] = a /\ x[2] = b
  BY DEF x
<1>2. y \in Seq(S) /\ Len(y) = 1 /\ y[1] = c
  BY DEF y
<1>3. z \in Seq(S) /\ Len(z) = 3 /\ z[1] = a /\ z[2] = b /\ z[3] = c
  BY DEF z
<1>4. /\ x \o y \in Seq(S) /\ Len(x \o y) = Len(x) + Len(y)
      /\ \A i \in 1 .. Len(x) + Len(y) :
           (x \o y)[i] = IF i <= Len(x) THEN x[i] ELSE y[i - Len(x)]
  BY <1>1, <1>2, ConcatProperties
<1>5. Len(x) = 2 /\ Len(x) + Len(y) = 3
  <2>1. Len(x) = 2 /\ Len(y) = 1
    BY <1>1, <1>2
  <2> QED BY <2>1
<1>6. \A i \in 1 .. 3 : (x \o y)[i] = IF i <= 2 THEN x[i] ELSE y[i - 2]
  BY <1>4, <1>5
<1>7. (x \o y)[1] = a /\ (x \o y)[2] = b
  <2>1. 1 \in 1 .. 3 /\ 2 \in 1 .. 3 /\ 1 <= 2 /\ 2 <= 2
    OBVIOUS
  <2>2. (x \o y)[1] = x[1]
    BY ONLY <1>6, <2>1
  <2>3. (x \o y)[2] = x[2]
    BY ONLY <1>6, <2>1
  <2> QED BY ONLY <1>1, <2>2, <2>3
<1>8. (x \o y)[3] = c
  <2>1. 3 \in 1 .. 3 /\ ~(3 <= 2) /\ 3 - 2 = 1
    OBVIOUS
  <2> QED BY <1>2, <1>6, <2>1
<1>9. ASSUME NEW i \in 1 .. 3 PROVE (x \o y)[i] = z[i]
  <2>1. i = 1 \/ i = 2 \/ i = 3
    OBVIOUS
  <2> QED BY <1>3, <1>7, <1>8, <2>1
<1>10. x \o y = z
  <2>1. Len(x \o y) = 3
    BY <1>4, <1>5
  <2> QED BY <1>3, <1>4, <1>9, <2>1, SeqEqual
<1> QED BY <1>10 DEF x, y, z

LEMMA HiloReadyCabe ==
  ASSUME NEW m, m.n \in Nat, m.largo \in Nat
  PROVE  FormatoT(serializar_hilo_ready(m)) /\ Cabe(serializar_hilo_ready(m), m)
<1> DEFINE c1 == Pid
           c2 == Tid
           c3 == Campo("prioridad", 8, 4, FALSE)
           c4 == CadenaSizeT("path")
           campos == <<c1, c2, c3, c4>>
           t == 2 * 4 + 4 + (m.largo + 1) + 8
           P == [k \in 0 .. 4 |-> IF k < 4 THEN 4 * k ELSE t]
<1>2. c1 \in CampoT /\ c2 \in CampoT /\ c3 \in CampoT /\ c4 \in CampoT
  <2>1. "path" \in Nombres
    BY DEF Nombres
  <2> QED BY <2>1, CamposEs
<1>1. PidTid \o <<c3, c4>> = campos
  <2> HIDE DEF c3, c4
  <2> QED BY <1>2, Juntas DEF PidTid
<1>3. /\ Ancho(c1, m) = 4 /\ c1.copia = 4 /\ Ancho(c2, m) = 4 /\ c2.copia = 4
      /\ Ancho(c3, m) = 4 /\ c3.copia = 8 /\ Ancho(c4, m) = 8 + (m.largo + 1) /\ c4.copia = 8
  BY DEF Ancho, Pid, Tid, U32, CadenaSizeT, Campo
<1>4. serializar_hilo_ready(m) = Memcpy(t, campos)
  BY <1>1 DEF serializar_hilo_ready
<1> HIDE DEF c1, c2, c3, c4
<1>5. campos \in Seq(CampoT) /\ Len(campos) = 4
  BY <1>2
<1>6. /\ t \in Nat /\ P \in [0 .. 4 -> Nat]
      /\ P[0] = 0 /\ P[1] = 4 /\ P[2] = 8 /\ P[3] = 12 /\ P[4] = t
  OBVIOUS
<1>7. campos[1] = c1 /\ campos[2] = c2 /\ campos[3] = c3 /\ campos[4] = c4
  OBVIOUS
<1> HIDE DEF campos, P
<1>8. ASSUME NEW k \in 1 .. 4
      PROVE  /\ P[k] = P[k - 1] + Ancho(campos[k], m)
             /\ P[k - 1] + campos[k].copia <= t /\ P[k] <= t
  <2>1. k = 1 \/ k = 2 \/ k = 3 \/ k = 4
    OBVIOUS
  <2> QED BY <1>3, <1>6, <1>7, <2>1
<1> HIDE DEF t
<1> QED BY <1>4, <1>5, <1>6, <1>8, MemcpyCabe

LEMMA ThreadCreateCabe ==
  ASSUME NEW m, m.n \in Nat, m.largo \in Nat
  PROVE  FormatoT(serializar_thread_create(m)) /\ Cabe(serializar_thread_create(m), m)
<1> DEFINE c1 == Pid
           c2 == Tid
           c3 == CadenaSizeT("archivo")
           c4 == U32("prioridad")
           campos == <<c1, c2, c3, c4>>
           t == 3 * 4 + 8 + (m.largo + 1)
           P == [k \in 0 .. 4 |-> IF k < 3 THEN 4 * k ELSE IF k = 3 THEN t - 4 ELSE t]
<1>2. c1 \in CampoT /\ c2 \in CampoT /\ c3 \in CampoT /\ c4 \in CampoT
  <2>1. "archivo" \in Nombres /\ "prioridad" \in Nombres
    BY DEF Nombres
  <2> QED BY <2>1, CamposEs
<1>1. PidTid \o <<c3, c4>> = campos
  <2> HIDE DEF c3, c4
  <2> QED BY <1>2, Juntas DEF PidTid
<1>3. /\ Ancho(c1, m) = 4 /\ c1.copia = 4 /\ Ancho(c2, m) = 4 /\ c2.copia = 4
      /\ Ancho(c3, m) = 8 + (m.largo + 1) /\ c3.copia = 8 /\ Ancho(c4, m) = 4 /\ c4.copia = 4
  BY DEF Ancho, Pid, Tid, U32, CadenaSizeT, Campo
<1>4. serializar_thread_create(m) = Memcpy(t, campos)
  BY <1>1 DEF serializar_thread_create
<1> HIDE DEF c1, c2, c3, c4
<1>5. campos \in Seq(CampoT) /\ Len(campos) = 4
  BY <1>2
<1>6. /\ t \in Nat /\ P \in [0 .. 4 -> Nat]
      /\ P[0] = 0 /\ P[1] = 4 /\ P[2] = 8 /\ P[3] = t - 4 /\ P[4] = t
  OBVIOUS
<1>7. campos[1] = c1 /\ campos[2] = c2 /\ campos[3] = c3 /\ campos[4] = c4
  OBVIOUS
<1> HIDE DEF campos, P
<1>8. ASSUME NEW k \in 1 .. 4
      PROVE  /\ P[k] = P[k - 1] + Ancho(campos[k], m)
             /\ P[k - 1] + campos[k].copia <= t /\ P[k] <= t
  <2>1. k = 1 \/ k = 2 \/ k = 3 \/ k = 4
    OBVIOUS
  <2> QED BY <1>3, <1>6, <1>7, <2>1
<1> HIDE DEF t
<1> QED BY ZenonT(60), <1>4, <1>5, <1>6, <1>8, MemcpyCabe

LEMMA InstruccionCabe ==
  ASSUME NEW m, m.n \in Nat, m.largo \in Nat
  PROVE  FormatoT(serializar_enviar_instruccion(m)) /\ Cabe(serializar_enviar_instruccion(m), m)
<1> DEFINE c == Cadena("instruccion")
           campos == <<c>>
           t == 4 + (m.largo + 1)
           P == [k \in 0 .. 1 |-> IF k = 0 THEN 0 ELSE t]
<1>1. c \in CampoT
  <2>1. "instruccion" \in Nombres
    BY DEF Nombres
  <2> QED BY <2>1, CamposEs
<1>2. Ancho(c, m) = t /\ c.copia = 4
  BY DEF Ancho, Cadena, Campo
<1>3. serializar_enviar_instruccion(m) = Memcpy(t, campos)
  BY DEF serializar_enviar_instruccion
<1> HIDE DEF c
<1>4. campos \in Seq(CampoT) /\ Len(campos) = 1 /\ campos[1] = c
  BY <1>1
<1>5. t \in Nat /\ 4 <= t /\ P \in [0 .. 1 -> Nat] /\ P[0] = 0 /\ P[1] = t
  OBVIOUS
<1> HIDE DEF campos, P, t
<1>6. \A k \in 1 .. 1 : /\ P[k] = P[k - 1] + Ancho(campos[k], m)
                        /\ P[k - 1] + campos[k].copia <= t /\ P[k] <= t
  BY <1>2, <1>4, <1>5
<1> QED BY <1>3, <1>4, <1>5, <1>6, MemcpyCabe

LEMMA ContextoCabe ==
  ASSUME NEW m
  PROVE  FormatoT(serializar_enviar_contexto_cpu(m)) /\ Cabe(serializar_enviar_contexto_cpu(m), m)
<1> DEFINE P == [k \in 0 .. 6 |-> IF k < 6 THEN 4 * k ELSE 52]
<1>1. Contexto \in Seq(CampoT) /\ Len(Contexto) = 6
  <2>1. "pc" \in Nombres /\ "base" \in Nombres /\ "limite" \in Nombres
    BY DEF Nombres
  <2>2. /\ Pid \in CampoT /\ Tid \in CampoT /\ U32("pc") \in CampoT /\ U32("base") \in CampoT
        /\ U32("limite") \in CampoT /\ Campo("registros", 32, 32, FALSE) \in CampoT
    BY <2>1, CamposEs
  <2> DEFINE c1 == Tid
             c2 == U32("pc")
             c3 == U32("base")
             c4 == U32("limite")
             c5 == Pid
             c6 == Campo("registros", 32, 32, FALSE)
  <2>3. Contexto = <<c1, c2, c3, c4, c5, c6>>
    BY DEF Contexto
  <2> HIDE DEF c1, c2, c3, c4, c5, c6
  <2>4. /\ c1 \in CampoT /\ c2 \in CampoT /\ c3 \in CampoT /\ c4 \in CampoT
        /\ c5 \in CampoT /\ c6 \in CampoT
    BY <2>2 DEF c1, c2, c3, c4, c5, c6
  <2>5. <<c1, c2, c3, c4, c5, c6>> \in Seq(CampoT) /\ Len(<<c1, c2, c3, c4, c5, c6>>) = 6
    BY <2>4
  <2> QED BY <2>3, <2>5
<1>2. /\ \A k \in 1 .. 5 : Ancho(Contexto[k], m) = 4 /\ Contexto[k].copia = 4
      /\ Ancho(Contexto[6], m) = 32 /\ Contexto[6].copia = 32
  <2>1. \A x : Ancho(U32(x), m) = 4 /\ U32(x).copia = 4
    BY DEF Ancho, U32, Campo
  <2>2. /\ Ancho(Campo("registros", 32, 32, FALSE), m) = 32
        /\ Campo("registros", 32, 32, FALSE).copia = 32
    BY DEF Ancho, Campo
  <2>3. ASSUME NEW k \in 1 .. 5 PROVE Ancho(Contexto[k], m) = 4 /\ Contexto[k].copia = 4
    <3>1. k = 1 \/ k = 2 \/ k = 3 \/ k = 4 \/ k = 5
      OBVIOUS
    <3>2. \E x : Contexto[k] = U32(x)
      BY <3>1 DEF Contexto, Pid, Tid
    <3> QED BY <2>1, <3>2
  <2>4. Contexto[6] = Campo("registros", 32, 32, FALSE)
    BY DEF Contexto
  <2> QED BY <2>2, <2>3, <2>4
<1>3. serializar_enviar_contexto_cpu(m) = Memcpy(52, Contexto)
  BY DEF serializar_enviar_contexto_cpu
<1>4. P \in [0 .. 6 -> Nat] /\ P[0] = 0 /\ P[6] = 52
  OBVIOUS
<1>5. ASSUME NEW k \in 1 .. 6
      PROVE  /\ P[k] = P[k - 1] + Ancho(Contexto[k], m)
             /\ P[k - 1] + Contexto[k].copia <= 52 /\ P[k] <= 52
  <2>1. CASE k = 6
    BY <1>2, <2>1
  <2>2. CASE k # 6
    <3>1. k \in 1 .. 5
      BY <2>2
    <3>2. P[k] = 4 * k /\ P[k - 1] = 4 * (k - 1)
      BY <3>1
    <3> QED BY <1>2, <3>1, <3>2
  <2> QED BY <2>1, <2>2
<1> HIDE DEF P
<1> DEFINE t == 52
<1>6. t \in Nat /\ P[Len(Contexto)] = t /\ P \in [0 .. Len(Contexto) -> Nat]
  BY <1>1, <1>4
<1>7. \A k \in 1 .. Len(Contexto) : /\ P[k] = P[k - 1] + Ancho(Contexto[k], m)
                                    /\ P[k - 1] + Contexto[k].copia <= t /\ P[k] <= t
  BY <1>1, <1>5
<1>8. serializar_enviar_contexto_cpu(m) = Memcpy(t, Contexto)
  BY <1>3
<1> HIDE DEF t
<1>9. Contexto \in Seq(CampoT) /\ P[0] = 0
  BY <1>1, <1>4
<1>10. FormatoT(Memcpy(t, Contexto)) /\ Cabe(Memcpy(t, Contexto), m)
  BY ONLY <1>6, <1>7, <1>9, MemcpyCabe
<1> QED BY <1>8, <1>10

\* The operations by the serialiser they use.
DePalabras == {"ASIGNAR_MEMORIA", "CONFIRMAR_ESPACIO_PROCESO", "CONFIRMAR_CREACION_HILO",
               "RECIBIR_TID", "OBTENER_CONTEXTO", "OBTENER_INSTRUCCION",
               "CONFIRMAR_CONTEXTO_ACTUALIZADO", "CONFIRMAR_WRITE_MEM", "ENVIAR_READ_MEM"}

QueCrecen  == {"FINALIZAR_PROCESO", "FINALIZAR_HILO", "DUMP_MEMORY", "WRITE_MEM", "READ_MEM",
               "PROCESS_CREATE", "PROCESS_EXIT", "THREAD_JOIN", "THREAD_CANCEL", "THREAD_EXIT",
               "MUTEX_CREATE", "MUTEX_LOCK", "MUTEX_UNLOCK", "IO"}

LEMMA Clases ==
  ASSUME NEW con \in DOMAIN Operaciones, NEW op \in Operaciones[con]
  PROVE  op \in DePalabras \cup QueCrecen \cup
                {"HILO_READY", "THREAD_CREATE", "ENVIAR_INSTRUCCION", "ACTUALIZAR_CONTEXTO",
                 "ENVIAR_CONTEXTO"}
<1>1. con \in {"kernel_memoria", "memoria_kernel", "kernel_cpu", "cpu_memoria", "memoria_cpu",
               "cpu_kernel"}
  BY DEF Operaciones
<1>2. Operaciones["kernel_memoria"] = {"ASIGNAR_MEMORIA", "HILO_READY", "FINALIZAR_PROCESO",
                                       "FINALIZAR_HILO", "DUMP_MEMORY"}
  BY DEF Operaciones
<1>3. Operaciones["memoria_kernel"] = {"CONFIRMAR_ESPACIO_PROCESO", "CONFIRMAR_CREACION_HILO"}
  BY DEF Operaciones
<1>4. Operaciones["kernel_cpu"] = {"RECIBIR_TID"}
  BY DEF Operaciones
<1>5. Operaciones["cpu_memoria"] = {"OBTENER_CONTEXTO", "ACTUALIZAR_CONTEXTO",
                                    "OBTENER_INSTRUCCION", "WRITE_MEM", "READ_MEM"}
  BY DEF Operaciones
<1>6. Operaciones["memoria_cpu"] = {"ENVIAR_CONTEXTO", "ENVIAR_INSTRUCCION",
                                    "CONFIRMAR_CONTEXTO_ACTUALIZADO", "CONFIRMAR_WRITE_MEM",
                                    "ENVIAR_READ_MEM"}
  BY DEF Operaciones
<1>7. Operaciones["cpu_kernel"] = {"PROCESS_CREATE", "PROCESS_EXIT", "THREAD_CREATE",
                                   "THREAD_JOIN", "THREAD_CANCEL", "THREAD_EXIT",
                                   "MUTEX_CREATE", "MUTEX_LOCK", "MUTEX_UNLOCK", "DUMP_MEMORY",
                                   "IO"}
  BY DEF Operaciones
<1>8. CASE con = "kernel_memoria"
  BY <1>8, <1>2 DEF DePalabras, QueCrecen
<1>9. CASE con = "memoria_kernel"
  BY <1>9, <1>3 DEF DePalabras
<1>10. CASE con = "kernel_cpu"
  BY <1>10, <1>4 DEF DePalabras
<1>11. CASE con = "cpu_memoria"
  BY <1>11, <1>5 DEF DePalabras, QueCrecen
<1>12. CASE con = "memoria_cpu"
  BY <1>12, <1>6 DEF DePalabras
<1>13. CASE con = "cpu_kernel"
  BY <1>13, <1>7 DEF QueCrecen
<1> QED BY <1>1, <1>8, <1>9, <1>10, <1>11, <1>12, <1>13

\* The fields each of the first ones writes.
LEMMA EscribePalabras ==
  ASSUME NEW con, NEW op \in DePalabras, NEW m
  PROVE  \E campos \in Seq(Palabras) :
           /\ Escribe(con, op, m) = Memcpy(4 * Len(campos), campos)
           /\ Lee(con, op).campos \in {campos, << >>}
<1>1. "tamanio" \in Nombres /\ "bit_confirmacion" \in Nombres /\ "pc" \in Nombres
      /\ "numero" \in Nombres
  BY DEF Nombres
<1>2. /\ Pid \in Palabras /\ Tid \in Palabras /\ U32("tamanio") \in Palabras
      /\ U32("bit_confirmacion") \in Palabras /\ U32("pc") \in Palabras
      /\ U32("numero") \in Palabras
  BY <1>1, CamposEs
<1>3. ASSUME NEW a \in Palabras, NEW b \in Palabras, NEW c \in Palabras
      PROVE  /\ <<a>> \in Seq(Palabras) /\ Len(<<a>>) = 1
             /\ <<a, b>> \in Seq(Palabras) /\ Len(<<a, b>>) = 2
             /\ <<a, b, c>> \in Seq(Palabras) /\ Len(<<a, b, c>>) = 3
             /\ <<a, b>> \o <<c>> = <<a, b, c>>
  BY JuntasTres
<1>4. CASE op = "ASIGNAR_MEMORIA"
  <2> DEFINE s == <<Pid, U32("tamanio")>>
  <2> HIDE DEF s
  <2>1. s \in Seq(Palabras) /\ Len(s) = 2
    BY <1>2, <1>3 DEF s
  <2>2. Escribe(con, op, m) = Memcpy(8, s)
    BY <1>4 DEF Escribe, serializar_asignar_memoria, s
  <2>3. Memcpy(4 * Len(s), s) = Escribe(con, op, m)
    BY <2>1, <2>2
  <2>4. Lee(con, op).campos = s
    BY <1>4 DEF Lee, deserializar_asignar_memoria, Leer, s
  <2> QED BY <2>1, <2>3, <2>4
<1>5. CASE op = "CONFIRMAR_ESPACIO_PROCESO"
  <2> DEFINE s == <<Pid, U32("bit_confirmacion")>>
  <2> HIDE DEF s
  <2>1. s \in Seq(Palabras) /\ Len(s) = 2
    BY <1>2, <1>3 DEF s
  <2>2. Escribe(con, op, m) = Memcpy(8, s)
    BY <1>5 DEF Escribe, serializar_proceso_memoria, s
  <2>3. Memcpy(4 * Len(s), s) = Escribe(con, op, m)
    BY <2>1, <2>2
  <2>4. Lee(con, op).campos = s
    BY <1>5 DEF Lee, deserializar_proceso_memoria, Memcpy, s
  <2> QED BY <2>1, <2>3, <2>4
<1>6. CASE op = "CONFIRMAR_CREACION_HILO"
  <2> DEFINE s == <<Pid, Tid, U32("bit_confirmacion")>>
  <2> HIDE DEF s
  <2>1. s \in Seq(Palabras) /\ Len(s) = 3 /\ PidTid \o <<U32("bit_confirmacion")>> = s
    BY <1>2, <1>3 DEF PidTid, s
  <2>2. Escribe(con, op, m) = Memcpy(12, s)
    <3>1. Escribe(con, op, m) = serializar_hilo_memoria(m)
      BY <1>6 DEF Escribe
    <3>2. serializar_hilo_memoria(m) = Memcpy(3 * 4, s)
      BY <2>1 DEF serializar_hilo_memoria
    <3> QED BY <3>1, <3>2
  <2>3. Memcpy(4 * Len(s), s) = Escribe(con, op, m)
    BY <2>1, <2>2
  <2>4. Lee(con, op).campos = s
    BY <1>6, <2>1 DEF Lee, deserializar_creacion_hilo_memoria, Memcpy
  <2> QED BY <2>1, <2>3, <2>4
<1>7. CASE op \in {"RECIBIR_TID", "OBTENER_CONTEXTO"}
  <2> DEFINE s == PidTid
  <2> HIDE DEF s
  <2>1. s \in Seq(Palabras) /\ Len(s) = 2
    BY <1>2, <1>3 DEF PidTid, s
  <2>2. Escribe(con, op, m) = Memcpy(8, s)
    BY <1>7 DEF Escribe, serializar_hilo_cpu, s
  <2>3. Memcpy(4 * Len(s), s) = Escribe(con, op, m)
    BY <2>1, <2>2
  <2>4. Lee(con, op).campos = s
    BY <1>7 DEF Lee, deserializar_enviar_contexto, Leer, s
  <2> QED BY <2>1, <2>3, <2>4
<1>8. CASE op = "OBTENER_INSTRUCCION"
  <2> DEFINE s == <<U32("pc"), Tid, Pid>>
  <2> HIDE DEF s
  <2>1. s \in Seq(Palabras) /\ Len(s) = 3
    BY <1>2, <1>3 DEF s
  <2>2. Escribe(con, op, m) = Memcpy(12, s)
    BY <1>8 DEF Escribe, serializar_obtener_instruccion, s
  <2>3. Memcpy(4 * Len(s), s) = Escribe(con, op, m)
    BY <2>1, <2>2
  <2>4. Lee(con, op).campos = s
    BY <1>8 DEF Lee, deserializar_obtener_instruccion, Memcpy, s
  <2> QED BY <2>1, <2>3, <2>4
<1>9. CASE op \in {"CONFIRMAR_CONTEXTO_ACTUALIZADO", "CONFIRMAR_WRITE_MEM", "ENVIAR_READ_MEM"}
  <2> DEFINE s == <<U32("numero")>>
  <2> HIDE DEF s
  <2>1. s \in Seq(Palabras) /\ Len(s) = 1
    BY <1>2, <1>3 DEF s
  <2>2. Escribe(con, op, m) = Memcpy(4, s)
    BY <1>9 DEF Escribe, serializar_int, s
  <2>3. Memcpy(4 * Len(s), s) = Escribe(con, op, m)
    BY <2>1, <2>2
  <2>4. Lee(con, op).campos \in {s, << >>}
    BY <1>9 DEF Lee, deserializar_int, SinLeer, Memcpy, Leer, s
  <2> QED BY <2>1, <2>3, <2>4
<1> QED BY <1>4, <1>5, <1>6, <1>7, <1>8, <1>9 DEF DePalabras

\* And each of the second ones.
LEMMA EscribeCreciendo ==
  ASSUME NEW con, NEW op \in QueCrecen, NEW m
  PROVE  \E campos \in Seq(Justos) :
           /\ Escribe(con, op, m) = Agregar(campos)
           /\ op # "FINALIZAR_HILO" => Lee(con, op).campos = campos
<1>1. /\ "dir_fis" \in Nombres /\ "valor" \in Nombres /\ "archivo" \in Nombres
      /\ "tamanio" \in Nombres /\ "prioridad" \in Nombres /\ "tid_pedido" \in Nombres
      /\ "tiempo" \in Nombres /\ "recurso" \in Nombres
  BY DEF Nombres
<1>2. /\ Pid \in Justos /\ Tid \in Justos /\ U32("dir_fis") \in Justos /\ U32("valor") \in Justos
      /\ Cadena("archivo") \in Justos /\ U32("tamanio") \in Justos
      /\ U32("prioridad") \in Justos /\ U32("tid_pedido") \in Justos
      /\ U32("tiempo") \in Justos /\ Cadena("recurso") \in Justos
  BY <1>1, CamposEs
<1>3. ASSUME NEW a \in Justos, NEW b \in Justos, NEW c \in Justos
      PROVE  /\ <<a>> \in Seq(Justos) /\ <<a, b>> \in Seq(Justos) /\ <<a, b, c>> \in Seq(Justos)
             /\ <<a, b>> \o <<c>> \in Seq(Justos)
  OBVIOUS
<1>4. PidTid \in Seq(Justos)
  BY <1>2, <1>3 DEF PidTid
<1>5. CASE op \in {"PROCESS_EXIT", "THREAD_EXIT", "DUMP_MEMORY"}
  <2>1. Escribe(con, op, m) = Agregar(PidTid)
    BY <1>5 DEF Escribe, serializar_datos_esenciales, serializar_datos_dump_memory
  <2>3. Lee(con, op).campos = PidTid
    BY <1>5 DEF Lee, deserializar_datos_esenciales, deserializar_datos_dump_memory, Leer
  <2> QED BY <1>4, <2>1, <2>3
<1>6. CASE op = "FINALIZAR_PROCESO"
  <2>1. Escribe(con, op, m) = Agregar(<<Pid>>)
    BY <1>6 DEF Escribe, agregar_pid
  <2>3. Lee(con, op).campos = <<Pid>>
    BY <1>6 DEF Lee, finalizar_proceso, Leer
  <2> QED BY <1>2, <1>3, <2>1, <2>3
<1>7. CASE op = "FINALIZAR_HILO"
  <2>1. Escribe(con, op, m) = Agregar(<<Pid, Pid>>)
    BY <1>7 DEF Escribe, serializar_finalizar_hilo
  <2> QED BY <1>7, <1>2, <1>3, <2>1
<1>8. CASE op = "WRITE_MEM"
  <2> DEFINE s == <<U32("dir_fis"), U32("valor")>>
  <2> HIDE DEF s
  <2>1. Escribe(con, op, m) = Agregar(s \o PidTid)
    BY <1>8 DEF Escribe, serializar_write_mem, s
  <2>2. s \in Seq(Justos)
    BY <1>2, <1>3 DEF s
  <2>3. Lee(con, op).campos = s \o PidTid
    BY <1>8 DEF Lee, deserializar_write_mem, Leer, s
  <2> QED BY <1>4, <2>1, <2>2, <2>3, ConcatProperties
<1>9. CASE op = "READ_MEM"
  <2> DEFINE s == <<U32("dir_fis")>>
  <2> HIDE DEF s
  <2>1. Escribe(con, op, m) = Agregar(s \o PidTid)
    BY <1>9 DEF Escribe, serializar_read_mem, s
  <2>2. s \in Seq(Justos)
    BY <1>2, <1>3 DEF s
  <2>3. Lee(con, op).campos = s \o PidTid
    BY <1>9 DEF Lee, deserializar_read_mem, Leer, s
  <2> QED BY <1>4, <2>1, <2>2, <2>3, ConcatProperties
<1>10. CASE op = "PROCESS_CREATE"
  <2> DEFINE s == <<Cadena("archivo"), U32("tamanio"), U32("prioridad")>>
  <2> HIDE DEF s
  <2>1. Escribe(con, op, m) = Agregar(PidTid \o s)
    BY <1>10 DEF Escribe, serializar_process_create, s
  <2>2. s \in Seq(Justos)
    BY <1>2, <1>3 DEF s
  <2>3. Lee(con, op).campos = PidTid \o s
    BY <1>10 DEF Lee, deserializar_process_create, Leer, s
  <2> QED BY <1>4, <2>1, <2>2, <2>3, ConcatProperties
<1>11. CASE op \in {"THREAD_JOIN", "THREAD_CANCEL"}
  <2> DEFINE s == <<U32("tid_pedido")>>
  <2> HIDE DEF s
  <2>1. Escribe(con, op, m) = Agregar(PidTid \o s)
    BY <1>11 DEF Escribe, serializar_thread_join_y_cancel, s
  <2>2. s \in Seq(Justos)
    BY <1>2, <1>3 DEF s
  <2>3. Lee(con, op).campos = PidTid \o s
    BY <1>11 DEF Lee, deserializar_thread_join_y_cancel, Leer, s
  <2> QED BY <1>4, <2>1, <2>2, <2>3, ConcatProperties
<1>12. CASE op \in {"MUTEX_CREATE", "MUTEX_LOCK", "MUTEX_UNLOCK"}
  <2> DEFINE s == <<Cadena("recurso")>>
  <2> HIDE DEF s
  <2>1. Escribe(con, op, m) = Agregar(PidTid \o s)
    BY <1>12 DEF Escribe, serializar_mutex, s
  <2>2. s \in Seq(Justos)
    BY <1>2, <1>3 DEF s
  <2>3. Lee(con, op).campos = PidTid \o s
    BY <1>12 DEF Lee, deserializar_mutex, Leer, s
  <2> QED BY <1>4, <2>1, <2>2, <2>3, ConcatProperties
<1>13. CASE op = "IO"
  <2> DEFINE s == <<U32("tiempo")>>
  <2> HIDE DEF s
  <2>1. Escribe(con, op, m) = Agregar(PidTid \o s)
    BY <1>13 DEF Escribe, serializar_IO, s
  <2>2. s \in Seq(Justos)
    BY <1>2, <1>3 DEF s
  <2>3. Lee(con, op).campos = PidTid \o s
    BY <1>13 DEF Lee, deserializar_IO, Leer, s
  <2> QED BY <1>4, <2>1, <2>2, <2>3, ConcatProperties
<1> QED BY <1>5, <1>6, <1>7, <1>8, <1>9, <1>10, <1>11, <1>12, <1>13 DEF QueCrecen

\* No serialiser computes too little or too much.
LEMMA TodosCaben ==
  ASSUME NEW con \in DOMAIN Operaciones, NEW op \in Operaciones[con],
         NEW m, m.n \in Nat, m.largo \in Nat
  PROVE  FormatoT(Escribe(con, op, m)) /\ Cabe(Escribe(con, op, m), m)
<1>1. CASE op \in DePalabras
  <2>1. PICK campos \in Seq(Palabras) : Escribe(con, op, m) = Memcpy(4 * Len(campos), campos)
    BY <1>1, EscribePalabras
  <2> QED BY <2>1, PalabrasCabe
<1>2. CASE op \in QueCrecen
  <2>1. PICK campos \in Seq(Justos) : Escribe(con, op, m) = Agregar(campos)
    BY <1>2, EscribeCreciendo
  <2> QED BY <2>1, AgregarCabe
<1>3. CASE op = "HILO_READY"
  <2>1. Escribe(con, op, m) = serializar_hilo_ready(m)
    BY <1>3 DEF Escribe
  <2> QED BY <2>1, HiloReadyCabe
<1>4. CASE op = "THREAD_CREATE"
  <2>1. Escribe(con, op, m) = serializar_thread_create(m)
    BY <1>4 DEF Escribe
  <2> QED BY <2>1, ThreadCreateCabe
<1>5. CASE op = "ENVIAR_INSTRUCCION"
  <2>1. Escribe(con, op, m) = serializar_enviar_instruccion(m)
    BY <1>5 DEF Escribe
  <2> QED BY <2>1, InstruccionCabe
<1>6. CASE op \in {"ACTUALIZAR_CONTEXTO", "ENVIAR_CONTEXTO"}
  <2>1. Escribe(con, op, m) = serializar_enviar_contexto_cpu(m)
    BY <1>6 DEF Escribe
  <2> QED BY <2>1, ContextoCabe
<1> QED BY <1>1, <1>2, <1>3, <1>4, <1>5, <1>6, Clases

-----------------------------------------------------------------------------
(* Blocks just full *)

JustoIInv == conexion \in DOMAIN Operaciones /\ armados \in Nat /\ justo

\* Every serialiser of the program, called for any operation and any string, fills the
\* block it allocates to the last byte and writes nothing past it.
THEOREM Justeza == Spec => []BloqueJusto
<1>1. Init => JustoIInv
  <2>1. Init => justo
    BY DEF Init
  <2>2. Init => conexion \in DOMAIN Operaciones
    BY Zenon DEF Init
  <2>3. Init => armados = 0
    BY Zenon DEF Init
  <2> QED BY <2>1, <2>2, <2>3 DEF JustoIInv
<1>2. JustoIInv /\ [Next]_vars => JustoIInv'
  <2> SUFFICES ASSUME JustoIInv, [Next]_vars PROVE JustoIInv'
    OBVIOUS
  <2>1. ASSUME NEW h \in Hilos, NEW op \in Operaciones[conexion], NEW largo \in Largos,
               NEW offset \in Offsets, Armar(h, op, largo, offset)
        PROVE  JustoIInv'
    <3> DEFINE sin == [op |-> op, n |-> armados + 1, largo |-> largo, offset |-> offset,
                       datos |-> {}]
               m == [sin EXCEPT !.datos = Pedido(conexion, sin)]
               s == Serializar(Escribe(conexion, op, m), m, offset)
    <3>1. conexion \in DOMAIN Operaciones /\ armados \in Nat /\ justo
      BY DEF JustoIInv
    <3>2. m.n = armados + 1 /\ m.largo = largo
      OBVIOUS
    <3>3. /\ justo' = (justo /\ (offset = 0 => s.dentro /\ s.pos = Len(s.stream)))
          /\ armados' = armados + 1 /\ conexion' = conexion
      BY <2>1 DEF Armar
    <3> HIDE DEF m
    <3>4. m.n \in Nat /\ m.largo \in Nat
      BY <3>1, <3>2, ParametrosPaquetes
    <3>5. offset = 0 => s.dentro /\ s.pos = Len(s.stream)
      BY <3>1, <3>4, TodosCaben, SerializaBien
    <3> HIDE DEF s
    <3>6. armados' \in Nat /\ conexion' \in DOMAIN Operaciones
      BY <3>1, <3>3
    <3>7. justo'
      BY <3>1, <3>3, <3>5
    <3> QED BY <3>6, <3>7 DEF JustoIInv
  <2>2. CASE UNCHANGED <<conexion, armados, justo>>
    BY <2>2 DEF JustoIInv
  <2>3. ASSUME NEW h \in Hilos, Enviar(h) PROVE UNCHANGED <<conexion, armados, justo>>
    BY <2>3 DEF Enviar
  <2>4. CASE Cerrar \/ Recibir \/ UNCHANGED vars
    BY <2>2, <2>4 DEF Cerrar, Recibir, RecibirOperacion, RecibirTamanio, RecibirContenido, LeerCampo,
       Entregar, vars
  <2> QED BY <2>1, <2>2, <2>3, <2>4 DEF Next, Recibir
<1>3. JustoIInv => BloqueJusto
  BY DEF JustoIInv, BloqueJusto
<1> QED BY <1>1, <1>2, <1>3, PTL DEF Spec

-----------------------------------------------------------------------------
(* Messages and their bytes *)

\* What Armar leaves to be sent.
Mensaje(con, op, n, largo, offset) ==
  [op |-> op, n |-> n, largo |-> largo, offset |-> offset,
   datos |-> Pedido(con, [op |-> op, n |-> n, largo |-> largo, offset |-> offset, datos |-> {}])]

Mensajes(con) ==
  {Mensaje(con, op, n, largo, offset) :
     op \in Operaciones[con], n \in Nat \ {0}, largo \in Nat, offset \in Nat}

Stream(con, m) == Serializar(Escribe(con, m.op, m), m, m.offset).stream

\* The two words of the header, and the packet.
DeOp(m)          == Bytes(<<"op", m.op>>, 4)
DeTamanio(con, m) == Bytes(<<"num", Len(Stream(con, m))>>, 4)
Trozo(con, m)    == DeOp(m) \o DeTamanio(con, m) \o Stream(con, m)

LEMMA MensajeEs ==
  ASSUME NEW con \in DOMAIN Operaciones, NEW m \in Mensajes(con)
  PROVE  /\ m.op \in Operaciones[con] /\ m.op \in Ops
         /\ m.n \in Nat /\ m.largo \in Nat /\ m.offset \in Nat
         /\ m # Ninguno /\ m.datos = Pedido(con, m)
<1>1. PICK op \in Operaciones[con], n \in Nat \ {0}, largo \in Nat, offset \in Nat :
        m = Mensaje(con, op, n, largo, offset)
  BY DEF Mensajes
<1>2. /\ m.op = op /\ m.n = n /\ m.largo = largo /\ m.offset = offset
      /\ m.datos = Pedido(con, [op |-> op, n |-> n, largo |-> largo, offset |-> offset, datos |-> {}])
  BY <1>1 DEF Mensaje
<1>3. Pedido(con, [op |-> op, n |-> n, largo |-> largo, offset |-> offset, datos |-> {}])
        = Pedido(con, m)
  BY <1>2 DEF Pedido
<1>4. Ninguno.n = 0
  BY DEF Ninguno
<1>5. m.op \in Ops
  BY <1>2 DEF Ops
<1> QED BY <1>2, <1>3, <1>4, <1>5

LEMMA Juntar ==
  ASSUME NEW a \in Bloque, NEW b \in Bloque PROVE a \o b \in Bloque
BY ConcatProperties DEF Bloque

LEMMA Asociar ==
  ASSUME NEW a \in Bloque, NEW b \in Bloque, NEW c \in Bloque
  PROVE  (a \o b) \o c = a \o (b \o c)
<1> DEFINE S == Byte
<1>1. a \in Seq(S) /\ b \in Seq(S) /\ c \in Seq(S)
  BY DEF Bloque
<1> HIDE DEF S
<1> QED BY ONLY <1>1, ConcatAssociative

LEMMA TrozoEs ==
  ASSUME NEW con \in DOMAIN Operaciones, NEW m \in Mensajes(con)
  PROVE  /\ Stream(con, m) \in Bloque /\ DeOp(m) \in Bloque /\ DeTamanio(con, m) \in Bloque
         /\ Len(DeOp(m)) = 4 /\ Len(DeTamanio(con, m)) = 4 /\ Trozo(con, m) \in Bloque
         /\ EnTrozos(m.op, Stream(con, m)) = <<Trozo(con, m)>>
<1>1. m.op \in Operaciones[con] /\ m.op \in Ops /\ m.n \in Nat /\ m.largo \in Nat /\ m.offset \in Nat
  BY MensajeEs
<1>2. Stream(con, m) \in Bloque
  <2> DEFINE F == Escribe(con, m.op, m)
  <2>1. FormatoT(F)
    BY <1>1, TodosCaben
  <2> DEFINE o == m.offset
  <2>o. m.n \in Nat /\ m.largo \in Nat /\ o \in Nat
    BY <1>1
  <2> HIDE DEF F, o
  <2>2. PICK f \in [0 .. Len(F.campos) -> Escritura] : Serializar(F, m, o) = f[Len(F.campos)]
    BY ONLY <2>o, <2>1, SerializarEs
  <2>3. Len(F.campos) \in 0 .. Len(F.campos)
    BY <2>1 DEF FormatoT
  <2>4. Serializar(F, m, o) \in Escritura
    BY ONLY <2>2, <2>3
  <2> QED BY <2>4 DEF Escritura, Stream, F, o
<1>3. Len(Stream(con, m)) \in Nat
  BY <1>2 DEF Bloque
<1>4. <<"op", m.op>> \in ValorT /\ <<"num", Len(Stream(con, m))>> \in ValorT
  BY <1>1, <1>3 DEF ValorT
<1>5. DeOp(m) \in Bloque /\ Len(DeOp(m)) = 4
  BY <1>4, BytesEs DEF DeOp
<1>6. DeTamanio(con, m) \in Bloque /\ Len(DeTamanio(con, m)) = 4
  BY <1>4, BytesEs DEF DeTamanio
<1>7. Trozo(con, m) \in Bloque
  BY <1>2, <1>5, <1>6, Juntar DEF Trozo
<1>8. EnTrozos(m.op, Stream(con, m)) = <<Trozo(con, m)>>
  BY DEF EnTrozos, Trozo, DeOp, DeTamanio
<1> QED BY <1>2, <1>5, <1>6, <1>7, <1>8

\* A recv of what a send put in front.
LEMMA Corte ==
  ASSUME NEW a \in Bloque, NEW b \in Bloque
  PROVE  /\ a \o b \in Bloque /\ SubSeq(a \o b, 1, Len(a)) = a
         /\ SubSeq(a \o b, Len(a) + 1, Len(a \o b)) = b
<1> DEFINE s == a \o b
           n == Len(a)
           p == SubSeq(s, 1, n)
           q == SubSeq(s, n + 1, Len(s))
<1>1. /\ s \in Seq(Byte) /\ Len(s) = Len(a) + Len(b) /\ a \in Seq(Byte) /\ b \in Seq(Byte)
      /\ Len(a) \in Nat /\ Len(b) \in Nat
      /\ \A i \in 1 .. Len(a) + Len(b) : s[i] = IF i <= Len(a) THEN a[i] ELSE b[i - Len(a)]
  BY ConcatProperties DEF Bloque
<1> HIDE DEF s
<1>2. p = a
  <2>1. p \in Seq(Byte) /\ Len(p) = Len(a) /\ \A i \in 1 .. Len(a) : p[i] = s[i]
    BY <1>1
  <2>2. \A i \in 1 .. Len(a) : s[i] = a[i]
    BY <1>1
  <2> HIDE DEF p
  <2> QED BY <1>1, <2>1, <2>2, SeqEqual
<1>3. q = b
  <2>1. q \in Seq(Byte) /\ Len(q) = Len(b) /\ \A i \in 1 .. Len(b) : q[i] = s[Len(a) + i]
    BY <1>1
  <2>2. ASSUME NEW i \in 1 .. Len(b) PROVE s[Len(a) + i] = b[i]
    <3>1. Len(a) + i \in 1 .. Len(a) + Len(b) /\ ~(Len(a) + i <= Len(a)) /\ (Len(a) + i) - Len(a) = i
      BY <1>1
    <3> QED BY <1>1, <3>1
  <2> HIDE DEF q
  <2> QED BY <1>1, <2>1, <2>2, SeqEqual
<1> QED BY <1>1, <1>2, <1>3 DEF s, p, q, Bloque

LEMMA CorteDeUnaPalabra ==
  ASSUME NEW a \in Bloque, Len(a) = 4, NEW b \in Bloque, NEW s, s = a \o b
  PROVE  s \in Bloque /\ SubSeq(s, 1, 4) = a /\ SubSeq(s, 5, Len(s)) = b
<1>1. a \in Bloque /\ b \in Bloque
  OBVIOUS
<1>2. /\ a \o b \in Bloque /\ SubSeq(a \o b, 1, Len(a)) = a
      /\ SubSeq(a \o b, Len(a) + 1, Len(a \o b)) = b
  BY ONLY <1>1, Corte
<1>3. Len(a) + 1 = 5 /\ Len(a) = 4 /\ s = a \o b
  OBVIOUS
<1> QED BY <1>2, <1>3

\* What the bytes of a value mean.
LEMMA ValorDeBytes ==
  ASSUME NEW v \in ValorT, NEW n \in Nat \ {0}
  PROVE  Valor(Bytes(v, n)) = <<v, n>> /\ Bytes(v, n)[1] = <<v, 1>>
<1> DEFINE b == Bytes(v, n)
<1>1. b \in Bloque /\ Len(b) = n /\ \A i \in 1 .. n : b[i] = <<v, i>>
  BY BytesEs
<1>2. 1 \in 1 .. n /\ n # 0
  OBVIOUS
<1>3. b[1] = <<v, 1>> /\ b # << >>
  <2> HIDE DEF b
  <2> QED BY <1>1, <1>2
<1>4. b = Bytes(b[1][1], Len(b))
  <2>1. b[1][1] = v
    <3> HIDE DEF b
    <3> QED BY <1>3
  <2> QED BY <1>1, <2>1
<1>5. Valor(b) = <<b[1][1], Len(b)>>
  <2> HIDE DEF b
  <2> QED BY <1>3, <1>4 DEF Valor
<1> HIDE DEF b
<1>6. b[1][1] = v
  BY <1>3
<1> QED BY <1>1, <1>3, <1>5, <1>6 DEF b

LEMMA ValorEs ==
  ASSUME NEW b \in Bloque
  PROVE  /\ Valor(b) \in ValorT \X Nat
         /\ EsNumero(b) => Numero(b) \in Nat
<1>1. "basura" \in {"num", "basura"} \cup Nombres
  OBVIOUS
<1>2. Indefinido \in ValorT \X Nat
  BY <1>1 DEF Indefinido, ValorT
<1>3. ASSUME b # << >> PROVE b[1] \in Byte /\ b[1][1] \in ValorT
  <2>1. b[1] \in Byte
    BY <1>3 DEF Bloque
  <2> QED BY <2>1 DEF Byte
<1>4. Valor(b) \in ValorT \X Nat
  BY <1>2, <1>3 DEF Valor, Bloque
<1>5. ASSUME EsNumero(b) PROVE Numero(b) \in Nat
  <2>1. b # << >>
    BY <1>5 DEF EsNumero, Valor
  <2>2. b[1][1] \in ValorT /\ b[1][1][1] = "num"
    BY <1>3, <1>5, <2>1 DEF EsNumero
  <2>3. b[1][1][2] \in Nat
    BY <2>2 DEF ValorT
  <2> QED BY <2>3 DEF Numero
<1> QED BY <1>4, <1>5

LEMMA TomarEs ==
  ASSUME NEW b \in Bloque, NEW off \in Nat, NEW n \in Nat
  PROVE  Tomar(b, off, n) \in Bloque
<1>1. "basura" \in {"num", "basura"} \cup Nombres
  OBVIOUS
<1>2. Indefinido \in Byte
  BY <1>1 DEF Indefinido, Byte, ValorT
<1>3. \A i \in 1 .. n : off + i \in DOMAIN b => b[off + i] \in Byte
  BY DEF Bloque
<1>4. Tomar(b, off, n) \in Bloque
  <2>1. Tomar(b, off, n) \in [1 .. n -> Byte]
    BY <1>2, <1>3 DEF Tomar
  <2> QED BY <2>1 DEF Bloque
<1> QED BY <1>4

LEMMA TomarIgual ==
  ASSUME NEW b \in Bloque, NEW off, NEW n, NEW v,
         \A i \in 1 .. n : off + i \in 1 .. Len(b) /\ b[off + i] = <<v, i>>
  PROVE  Tomar(b, off, n) = Bytes(v, n)
<1>1. DOMAIN b = 1 .. Len(b)
  BY DEF Bloque
<1>2. \A i \in 1 .. n : (IF off + i \in DOMAIN b THEN b[off + i] ELSE Indefinido) = <<v, i>>
  BY <1>1
<1> QED BY <1>2 DEF Tomar, Bytes

-----------------------------------------------------------------------------
(* A socket at the boundary of a packet: the packets of the messages not delivered, one
   after the other *)

Parejas(con) == Bloque \X Seq(Mensajes(con))

Crece(con, S) ==
  /\ << << >>, << >> >> \in S
  /\ \A s \in Bloque, q \in Seq(Mensajes(con)), m \in Mensajes(con) :
       <<s, q>> \in S => <<s \o Trozo(con, m), Append(q, m)>> \in S

Cables(con) == {p \in Parejas(con) : \A S \in SUBSET Parejas(con) : Crece(con, S) => p \in S}

LEMMA CablesCrecen ==
  ASSUME NEW con \in DOMAIN Operaciones PROVE Crece(con, Cables(con))
<1>1. << << >>, << >> >> \in Cables(con)
  <2>1. << << >>, << >> >> \in Parejas(con)
    BY EmptySeq DEF Parejas, Bloque
  <2> QED BY <2>1 DEF Cables, Crece
<1>2. ASSUME NEW s \in Bloque, NEW q \in Seq(Mensajes(con)), NEW m \in Mensajes(con),
             <<s, q>> \in Cables(con)
      PROVE  <<s \o Trozo(con, m), Append(q, m)>> \in Cables(con)
  <2>1. s \o Trozo(con, m) \in Bloque
    <3>1. Trozo(con, m) \in Bloque
      BY TrozoEs
    <3> QED BY <3>1, Juntar
  <2>2. Append(q, m) \in Seq(Mensajes(con))
    BY AppendProperties
  <2>3. <<s \o Trozo(con, m), Append(q, m)>> \in Parejas(con)
    BY <2>1, <2>2 DEF Parejas
  <2>4. ASSUME NEW S \in SUBSET Parejas(con), Crece(con, S)
        PROVE  <<s \o Trozo(con, m), Append(q, m)>> \in S
    <3>1. <<s, q>> \in S
      BY <1>2, <2>4 DEF Cables
    <3> QED BY <2>4, <3>1 DEF Crece
  <2> QED BY <2>3, <2>4 DEF Cables
<1> QED BY <1>1, <1>2 DEF Crece

\* Nothing, or the packet of the first message and a socket for the rest.
LEMMA CableCabeza ==
  ASSUME NEW con \in DOMAIN Operaciones, NEW s, NEW q, <<s, q>> \in Cables(con)
  PROVE  /\ s \in Bloque /\ q \in Seq(Mensajes(con))
         /\ \/ s = << >> /\ q = << >>
            \/ /\ q # << >> /\ Head(q) \in Mensajes(con)
               /\ \E r : s = Trozo(con, Head(q)) \o r /\ <<r, Tail(q)>> \in Cables(con)
<1> DEFINE M == Mensajes(con)
           Q == Cables(con)
           Bien(t, u) == \/ t = << >> /\ u = << >>
                         \/ /\ u # << >>
                            /\ \E r : t = Trozo(con, Head(u)) \o r /\ <<r, Tail(u)>> \in Q
           S == {p \in Q : Bien(p[1], p[2])}
<1>1. Q \in SUBSET Parejas(con) /\ Crece(con, Q)
  BY CablesCrecen DEF Cables
<1> HIDE DEF Q
<1>2. S \in SUBSET Parejas(con)
  BY <1>1
<1>3. << << >>, << >> >> \in S
  BY <1>1 DEF Crece
<1>4. ASSUME NEW t \in Bloque, NEW u \in Seq(M), NEW m \in M, <<t, u>> \in S
      PROVE  <<t \o Trozo(con, m), Append(u, m)>> \in S
  <2> DEFINE x == Trozo(con, m)
  <2>0. x \in Bloque
    BY TrozoEs
  <2> HIDE DEF x, M
  <2>1. <<t \o x, Append(u, m)>> \in Q
    BY <1>1, <1>4 DEF Crece, x, M
  <2>2. Bien(t, u)
    BY <1>4
  <2>3. Bien(t \o x, Append(u, m))
    <3>1. Append(u, m) # << >>
      BY AppendProperties
    <3>2. /\ Head(Append(u, m)) = IF u = << >> THEN m ELSE Head(u)
          /\ Tail(Append(u, m)) = IF u = << >> THEN << >> ELSE Append(Tail(u), m)
      BY HeadTailAppend
    <3>3. CASE t = << >> /\ u = << >>
      <4>1. t \o x = x \o << >>
        BY <2>0, <3>3, ConcatEmptySeq DEF Bloque
      <4>2. << << >>, << >> >> \in Q
        BY <1>1 DEF Crece
      <4> QED BY <3>1, <3>2, <3>3, <4>1, <4>2 DEF x
    <3>4. CASE u # << >> /\ \E r : t = Trozo(con, Head(u)) \o r /\ <<r, Tail(u)>> \in Q
      <4>1. PICK r : t = Trozo(con, Head(u)) \o r /\ <<r, Tail(u)>> \in Q
        BY <3>4
      <4>2. r \in Bloque /\ Tail(u) \in Seq(M)
        BY <1>1, <4>1 DEF Parejas, M
      <4>3. Head(u) \in M
        BY <3>4, HeadTailProperties
      <4>4. Trozo(con, Head(u)) \in Bloque
        BY <4>3, TrozoEs DEF M
      <4>5. t \o x = Trozo(con, Head(u)) \o (r \o x)
        BY <2>0, <4>1, <4>2, <4>4, Asociar
      <4>6. <<r \o x, Append(Tail(u), m)>> \in Q
        BY <1>1, <4>1, <4>2 DEF Crece, x, M
      <4> QED BY <3>1, <3>2, <3>4, <4>5, <4>6
    <3> QED BY <2>2, <3>3, <3>4
  <2> QED BY <2>1, <2>3 DEF x
<1>5. Crece(con, S)
  <2> HIDE DEF S
  <2> QED BY <1>3, <1>4 DEF Crece
<1>6. <<s, q>> \in S
  <2> HIDE DEF S
  <2> QED BY <1>2, <1>5 DEF Cables
<1>7. Bien(s, q)
  BY <1>6
<1>8. s \in Bloque /\ q \in Seq(Mensajes(con))
  BY DEF Cables, Parejas
<1>9. q # << >> => Head(q) \in Mensajes(con)
  BY <1>8, HeadTailProperties
<1> QED BY <1>7, <1>8, <1>9 DEF Q

-----------------------------------------------------------------------------
(* What the reader makes of a stream *)

\* A field as it was written and as it is read.
Casa(w, r) ==
  /\ r.nombre = w.nombre /\ r.avance = w.avance /\ r.cadena = w.cadena /\ r.copia = w.avance

\* Each deserialiser asks for the fields of its serialiser in their order, but for the one
\* of FINALIZAR_HILO.
LEMMA Casan ==
  ASSUME NEW con \in DOMAIN Operaciones, NEW op \in Operaciones[con], NEW m,
         op # "FINALIZAR_HILO"
  PROVE  LET w == Escribe(con, op, m).campos
             r == Lee(con, op).campos
         IN /\ r \in Seq(CampoT) /\ Len(r) <= Len(w)
            /\ \A k \in 1 .. Len(r) : Casa(w[k], r[k])
<1> DEFINE w == Escribe(con, op, m).campos
           r == Lee(con, op).campos
<1>1. ASSUME w \in Seq(Justos), r \in {w, << >>}
      PROVE  /\ r \in Seq(CampoT) /\ Len(r) <= Len(w)
             /\ \A k \in 1 .. Len(r) : Casa(w[k], r[k])
  <2> HIDE DEF w, r
  <2>1. r \in Seq(Justos)
    BY <1>1, EmptySeq
  <2>2. \A k \in 1 .. Len(r) : r[k] \in Justos /\ w[k] = r[k]
    BY <1>1, <2>1
  <2>3. r \in Seq(CampoT)
    <3>1. r \in [1 .. Len(r) -> CampoT] /\ Len(r) \in Nat
      BY <2>1, <2>2 DEF Justos
    <3> QED BY <3>1
  <2>4. Len(r) <= Len(w)
    BY <1>1
  <2> QED BY <2>2, <2>3, <2>4 DEF Casa, Justos
<1>2. CASE op \in DePalabras
  <2>1. PICK campos \in Seq(Palabras) :
          /\ Escribe(con, op, m) = Memcpy(4 * Len(campos), campos)
          /\ Lee(con, op).campos \in {campos, << >>}
    BY <1>2, EscribePalabras
  <2>2. campos \in Seq(Justos)
    <3>1. \A k \in 1 .. Len(campos) : campos[k] \in Palabras
      OBVIOUS
    <3>2. campos \in [1 .. Len(campos) -> Justos] /\ Len(campos) \in Nat
      BY <3>1, CamposEs
    <3> QED BY <3>2
  <2>3. w = campos
    BY <2>1 DEF Memcpy
  <2> QED BY <1>1, <2>1, <2>2, <2>3
<1>3. CASE op \in QueCrecen
  <2>1. PICK campos \in Seq(Justos) :
          /\ Escribe(con, op, m) = Agregar(campos)
          /\ op # "FINALIZAR_HILO" => Lee(con, op).campos = campos
    BY <1>3, EscribeCreciendo
  <2>2. w = campos
    BY <2>1 DEF Agregar
  <2> QED BY <1>1, <2>1, <2>2
<1>4. CASE op = "HILO_READY"
  <2> DEFINE c3 == Campo("prioridad", 8, 4, FALSE)
             c4 == CadenaSizeT("path")
             d3 == U32("prioridad")
  <2>1. "path" \in Nombres /\ "prioridad" \in Nombres
    BY DEF Nombres
  <2>2. c3 \in CampoT /\ c4 \in CampoT /\ d3 \in CampoT /\ Pid \in CampoT /\ Tid \in CampoT
    BY <2>1, CamposEs
  <2>3. w = PidTid \o <<c3, c4>>
    BY <1>4 DEF Escribe, serializar_hilo_ready, Memcpy
  <2>4. r = PidTid \o <<d3, c4>>
    BY <1>4 DEF Lee, deserializar_crear_hilo, Memcpy
  <2>5. Casa(Pid, Pid) /\ Casa(Tid, Tid) /\ Casa(c3, d3) /\ Casa(c4, c4)
    BY DEF Casa, Pid, Tid, U32, CadenaSizeT, Campo
  <2> HIDE DEF c3, c4, d3, w, r
  <2>6. w = <<Pid, Tid, c3, c4>>
    BY <2>2, <2>3, Juntas DEF PidTid
  <2>7. r = <<Pid, Tid, d3, c4>>
    BY <2>2, <2>4, Juntas DEF PidTid
  <2>8. r \in Seq(CampoT) /\ Len(r) = 4 /\ Len(w) = 4
    BY <2>2, <2>6, <2>7
  <2>9. ASSUME NEW k \in 1 .. 4 PROVE Casa(w[k], r[k])
    <3>1. k = 1 \/ k = 2 \/ k = 3 \/ k = 4
      OBVIOUS
    <3> QED BY <2>5, <2>6, <2>7, <3>1
  <2> QED BY <2>8, <2>9 DEF w, r
<1>5. CASE op = "THREAD_CREATE"
  <2> DEFINE c3 == CadenaSizeT("archivo")
             c4 == U32("prioridad")
  <2>1. "archivo" \in Nombres /\ "prioridad" \in Nombres
    BY DEF Nombres
  <2>2. c3 \in Justos /\ c4 \in Justos /\ Pid \in Justos /\ Tid \in Justos
    BY <2>1, CamposEs
  <2>3. w = PidTid \o <<c3, c4>> /\ r = w
    BY <1>5 DEF Escribe, serializar_thread_create, Memcpy, Lee, deserializar_thread_create
  <2> HIDE DEF c3, c4
  <2>4. PidTid \o <<c3, c4>> = <<Pid, Tid, c3, c4>>
    BY <2>2, Juntas DEF PidTid
  <2>5. <<Pid, Tid, c3, c4>> \in Seq(Justos)
    BY <2>2
  <2> QED BY <1>1, <2>3, <2>4, <2>5
<1>6. CASE op = "ENVIAR_INSTRUCCION"
  <2> DEFINE c == Cadena("instruccion")
  <2>1. c \in Justos
    <3>1. "instruccion" \in Nombres
      BY DEF Nombres
    <3> QED BY <3>1, CamposEs
  <2>2. w = <<c>> /\ r = w
    BY <1>6 DEF Escribe, serializar_enviar_instruccion, Memcpy, Lee, deserializar_enviar_instruccion
  <2> HIDE DEF c
  <2>3. <<c>> \in Seq(Justos)
    BY <2>1
  <2> QED BY <1>1, <2>2, <2>3
<1>7. CASE op \in {"ACTUALIZAR_CONTEXTO", "ENVIAR_CONTEXTO"}
  <2>1. w = Contexto /\ r = w
    BY <1>7 DEF Escribe, serializar_enviar_contexto_cpu, Memcpy, Lee, deserializar_enviar_contexto_cpu
  <2>2. Contexto \in Seq(Justos)
    <3> DEFINE c2 == U32("pc")
               c3 == U32("base")
               c4 == U32("limite")
               c6 == Campo("registros", 32, 32, FALSE)
    <3>1. "pc" \in Nombres /\ "base" \in Nombres /\ "limite" \in Nombres
      BY DEF Nombres
    <3>2. /\ Tid \in Justos /\ c2 \in Justos /\ c3 \in Justos /\ c4 \in Justos
          /\ Pid \in Justos /\ c6 \in Justos
      BY <3>1, CamposEs
    <3>3. Contexto = <<Tid, c2, c3, c4, Pid, c6>>
      BY DEF Contexto
    <3> HIDE DEF c2, c3, c4, c6
    <3>4. <<Tid, c2, c3, c4, Pid, c6>> \in Seq(Justos)
      BY <3>2
    <3> QED BY <3>3, <3>4
  <2> QED BY <1>1, <2>1, <2>2
<1> QED BY <1>2, <1>3, <1>4, <1>5, <1>6, <1>7, Clases

\* Of the one that does not match, what the reader does is all that matters.
LEMMA LeeEs ==
  ASSUME NEW con \in DOMAIN Operaciones, NEW op \in Operaciones[con]
  PROVE  Lee(con, op).campos \in Seq(CampoT)
<1>1. CASE op = "FINALIZAR_HILO"
  <2>1. Lee(con, op).campos = <<Pid, Tid>>
    BY <1>1 DEF Lee, deserializar_finalizar_hilo, Leer, PidTid
  <2>2. Pid \in CampoT /\ Tid \in CampoT
    BY CamposEs
  <2>3. <<Pid, Tid>> \in Seq(CampoT)
    BY <2>2
  <2> QED BY <2>1, <2>3
<1> QED BY <1>1, Casan

\* What a field is to say.
Dato(c, m) == <<c.nombre, << <<c.nombre, m.n>>, IF c.cadena THEN m.largo + 1 ELSE c.copia>> >>

LEMMA PedidoEs ==
  ASSUME NEW con, NEW m, Lee(con, m.op).campos \in Seq(CampoT)
  PROVE  Pedido(con, m) = {Dato(Lee(con, m.op).campos[j], m) : j \in 1 .. Len(Lee(con, m.op).campos)}
<1> DEFINE c == Lee(con, m.op).campos
<1>1. Range(c) = {c[j] : j \in 1 .. Len(c)}
  BY DEF Range
<1>2. Pedido(con, m) = {Dato(campo, m) : campo \in Range(c)}
  BY DEF Pedido, Dato
<1> HIDE DEF c
<1> QED BY <1>1, <1>2 DEF c

\* Read from its place, it says that.
LEMMA CampoLeido ==
  ASSUME NEW w \in CampoT, NEW r \in CampoT, Casa(w, r), NEW m, m.n \in Nat, m.largo \in Nat,
         NEW stream \in Bloque, NEW pos \in Nat, pos + Ancho(w, m) <= Len(stream),
         \A i \in 1 .. Ancho(w, m) : stream[pos + i] = Letra(w, m, i)
  PROVE  LET palabra == Tomar(stream, pos, r.copia)
         IN /\ ~r.cadena => <<r.nombre, Valor(palabra)>> = Dato(r, m)
            /\ r.cadena =>
                 /\ EsNumero(palabra) /\ Numero(palabra) = m.largo + 1
                 /\ <<r.nombre, Valor(Tomar(stream, pos + r.avance, m.largo + 1))>> = Dato(r, m)
<1> DEFINE palabra == Tomar(stream, pos, r.copia)
<1>1. /\ r.nombre = w.nombre /\ r.avance = w.avance /\ r.cadena = w.cadena /\ r.copia = w.avance
      /\ r.nombre \in Nombres /\ r.avance \in Nat /\ 0 < r.avance /\ r.cadena \in BOOLEAN
  BY DEF Casa, CampoT
<1>2. Len(stream) \in Nat
  BY DEF Bloque
<1>3. <<r.nombre, m.n>> \in ValorT /\ <<"num", m.largo + 1>> \in ValorT
  <2>1. "num" \in {"num", "basura"} \cup Nombres /\ r.nombre \in {"num", "basura"} \cup Nombres
    BY <1>1
  <2> QED BY <2>1 DEF ValorT
<1>4. ASSUME ~r.cadena PROVE <<r.nombre, Valor(palabra)>> = Dato(r, m)
  <2>1. Ancho(w, m) = r.avance
    BY <1>1, <1>4 DEF Ancho
  <2>2. \A i \in 1 .. r.copia : pos + i \in 1 .. Len(stream) /\ stream[pos + i] = << <<r.nombre, m.n>>, i>>
    BY <1>1, <1>2, <1>4, <2>1 DEF Letra
  <2>3. palabra = Bytes(<<r.nombre, m.n>>, r.copia)
    <3> DEFINE v == <<r.nombre, m.n>>
               n == r.copia
    <3>1. \A i \in 1 .. n : pos + i \in 1 .. Len(stream) /\ stream[pos + i] = <<v, i>>
      BY <2>2
    <3> HIDE DEF v, n
    <3>2. Tomar(stream, pos, n) = Bytes(v, n)
      BY <3>1, TomarIgual
    <3> QED BY <3>2 DEF v, n
  <2>4. r.copia \in Nat \ {0}
    BY <1>1
  <2>5. Valor(palabra) = << <<r.nombre, m.n>>, r.copia>>
    BY <1>3, <2>3, <2>4, ValorDeBytes
  <2> HIDE DEF palabra
  <2> QED BY <1>4, <2>5 DEF Dato
<1>5. ASSUME r.cadena
      PROVE  /\ EsNumero(palabra) /\ Numero(palabra) = m.largo + 1
             /\ <<r.nombre, Valor(Tomar(stream, pos + r.avance, m.largo + 1))>> = Dato(r, m)
  <2>1. Ancho(w, m) = r.avance + (m.largo + 1)
    BY <1>1, <1>5 DEF Ancho
  <2>2. ASSUME NEW i \in 1 .. r.copia
        PROVE  pos + i \in 1 .. Len(stream) /\ stream[pos + i] = << <<"num", m.largo + 1>>, i>>
    <3>1. i \in 1 .. r.avance /\ i \in 1 .. Ancho(w, m) /\ i <= w.avance
      BY <1>1, <2>1
    <3>2. stream[pos + i] = Letra(w, m, i)
      BY <3>1
    <3>3. pos + i \in 1 .. Len(stream)
      BY <1>1, <1>2, <2>1, <3>1
    <3> QED BY <1>1, <1>5, <3>1, <3>2, <3>3 DEF Letra
  <2>3. palabra = Bytes(<<"num", m.largo + 1>>, r.copia)
    <3> DEFINE v == <<"num", m.largo + 1>>
               n == r.copia
    <3>1. \A i \in 1 .. n : pos + i \in 1 .. Len(stream) /\ stream[pos + i] = <<v, i>>
      BY <2>2
    <3> HIDE DEF v, n
    <3>2. Tomar(stream, pos, n) = Bytes(v, n)
      BY <3>1, TomarIgual
    <3> QED BY <3>2 DEF v, n
  <2>4. r.copia \in Nat \ {0}
    BY <1>1
  <2>5. Valor(palabra) = << <<"num", m.largo + 1>>, r.copia>> /\ palabra[1] = << <<"num", m.largo + 1>>, 1>>
    BY <1>3, <2>3, <2>4, ValorDeBytes
  <2> HIDE DEF palabra
  <2>6. EsNumero(palabra) /\ Numero(palabra) = m.largo + 1
    <3>1. palabra[1][1] = <<"num", m.largo + 1>>
      BY <2>5
    <3>2. Valor(palabra) # Indefinido
      BY <2>4, <2>5 DEF Indefinido
    <3> QED BY <3>1, <3>2 DEF EsNumero, Numero
  <2> DEFINE q == pos + r.avance
             l == m.largo + 1
  <2>7. q \in Nat /\ l \in Nat \ {0}
    BY <1>1
  <2>8. ASSUME NEW i \in 1 .. l
        PROVE  q + i \in 1 .. Len(stream) /\ stream[q + i] = << <<r.nombre, m.n>>, i>>
    <3>1. r.avance + i \in 1 .. Ancho(w, m) /\ ~(r.avance + i <= w.avance)
          /\ (r.avance + i) - w.avance = i /\ pos + (r.avance + i) = q + i
      BY SMTT(30), <1>1, <2>1
    <3>2. stream[q + i] = Letra(w, m, r.avance + i)
      BY <3>1
    <3>3. q + i \in 1 .. Len(stream)
      BY SMTT(30), <1>1, <1>2, <2>1
    <3> QED BY <1>1, <1>5, <3>1, <3>2, <3>3 DEF Letra
  <2> HIDE DEF q, l
  <2>9. Tomar(stream, q, l) = Bytes(<<r.nombre, m.n>>, l)
    BY <2>8, TomarIgual
  <2>10. Valor(Tomar(stream, q, l)) = << <<r.nombre, m.n>>, l>>
    BY <1>3, <2>7, <2>9, ValorDeBytes
  <2> QED BY <1>5, <2>6, <2>10 DEF Dato, q, l
<1> QED BY <1>4, <1>5

-----------------------------------------------------------------------------
(* The invariant *)

LectorT ==
  [fase : {"op", "size", "stream", "leer", "fin"}, op : Ops \cup {""}, size : Nat,
   stream : Bloque, offset : Nat, pos : Nat, leidos : Nat,
   datos : SUBSET (Nombres \X (ValorT \X Nat))]

TiposP ==
  /\ conexion \in DOMAIN Operaciones /\ armados \in Nat /\ lector \in LectorT
  /\ socket \in Bloque /\ pendientes \in Seq(Mensajes(conexion))
  /\ hilos \in [Hilos -> [mensaje : Mensajes(conexion) \cup {Ninguno}, falta : Seq(Bloque)]]

\* A thread has its whole packet to send, or nothing.
PaqueteEntero ==
  \A h \in Hilos : \/ hilos[h].falta = << >>
                   \/ /\ hilos[h].mensaje \in Mensajes(conexion)
                      /\ hilos[h].falta = <<Trozo(conexion, hilos[h].mensaje)>>

\* What is yet to be received of the message being received.
Delante(con, fase, m) ==
  IF fase = "size" THEN DeTamanio(con, m) \o Stream(con, m)
  ELSE IF fase = "stream" THEN Stream(con, m) ELSE << >>

\* The listener is at the boundary of a packet, or in the first of those not delivered.
EnElCable ==
  \/ lector.fase = "fin"
  \/ lector.fase = "op" /\ <<socket, pendientes>> \in Cables(conexion)
  \/ /\ lector.fase \in {"size", "stream", "leer"}
     /\ pendientes # << >> /\ lector.op = Head(pendientes).op
     /\ \E r : /\ socket = Delante(conexion, lector.fase, Head(pendientes)) \o r
               /\ <<r, Tail(pendientes)>> \in Cables(conexion)

\* And what it has read of it is what was written.
Leyendo ==
  /\ lector.fase \in {"op", "size", "stream"} => lector.leidos = 0 /\ lector.datos = {}
  /\ lector.fase = "stream" => lector.size = Len(Stream(conexion, Head(pendientes)))
  /\ lector.fase = "leer" =>
       /\ lector.stream = Stream(conexion, Head(pendientes)) /\ lector.leidos <= Len(Campos)
       /\ Limpio(Head(pendientes), lector.offset) =>
            \E p : /\ Lugares(p, Escribe(conexion, lector.op, Head(pendientes)), Head(pendientes),
                              lector.stream)
                   /\ lector.pos = p[lector.leidos]
                   /\ lector.datos = {Dato(Campos[j], Head(pendientes)) : j \in 1 .. lector.leidos}

CanalIInv == TiposP /\ PaqueteEntero /\ EnElCable /\ Leyendo

LEMMA CanalInicio == Init => CanalIInv
<1> SUFFICES ASSUME Init PROVE CanalIInv
  OBVIOUS
<1>1. /\ conexion \in DOMAIN Operaciones /\ socket = << >> /\ lector = EnEspera
      /\ armados = 0 /\ pendientes = << >>
      /\ hilos = [h \in Hilos |-> [mensaje |-> Ninguno, falta |-> << >>]]
  BY DEF Init
<1>2. << >> \in Bloque /\ << >> \in Seq(Bloque) /\ << >> \in Seq(Mensajes(conexion))
  BY EmptySeq DEF Bloque
<1>3. lector \in LectorT /\ lector.fase = "op" /\ lector.leidos = 0 /\ lector.datos = {}
  BY <1>1, <1>2 DEF EnEspera, LectorT
<1>4. TiposP
  BY <1>1, <1>2, <1>3 DEF TiposP
<1>5. PaqueteEntero
  BY <1>1 DEF PaqueteEntero
<1>6. EnElCable
  <2>1. << << >>, << >> >> \in Cables(conexion)
    BY <1>1, CablesCrecen DEF Crece
  <2> QED BY <1>1, <1>3, <2>1 DEF EnElCable
<1>7. Leyendo
  BY <1>3 DEF Leyendo
<1> QED BY <1>4, <1>5, <1>6, <1>7 DEF CanalIInv

LEMMA ArmarBien ==
  ASSUME CanalIInv, NEW h \in Hilos, NEW op \in Operaciones[conexion], NEW largo \in Largos,
         NEW offset \in Offsets, Armar(h, op, largo, offset)
  PROVE  CanalIInv'
<1> DEFINE sin == [op |-> op, n |-> armados + 1, largo |-> largo, offset |-> offset, datos |-> {}]
           m == [sin EXCEPT !.datos = Pedido(conexion, sin)]
           s == Serializar(Escribe(conexion, op, m), m, offset).stream
<1>1. TiposP /\ PaqueteEntero /\ EnElCable /\ Leyendo
  BY DEF CanalIInv
<1>2. /\ hilos' = [hilos EXCEPT ![h] = [mensaje |-> m, falta |-> EnTrozos(op, s)]]
      /\ armados' = armados + 1
      /\ UNCHANGED <<conexion, socket, abierto, lector, pendientes, entregado>>
  BY DEF Armar
<1>3. m = Mensaje(conexion, op, armados + 1, largo, offset)
  BY DEF Mensaje
<1>4. m.op = op /\ m.offset = offset
  OBVIOUS
<1> HIDE DEF m
<1>5. m \in Mensajes(conexion)
  <2>1. armados + 1 \in Nat \ {0} /\ largo \in Nat /\ offset \in Nat
    BY <1>1, ParametrosPaquetes DEF TiposP
  <2> QED BY <1>3, <2>1 DEF Mensajes
<1>6. s = Stream(conexion, m)
  BY <1>4 DEF Stream
<1>7. conexion \in DOMAIN Operaciones
  BY <1>1 DEF TiposP
<1>8. EnTrozos(op, s) = <<Trozo(conexion, m)>> /\ Trozo(conexion, m) \in Bloque
  BY <1>4, <1>5, <1>6, <1>7, TrozoEs
<1> HIDE DEF s
<1>9. hilos' = [hilos EXCEPT ![h] = [mensaje |-> m, falta |-> <<Trozo(conexion, m)>>]]
  BY <1>2, <1>8
<1>10. TiposP'
  <2>1. <<Trozo(conexion, m)>> \in Seq(Bloque)
    BY <1>8
  <2>2. hilos' \in [Hilos -> [mensaje : Mensajes(conexion) \cup {Ninguno}, falta : Seq(Bloque)]]
    BY <1>1, <1>5, <1>9, <2>1 DEF TiposP
  <2> QED BY <1>1, <1>2, <2>2 DEF TiposP
<1>11. PaqueteEntero'
  <2>1. conexion' = conexion
    BY <1>2
  <2>2. ASSUME NEW g \in Hilos
        PROVE  \/ hilos'[g].falta = << >>
               \/ /\ hilos'[g].mensaje \in Mensajes(conexion)
                  /\ hilos'[g].falta = <<Trozo(conexion, hilos'[g].mensaje)>>
    <3>1. hilos \in [Hilos -> [mensaje : Mensajes(conexion) \cup {Ninguno}, falta : Seq(Bloque)]]
      BY <1>1 DEF TiposP
    <3>2. CASE g = h
      <4>1. hilos'[g] = [mensaje |-> m, falta |-> <<Trozo(conexion, m)>>]
        BY <1>9, <3>1, <3>2
      <4> QED BY <1>5, <4>1
    <3>3. CASE g # h
      <4>1. hilos'[g] = hilos[g]
        BY <1>9, <3>1, <3>3
      <4> QED BY <1>1, <4>1 DEF PaqueteEntero
    <3> QED BY <3>2, <3>3
  <2> QED BY <2>1, <2>2 DEF PaqueteEntero
<1>12. EnElCable' /\ Leyendo'
  BY <1>1, <1>2 DEF EnElCable, Leyendo, Campos
<1> QED BY <1>10, <1>11, <1>12 DEF CanalIInv

LEMMA EnviarBien ==
  ASSUME CanalIInv, NEW h \in Hilos, Enviar(h)
  PROVE  CanalIInv' /\ CANAL!Mandar
<1> DEFINE m == hilos[h].mensaje
           t == Trozo(conexion, m)
<1>1. TiposP /\ PaqueteEntero /\ EnElCable /\ Leyendo
  BY DEF CanalIInv
<1>2. /\ hilos[h].falta # << >> /\ socket' = socket \o Head(hilos[h].falta)
      /\ hilos' = [hilos EXCEPT ![h] = [mensaje |-> Ninguno, falta |-> Tail(hilos[h].falta)]]
      /\ pendientes' = IF m = Ninguno THEN pendientes ELSE Append(pendientes, m)
      /\ UNCHANGED <<conexion, abierto, lector, armados, entregado, justo>>
  BY DEF Enviar
<1>3. m \in Mensajes(conexion) /\ hilos[h].falta = <<t>>
  BY <1>1, <1>2 DEF PaqueteEntero
<1> HIDE DEF m
<1>4. conexion \in DOMAIN Operaciones /\ socket \in Bloque /\ pendientes \in Seq(Mensajes(conexion))
  BY <1>1 DEF TiposP
<1>5. t \in Bloque /\ m # Ninguno
  BY <1>3, <1>4, TrozoEs, MensajeEs
<1> HIDE DEF t
<1>6. Head(<<t>>) = t /\ Tail(<<t>>) = << >>
  OBVIOUS
<1>7. /\ socket' = socket \o t /\ pendientes' = Append(pendientes, m)
      /\ hilos' = [hilos EXCEPT ![h] = [mensaje |-> Ninguno, falta |-> << >>]]
  BY <1>2, <1>3, <1>5, <1>6
<1>8. /\ pendientes' \in Seq(Mensajes(conexion)) /\ pendientes' # << >>
      /\ pendientes'[Len(pendientes')] = m
      /\ pendientes # << >> => /\ Head(pendientes') = Head(pendientes)
                               /\ Tail(pendientes') = Append(Tail(pendientes), m)
  <2>1. /\ Append(pendientes, m) \in Seq(Mensajes(conexion)) /\ Append(pendientes, m) # << >>
        /\ Len(Append(pendientes, m)) = Len(pendientes) + 1
        /\ Append(pendientes, m)[Len(pendientes) + 1] = m
    BY <1>3, <1>4, AppendProperties
  <2>2. /\ Head(Append(pendientes, m)) = IF pendientes = << >> THEN m ELSE Head(pendientes)
        /\ Tail(Append(pendientes, m)) = IF pendientes = << >> THEN << >>
                                         ELSE Append(Tail(pendientes), m)
    BY <1>4, HeadTailAppend
  <2> QED BY <1>7, <2>1, <2>2
<1>9. TiposP'
  <2>1. socket' \in Bloque
    BY <1>4, <1>5, <1>7, Juntar
  <2>2. hilos' \in [Hilos -> [mensaje : Mensajes(conexion) \cup {Ninguno}, falta : Seq(Bloque)]]
    <3>1. << >> \in Seq(Bloque)
      BY EmptySeq
    <3> QED BY <1>1, <1>7, <3>1 DEF TiposP
  <2> QED BY <1>1, <1>2, <1>8, <2>1, <2>2 DEF TiposP
<1>10. PaqueteEntero'
  <2>1. conexion' = conexion
    BY <1>2
  <2>2. ASSUME NEW g \in Hilos
        PROVE  \/ hilos'[g].falta = << >>
               \/ /\ hilos'[g].mensaje \in Mensajes(conexion)
                  /\ hilos'[g].falta = <<Trozo(conexion, hilos'[g].mensaje)>>
    <3>1. hilos \in [Hilos -> [mensaje : Mensajes(conexion) \cup {Ninguno}, falta : Seq(Bloque)]]
      BY <1>1 DEF TiposP
    <3>2. CASE g = h
      <4>1. hilos'[g] = [mensaje |-> Ninguno, falta |-> << >>]
        BY <1>7, <3>1, <3>2
      <4> QED BY <4>1
    <3>3. CASE g # h
      <4>1. hilos'[g] = hilos[g]
        BY <1>7, <3>1, <3>3
      <4> QED BY <1>1, <4>1 DEF PaqueteEntero
    <3> QED BY <3>2, <3>3
  <2> QED BY <2>1, <2>2 DEF PaqueteEntero
<1>11. EnElCable'
  <2>1. conexion' = conexion /\ lector' = lector
    BY <1>2
  <2>2. CASE lector.fase = "fin"
    BY <2>1, <2>2 DEF EnElCable
  <2>3. CASE lector.fase = "op" /\ <<socket, pendientes>> \in Cables(conexion)
    <3>1. <<socket', pendientes'>> \in Cables(conexion)
      BY <1>3, <1>4, <1>7, <2>3, CablesCrecen DEF Crece, t
    <3> QED BY <2>1, <2>3, <3>1 DEF EnElCable
  <2>4. CASE /\ lector.fase \in {"size", "stream", "leer"}
             /\ pendientes # << >> /\ lector.op = Head(pendientes).op
             /\ \E r : /\ socket = Delante(conexion, lector.fase, Head(pendientes)) \o r
                       /\ <<r, Tail(pendientes)>> \in Cables(conexion)
    <3> DEFINE d == Delante(conexion, lector.fase, Head(pendientes))
    <3>1. PICK r : socket = d \o r /\ <<r, Tail(pendientes)>> \in Cables(conexion)
      BY <2>4
    <3>2. r \in Bloque /\ Tail(pendientes) \in Seq(Mensajes(conexion))
      BY <3>1 DEF Cables, Parejas
    <3>3. d \in Bloque
      <4>1. Head(pendientes) \in Mensajes(conexion)
        BY <1>4, <2>4, HeadTailProperties
      <4>2. /\ DeTamanio(conexion, Head(pendientes)) \in Bloque
            /\ Stream(conexion, Head(pendientes)) \in Bloque
        BY <1>4, <4>1, TrozoEs
      <4>3. << >> \in Bloque
        BY EmptySeq DEF Bloque
      <4> QED BY <4>2, <4>3, Juntar DEF Delante
    <3> HIDE DEF d
    <3>4. socket' = d \o (r \o t)
      <4>1. (d \o r) \o t = d \o (r \o t)
        BY <1>5, <3>2, <3>3, Asociar
      <4> QED BY <1>7, <3>1, <4>1
    <3>5. <<r \o t, Append(Tail(pendientes), m)>> \in Cables(conexion)
      BY <1>3, <1>4, <3>1, <3>2, CablesCrecen DEF Crece, t
    <3>6. Head(pendientes') = Head(pendientes) /\ <<r \o t, Tail(pendientes')>> \in Cables(conexion)
      BY <1>8, <2>4, <3>5
    <3> QED BY <1>8, <2>1, <2>4, <3>4, <3>6 DEF EnElCable, d
  <2> QED BY <1>1, <2>2, <2>3, <2>4 DEF EnElCable
<1>12. Leyendo'
  <2>1. conexion' = conexion /\ lector' = lector
    BY <1>2
  <2>2. lector.fase \in {"stream", "leer"} => Head(pendientes') = Head(pendientes)
    BY <1>1, <1>8 DEF EnElCable
  <2> QED BY <1>1, <2>1, <2>2 DEF Leyendo, Campos
<1>13. CANAL!Mandar
  <2>1. Last(pendientes') = m
    BY <1>8 DEF Last
  <2> QED BY <1>2, <1>7, <1>8, <2>1 DEF CANAL!Mandar, CANAL!Last, Last
<1> QED BY <1>9, <1>10, <1>11, <1>12, <1>13 DEF CanalIInv

LEMMA CerrarBien == ASSUME CanalIInv, Cerrar PROVE CanalIInv'
<1>1. TiposP /\ PaqueteEntero /\ EnElCable /\ Leyendo
  BY DEF CanalIInv
<1>2. /\ hilos' = [h \in Hilos |-> [mensaje |-> Ninguno, falta |-> << >>]]
      /\ UNCHANGED <<conexion, socket, lector, armados, pendientes>>
  BY DEF Cerrar
<1>3. TiposP'
  <2>1. << >> \in Seq(Bloque)
    BY EmptySeq
  <2>2. hilos' \in [Hilos -> [mensaje : Mensajes(conexion) \cup {Ninguno}, falta : Seq(Bloque)]]
    BY <1>2, <2>1
  <2> QED BY <1>1, <1>2, <2>2 DEF TiposP
<1>4. PaqueteEntero'
  BY <1>2 DEF PaqueteEntero
<1>5. EnElCable' /\ Leyendo'
  BY <1>1, <1>2 DEF EnElCable, Leyendo, Campos
<1> QED BY <1>3, <1>4, <1>5 DEF CanalIInv

LEMMA RecibirOperacionBien == ASSUME CanalIInv, RecibirOperacion PROVE CanalIInv'
<1>1. TiposP /\ PaqueteEntero /\ EnElCable /\ Leyendo
  BY DEF CanalIInv
<1>2. lector.fase = "op" /\ lector.leidos = 0 /\ lector.datos = {} /\ lector \in LectorT
  BY <1>1 DEF RecibirOperacion, Leyendo, TiposP
<1>3. UNCHANGED <<conexion, hilos, abierto, armados, pendientes, entregado, justo>>
  BY DEF RecibirOperacion
<1>4. PaqueteEntero'
  BY <1>1, <1>3 DEF PaqueteEntero
<1>5. CASE lector' = [lector EXCEPT !.fase = "fin"] /\ UNCHANGED socket
  <2>1. lector' \in LectorT /\ lector'.fase = "fin"
    BY <1>2, <1>5 DEF LectorT
  <2>2. TiposP'
    BY <1>1, <1>3, <1>5, <2>1 DEF TiposP
  <2>3. EnElCable' /\ Leyendo'
    BY <2>1 DEF EnElCable, Leyendo
  <2> QED BY <1>4, <2>2, <2>3 DEF CanalIInv
<1>6. CASE /\ Len(socket) >= 4
           /\ lector' = [lector EXCEPT !.fase = "size", !.op = Operacion(SubSeq(socket, 1, 4))]
           /\ socket' = SubSeq(socket, 5, Len(socket))
  <2> DEFINE m == Head(pendientes)
             u == DeOp(m)
             z == DeTamanio(conexion, m)
             x == Stream(conexion, m)
  <2>1. conexion \in DOMAIN Operaciones /\ <<socket, pendientes>> \in Cables(conexion)
    BY <1>1, <1>2 DEF TiposP, EnElCable
  <2>2. socket # << >>
    <3>1. Len(<< >>) = 0
      BY EmptySeq
    <3> QED BY <1>6, <3>1
  <2>3. /\ pendientes # << >> /\ m \in Mensajes(conexion)
        /\ \E r : socket = Trozo(conexion, m) \o r /\ <<r, Tail(pendientes)>> \in Cables(conexion)
    BY <2>1, <2>2, CableCabeza
  <2>4. PICK r : socket = Trozo(conexion, m) \o r /\ <<r, Tail(pendientes)>> \in Cables(conexion)
    BY <2>3
  <2>5. r \in Bloque
    BY <2>4 DEF Cables, Parejas
  <2>6. x \in Bloque /\ u \in Bloque /\ z \in Bloque /\ Len(u) = 4 /\ Len(z) = 4
    BY <2>1, <2>3, TrozoEs
  <2>7. Trozo(conexion, m) = (u \o z) \o x
    BY DEF Trozo
  <2>8. m.op \in Ops
    BY <2>1, <2>3, MensajeEs
  <2>9. Operacion(u) = m.op
    <3> DEFINE v == <<"op", m.op>>
    <3>1. v \in ValorT /\ 4 \in Nat \ {0}
      BY <2>8 DEF ValorT
    <3> HIDE DEF v
    <3>2. Valor(Bytes(v, 4)) = <<v, 4>> /\ Bytes(v, 4)[1] = <<v, 1>>
      BY <3>1, ValorDeBytes
    <3>3. u = Bytes(v, 4)
      BY DEF DeOp, v
    <3> HIDE DEF u
    <3>4. Valor(u) # Indefinido
      BY <3>2, <3>3 DEF Indefinido
    <3>5. u[1][1] = <<"op", m.op>>
      BY <3>2, <3>3 DEF v
    <3> QED BY <3>4, <3>5 DEF Operacion
  <2> HIDE DEF m, u, z, x
  <2>10. socket = u \o ((z \o x) \o r) /\ (z \o x) \o r \in Bloque
    <3> DEFINE y == z \o x
    <3>1. (u \o z) \o x = u \o y /\ y \in Bloque
      BY <2>6, Asociar, Juntar
    <3> HIDE DEF y
    <3>2. (u \o y) \o r = u \o (y \o r) /\ y \o r \in Bloque
      <4>1. u \in Bloque /\ y \in Bloque /\ r \in Bloque
        BY <2>5, <2>6, <3>1
      <4>2. (u \o y) \o r = u \o (y \o r)
        BY ONLY <4>1, Asociar
      <4>3. y \o r \in Bloque
        BY ONLY <4>1, Juntar
      <4> QED BY <4>2, <4>3
    <3>3. socket = u \o (y \o r)
      BY <2>4, <2>7, <3>1, <3>2
    <3> QED BY <3>2, <3>3 DEF y
  <2>11. SubSeq(socket, 1, 4) = u /\ SubSeq(socket, 5, Len(socket)) = (z \o x) \o r
    <3> DEFINE y == (z \o x) \o r
    <3> HIDE DEF y
    <3>1. y \in Bloque /\ u \in Bloque /\ Len(u) = 4 /\ socket = u \o y
      BY <2>6, <2>10 DEF y
    <3>2. SubSeq(socket, 1, 4) = u /\ SubSeq(socket, 5, Len(socket)) = y
      BY ONLY <3>1, CorteDeUnaPalabra
    <3> QED BY <3>1, <3>2 DEF y
  <2>12. lector' \in LectorT /\ lector'.fase = "size" /\ lector'.op = m.op
         /\ lector'.leidos = 0 /\ lector'.datos = {}
    BY <1>2, <1>6, <2>8, <2>9, <2>11 DEF LectorT
  <2>13. socket' = (z \o x) \o r
    BY <1>6, <2>11
  <2>14. TiposP'
    BY <1>1, <1>3, <2>10, <2>12, <2>13 DEF TiposP
  <2>15. socket' = Delante(conexion, "size", Head(pendientes)) \o r
    BY <2>13 DEF Delante, z, x, m
  <2>16. EnElCable'
    BY <1>3, <2>3, <2>4, <2>12, <2>15 DEF EnElCable, m
  <2>17. Leyendo'
    BY <2>12 DEF Leyendo
  <2> QED BY <1>4, <2>14, <2>16, <2>17 DEF CanalIInv
<1> QED BY <1>5, <1>6 DEF RecibirOperacion

LEMMA RecibirTamanioBien == ASSUME CanalIInv, RecibirTamanio PROVE CanalIInv'
<1> DEFINE m == Head(pendientes)
           z == DeTamanio(conexion, m)
           x == Stream(conexion, m)
           b == SubSeq(socket, 1, 4)
<1>1. TiposP /\ PaqueteEntero /\ EnElCable /\ Leyendo
  BY DEF CanalIInv
<1>2. lector.fase = "size" /\ lector.leidos = 0 /\ lector.datos = {} /\ lector \in LectorT
  BY <1>1 DEF RecibirTamanio, Leyendo, TiposP
<1>3. /\ UNCHANGED <<conexion, hilos, abierto, armados, pendientes, entregado, justo>>
      /\ socket' = SubSeq(socket, 5, Len(socket))
      /\ lector' = IF EsNumero(b) THEN [lector EXCEPT !.fase = "stream", !.size = Numero(b)]
                   ELSE [lector EXCEPT !.fase = "fin"]
  BY DEF RecibirTamanio
<1>4. PaqueteEntero'
  BY <1>1, <1>3 DEF PaqueteEntero
<1>5. /\ conexion \in DOMAIN Operaciones /\ pendientes # << >> /\ lector.op = m.op
      /\ \E r : socket = Delante(conexion, "size", m) \o r /\ <<r, Tail(pendientes)>> \in Cables(conexion)
  BY <1>1, <1>2 DEF TiposP, EnElCable
<1>6. PICK r : socket = (z \o x) \o r /\ <<r, Tail(pendientes)>> \in Cables(conexion)
  BY <1>5 DEF Delante
<1>7. m \in Mensajes(conexion)
  BY <1>1, <1>5, HeadTailProperties DEF TiposP
<1>8. x \in Bloque /\ z \in Bloque /\ Len(z) = 4 /\ r \in Bloque /\ Len(x) \in Nat
  <2>1. r \in Bloque
    BY <1>6 DEF Cables, Parejas
  <2>2. x \in Bloque /\ z \in Bloque /\ Len(z) = 4
    BY <1>5, <1>7, TrozoEs
  <2> QED BY <2>1, <2>2 DEF Bloque
<1>9. EsNumero(z) /\ Numero(z) = Len(x)
  <2> DEFINE v == <<"num", Len(x)>>
  <2>1. v \in ValorT /\ 4 \in Nat \ {0}
    BY <1>8 DEF ValorT
  <2> HIDE DEF v
  <2>2. Valor(Bytes(v, 4)) = <<v, 4>> /\ Bytes(v, 4)[1] = <<v, 1>>
    BY <2>1, ValorDeBytes
  <2>3. z = Bytes(v, 4)
    BY DEF DeTamanio, v
  <2> HIDE DEF z
  <2>4. Valor(z) # Indefinido
    BY <2>2, <2>3 DEF Indefinido
  <2>5. z[1][1] = <<"num", Len(x)>>
    BY <2>2, <2>3 DEF v
  <2> QED BY <2>4, <2>5 DEF EsNumero, Numero
<1> HIDE DEF m, z, x, b
<1>10. socket = z \o (x \o r) /\ x \o r \in Bloque
  <2>1. (z \o x) \o r = z \o (x \o r) /\ x \o r \in Bloque
    BY <1>8, Asociar, Juntar
  <2> QED BY <1>6, <2>1
<1>11. b = z /\ socket' = x \o r
  <2> DEFINE y == x \o r
  <2> HIDE DEF y
  <2>1. y \in Bloque /\ z \in Bloque /\ Len(z) = 4 /\ socket = z \o y
    BY <1>8, <1>10 DEF y
  <2>2. SubSeq(socket, 1, 4) = z /\ SubSeq(socket, 5, Len(socket)) = y
    BY ONLY <2>1, CorteDeUnaPalabra
  <2> QED BY <1>3, <2>1, <2>2 DEF y, b
<1>12. lector' \in LectorT /\ lector'.fase = "stream" /\ lector'.op = m.op
       /\ lector'.size = Len(x) /\ lector'.leidos = 0 /\ lector'.datos = {}
  <2>1. lector' = [lector EXCEPT !.fase = "stream", !.size = Len(x)]
    BY <1>3, <1>9, <1>11
  <2> QED BY <1>2, <1>5, <1>8, <2>1 DEF LectorT
<1>13. TiposP'
  BY <1>1, <1>3, <1>10, <1>11, <1>12 DEF TiposP
<1>14. socket' = Delante(conexion, "stream", Head(pendientes)) \o r
  BY <1>11 DEF Delante, x, m
<1>15. EnElCable'
  BY <1>3, <1>5, <1>6, <1>12, <1>14 DEF EnElCable, m
<1>16. Leyendo'
  BY <1>3, <1>12 DEF Leyendo, x, m
<1> QED BY <1>4, <1>13, <1>15, <1>16 DEF CanalIInv

LEMMA RecibirContenidoBien == ASSUME CanalIInv, RecibirContenido PROVE CanalIInv'
<1> DEFINE m == Head(pendientes)
           x == Stream(conexion, m)
           F == Escribe(conexion, m.op, m)
<1>1. TiposP /\ PaqueteEntero /\ EnElCable /\ Leyendo
  BY DEF CanalIInv
<1>2. /\ lector.fase = "stream" /\ lector.leidos = 0 /\ lector.datos = {} /\ lector \in LectorT
      /\ lector.size = Len(x)
  BY <1>1 DEF RecibirContenido, Leyendo, TiposP
<1>3. /\ UNCHANGED <<conexion, hilos, abierto, armados, pendientes, entregado, justo>>
      /\ socket' = SubSeq(socket, lector.size + 1, Len(socket))
  BY DEF RecibirContenido
<1>4. PaqueteEntero'
  BY <1>1, <1>3 DEF PaqueteEntero
<1>5. /\ conexion \in DOMAIN Operaciones /\ pendientes # << >> /\ lector.op = m.op
      /\ \E r : socket = Delante(conexion, "stream", m) \o r /\ <<r, Tail(pendientes)>> \in Cables(conexion)
  BY <1>1, <1>2 DEF TiposP, EnElCable
<1>6. PICK r : socket = x \o r /\ <<r, Tail(pendientes)>> \in Cables(conexion)
  BY <1>5 DEF Delante
<1>7. m \in Mensajes(conexion)
  BY <1>1, <1>5, HeadTailProperties DEF TiposP
<1>8. x \in Bloque /\ r \in Bloque
  BY <1>5, <1>6, <1>7, TrozoEs DEF Cables, Parejas
<1>9. SubSeq(socket, 1, lector.size) = x /\ socket' = r
  <2>1. SubSeq(x \o r, 1, Len(x)) = x /\ SubSeq(x \o r, Len(x) + 1, Len(x \o r)) = r
    BY ONLY <1>8, Corte
  <2> QED BY <1>2, <1>3, <1>6, <2>1
<1>10. /\ m.op \in Operaciones[conexion] /\ m.op \in Ops /\ m.n \in Nat /\ m.largo \in Nat
  BY <1>5, <1>7, MensajeEs
<1>11. PICK offset \in IF Lee(conexion, m.op).modo = "offset" THEN Offsets ELSE {0} :
         lector' = [lector EXCEPT
                      !.fase = IF Corto(Lee(conexion, m.op), lector.size) THEN "fin" ELSE "leer",
                      !.stream = x, !.offset = offset, !.pos = offset]
  <2> DEFINE L == Lee(conexion, lector.op)
  <2> HIDE DEF L, x, m
  <2>1. \E offset \in IF L.modo = "offset" THEN Offsets ELSE {0} :
          lector' = [lector EXCEPT
                       !.fase = IF Corto(L, lector.size) THEN "fin" ELSE "leer",
                       !.stream = x, !.offset = offset, !.pos = offset]
    BY <1>5, <1>9, <1>10 DEF RecibirContenido, L
  <2> QED BY <1>5, <2>1 DEF L, x, m
<1>12. FormatoT(F) /\ Cabe(F, m)
  BY <1>5, <1>10, TodosCaben
<1>13. ASSUME m.offset = 0 PROVE \E p : Lugares(p, F, m, x)
  <2>1. Serializar(F, m, 0).stream = x
    BY <1>13 DEF Stream
  <2> HIDE DEF F, m
  <2>2. \E p : Lugares(p, F, m, Serializar(F, m, 0).stream)
    BY <1>10, <1>12, SerializaBien
  <2> HIDE DEF x
  <2> QED BY <2>1, <2>2
<1> HIDE DEF m, x, F
<1>14. offset \in Nat
  BY ParametrosPaquetes
<1>15. /\ lector' \in LectorT /\ lector'.op = m.op /\ lector'.leidos = 0 /\ lector'.datos = {}
       /\ lector'.fase \in {"leer", "fin"} /\ lector'.stream = x /\ lector'.offset = offset
       /\ lector'.pos = offset
  BY <1>2, <1>5, <1>8, <1>11, <1>14 DEF LectorT
<1>16. TiposP'
  BY <1>1, <1>3, <1>8, <1>9, <1>15 DEF TiposP
<1>17. socket' = << >> \o r
  BY <1>8, <1>9, ConcatEmptySeq DEF Bloque
<1>18. EnElCable'
  <2>1. CASE lector'.fase = "fin"
    BY <2>1 DEF EnElCable
  <2>2. CASE lector'.fase = "leer"
    <3>1. socket' = Delante(conexion, "leer", Head(pendientes)) \o r
      BY <1>17 DEF Delante
    <3> QED BY <1>3, <1>5, <1>6, <1>15, <2>2, <3>1 DEF EnElCable, m
  <2> QED BY <1>15, <2>1, <2>2
<1>19. Leyendo'
  <2> DEFINE c == Lee(conexion, m.op).campos
  <2>1. c \in Seq(CampoT) /\ 0 <= Len(c)
    <3>1. c \in Seq(CampoT)
      BY <1>5, <1>10, LeeEs
    <3> QED BY <3>1
  <2> HIDE DEF c
  <2>2. ASSUME Limpio(m, offset)
        PROVE  \E p : /\ Lugares(p, F, m, x) /\ offset = p[0]
                      /\ {} = {Dato(c[j], m) : j \in 1 .. 0}
    <3>1. m.offset = 0 /\ offset = 0
      BY <2>2 DEF Limpio
    <3>2. PICK p : Lugares(p, F, m, x)
      BY <1>13, <3>1
    <3>3. p[0] = 0
      BY <3>2 DEF Lugares
    <3> QED BY <3>1, <3>2, <3>3
  <2>3. lector'.fase \notin {"op", "size", "stream"}
    BY <1>15
  <2>4. Campos' = c
    BY <1>3, <1>15 DEF Campos, c
  <2> QED BY <1>3, <1>15, <2>1, <2>2, <2>3, <2>4 DEF Leyendo, F, x, m
<1> QED BY <1>4, <1>16, <1>18, <1>19 DEF CanalIInv

LEMMA LeerCampoBien == ASSUME CanalIInv, LeerCampo PROVE CanalIInv'
<1> DEFINE m == Head(pendientes)
           F == Escribe(conexion, m.op, m)
           c == Lee(conexion, m.op).campos
           k == lector.leidos + 1
           r == c[k]
           palabra == Tomar(lector.stream, lector.pos, r.copia)
           texto == lector.pos + r.avance
           letras == Tomar(lector.stream, texto, Numero(palabra))
           Leido(bytes, pos) == [lector EXCEPT !.pos = pos, !.leidos = k,
                                   !.datos = lector.datos \cup {<<r.nombre, Valor(bytes)>>}]
<1>1. TiposP /\ PaqueteEntero /\ EnElCable /\ Leyendo
  BY DEF CanalIInv
<1>2. /\ lector.fase = "leer" /\ lector \in LectorT /\ conexion \in DOMAIN Operaciones
      /\ pendientes # << >> /\ lector.op = m.op
  BY <1>1 DEF LeerCampo, TiposP, EnElCable
<1>3. m \in Mensajes(conexion)
  BY <1>1, <1>2, HeadTailProperties DEF TiposP
<1>4. m.op \in Operaciones[conexion] /\ m.n \in Nat /\ m.largo \in Nat /\ m.offset \in Nat
  BY <1>2, <1>3, MensajeEs
<1>5. Campos = c
  BY <1>2 DEF Campos
<1>6. /\ lector.leidos < Len(c)
      /\ UNCHANGED <<conexion, hilos, socket, abierto, armados, pendientes, entregado, justo>>
      /\ lector' = IF ~r.cadena THEN Leido(palabra, texto)
                   ELSE IF EsNumero(palabra) THEN Leido(letras, texto + Numero(palabra))
                   ELSE [lector EXCEPT !.fase = "fin"]
  BY <1>5 DEF LeerCampo
<1>7. c \in Seq(CampoT)
  BY <1>2, <1>4, LeeEs
<1> HIDE DEF c
<1>8. /\ lector.leidos \in Nat /\ lector.pos \in Nat /\ lector.stream \in Bloque
      /\ lector.datos \in SUBSET (Nombres \X (ValorT \X Nat)) /\ k \in 1 .. Len(c)
      /\ k - 1 = lector.leidos
  <2>1. /\ lector.leidos \in Nat /\ lector.pos \in Nat /\ lector.stream \in Bloque
        /\ lector.datos \in SUBSET (Nombres \X (ValorT \X Nat))
    BY <1>2 DEF LectorT
  <2>2. Len(c) \in Nat
    BY <1>7
  <2> QED BY <1>6, <2>1, <2>2
<1> HIDE DEF k
<1>9. r \in CampoT
  BY <1>7, <1>8
<1> HIDE DEF r
<1>10. r.copia \in Nat /\ r.avance \in Nat /\ r.nombre \in Nombres /\ r.cadena \in BOOLEAN
  BY <1>9 DEF CampoT
<1>11. palabra \in Bloque /\ texto \in Nat
  <2>1. texto \in Nat
    BY <1>8, <1>10
  <2>2. palabra \in Bloque
    BY <1>8, <1>10, TomarEs
  <2> QED BY <2>1, <2>2
<1> HIDE DEF palabra, texto
<1>12. EsNumero(palabra) => Numero(palabra) \in Nat /\ letras \in Bloque
  BY <1>8, <1>11, ValorEs, TomarEs
<1> HIDE DEF letras, m, F
<1>13. PaqueteEntero'
  BY <1>1, <1>6 DEF PaqueteEntero
<1>14. /\ lector' \in LectorT /\ lector'.fase \in {"leer", "fin"} /\ lector'.op = lector.op
       /\ lector'.stream = lector.stream /\ lector'.offset = lector.offset
       /\ lector'.fase = "leer" =>
            /\ lector'.leidos = k
            /\ IF r.cadena
               THEN /\ EsNumero(palabra) /\ lector'.pos = texto + Numero(palabra)
                    /\ lector'.datos = lector.datos \cup {<<r.nombre, Valor(letras)>>}
               ELSE /\ lector'.pos = texto
                    /\ lector'.datos = lector.datos \cup {<<r.nombre, Valor(palabra)>>}
  <2>1. k \in Nat
    BY <1>8
  <2>2. CASE ~r.cadena
    <3>1. Valor(palabra) \in ValorT \X Nat
      BY <1>11, ValorEs
    <3>2. lector' = Leido(palabra, texto)
      BY <1>6, <2>2
    <3> DEFINE d == lector.datos \cup {<<r.nombre, Valor(palabra)>>}
    <3>3. d \in SUBSET (Nombres \X (ValorT \X Nat))
      BY <1>8, <1>10, <3>1
    <3>4. lector' = [lector EXCEPT !.pos = texto, !.leidos = k, !.datos = d]
      BY <3>2
    <3> HIDE DEF d
    <3>5. /\ lector' \in LectorT /\ lector'.fase = lector.fase /\ lector'.op = lector.op
          /\ lector'.stream = lector.stream /\ lector'.offset = lector.offset
          /\ lector'.pos = texto /\ lector'.leidos = k /\ lector'.datos = d
      BY <1>2, <1>11, <2>1, <3>3, <3>4 DEF LectorT
    <3> QED BY <1>2, <2>2, <3>5 DEF d
  <2>3. CASE r.cadena /\ EsNumero(palabra)
    <3>1. Valor(letras) \in ValorT \X Nat /\ texto + Numero(palabra) \in Nat
      BY <1>11, <1>12, <2>3, ValorEs
    <3>2. lector' = Leido(letras, texto + Numero(palabra))
      BY <1>6, <2>3
    <3> DEFINE d == lector.datos \cup {<<r.nombre, Valor(letras)>>}
               pos == texto + Numero(palabra)
    <3>3. d \in SUBSET (Nombres \X (ValorT \X Nat)) /\ pos \in Nat
      BY <1>8, <1>10, <3>1
    <3>4. lector' = [lector EXCEPT !.pos = pos, !.leidos = k, !.datos = d]
      BY <3>2
    <3> HIDE DEF d, pos
    <3>5. /\ lector' \in LectorT /\ lector'.fase = lector.fase /\ lector'.op = lector.op
          /\ lector'.stream = lector.stream /\ lector'.offset = lector.offset
          /\ lector'.pos = pos /\ lector'.leidos = k /\ lector'.datos = d
      BY <1>2, <2>1, <3>3, <3>4 DEF LectorT
    <3> QED BY <1>2, <2>3, <3>5 DEF d, pos
  <2>4. CASE r.cadena /\ ~EsNumero(palabra)
    BY <1>2, <1>6, <2>4 DEF LectorT
  <2> QED BY <1>10, <2>2, <2>3, <2>4
<1>15. TiposP'
  BY <1>1, <1>6, <1>14 DEF TiposP
<1>16. EnElCable'
  <2>1. CASE lector'.fase = "fin"
    BY <2>1 DEF EnElCable
  <2>2. CASE lector'.fase = "leer"
    <3>1. lector'.fase = lector.fase
      BY <1>2, <2>2
    <3> QED BY <1>1, <1>6, <1>14, <3>1 DEF EnElCable
  <2> QED BY <1>14, <2>1, <2>2
<1>17. ASSUME lector'.fase = "leer", Limpio(m, lector.offset)
       PROVE  \E p : /\ Lugares(p, F, m, lector.stream) /\ lector'.pos = p[k]
                     /\ lector'.datos = {Dato(c[j], m) : j \in 1 .. k}
  <2>1. PICK p : /\ Lugares(p, F, m, lector.stream) /\ lector.pos = p[k - 1]
                 /\ lector.datos = {Dato(c[j], m) : j \in 1 .. k - 1}
    <3>1. \E p : /\ Lugares(p, F, m, lector.stream) /\ lector.pos = p[lector.leidos]
                 /\ lector.datos = {Dato(c[j], m) : j \in 1 .. lector.leidos}
      BY <1>1, <1>2, <1>5, <1>17 DEF Leyendo, F, m
    <3> QED BY <1>8, <3>1
  <2>2. m.op # "FINALIZAR_HILO"
    BY <1>17 DEF Limpio
  <2>3. F.campos \in Seq(CampoT)
    BY <1>2, <1>4, TodosCaben DEF F, FormatoT
  <2>4. Len(c) <= Len(F.campos) /\ Casa(F.campos[k], r)
    <3>1. Len(c) <= Len(F.campos) /\ \A j \in 1 .. Len(c) : Casa(F.campos[j], c[j])
      BY <1>2, <1>4, <2>2, Casan DEF F, c
    <3> QED BY <1>8, <3>1 DEF r
  <2>5. k \in 1 .. Len(F.campos)
    BY <1>7, <1>8, <2>3, <2>4
  <2> DEFINE w == F.campos[k]
             pos == lector.pos
             x == lector.stream
  <2>6. w \in CampoT
    BY <2>3, <2>5
  <2>7. /\ p[k] = pos + Ancho(w, m) /\ pos + Ancho(w, m) <= Len(x)
        /\ \A i \in 1 .. Ancho(w, m) : x[pos + i] = Letra(w, m, i)
    BY <2>1, <2>5 DEF Lugares
  <2> HIDE DEF w, pos, x
  <2>8. Casa(w, r) /\ pos \in Nat /\ x \in Bloque
    BY <1>8, <2>4 DEF w, pos, x
  <2> DEFINE q == Tomar(x, pos, r.copia)
  <2> HIDE DEF q
  <2>9. /\ ~r.cadena => <<r.nombre, Valor(q)>> = Dato(r, m)
        /\ r.cadena =>
             /\ EsNumero(q) /\ Numero(q) = m.largo + 1
             /\ <<r.nombre, Valor(Tomar(x, pos + r.avance, m.largo + 1))>> = Dato(r, m)
    BY ONLY <1>4, <1>9, <2>6, <2>7, <2>8, CampoLeido DEF q
  <2>10. palabra = q /\ texto = pos + r.avance
    BY DEF palabra, texto, q, pos, x
  <2>11. r.avance = w.avance /\ r.cadena = w.cadena
    BY <2>8 DEF Casa
  <2>12. lector'.datos = lector.datos \cup {Dato(r, m)}
    <3>1. CASE ~r.cadena
      BY <1>14, <1>17, <2>9, <2>10, <3>1
    <3>2. CASE r.cadena
      <4>1. letras = Tomar(x, pos + r.avance, m.largo + 1)
        BY <2>9, <2>10, <3>2 DEF letras, x
      <4> QED BY <1>14, <1>17, <2>9, <3>2, <4>1
    <3> QED BY <3>1, <3>2
  <2>13. lector'.pos = p[k]
    <3>1. CASE ~r.cadena
      <4>1. Ancho(w, m) = r.avance
        BY <1>10, <2>11, <3>1 DEF Ancho
      <4> QED BY <1>14, <1>17, <2>7, <2>10, <3>1, <4>1
    <3>2. CASE r.cadena
      <4>1. Ancho(w, m) = r.avance + (m.largo + 1)
        BY <2>11, <3>2 DEF Ancho
      <4>2. lector'.pos = (pos + r.avance) + (m.largo + 1)
        BY <1>14, <1>17, <2>9, <2>10, <3>2
      <4> QED BY <1>4, <1>10, <2>7, <2>8, <4>1, <4>2
    <3> QED BY <3>1, <3>2
  <2>14. lector'.datos = {Dato(c[j], m) : j \in 1 .. k}
    <3>1. \A j : j \in 1 .. k <=> j \in 1 .. k - 1 \/ j = k
      BY <1>8
    <3> HIDE DEF k
    <3> QED BY <2>1, <2>12, <3>1 DEF r
  <2> QED BY <2>1, <2>13, <2>14
<1>18. Leyendo'
  <2>1. Campos' = c
    BY <1>2, <1>6, <1>14 DEF Campos, c
  <2>2. lector'.fase \notin {"op", "size", "stream"}
    BY <1>14
  <2>3. Head(pendientes') = m /\ conexion' = conexion /\ lector.stream = Stream(conexion, m)
    BY <1>1, <1>2, <1>6 DEF Leyendo, m
  <2>4. ASSUME lector'.fase = "leer" PROVE lector'.leidos = k /\ k <= Len(c)
    BY <1>7, <1>8, <1>14, <2>4
  <2>5. Escribe(conexion, lector'.op, m) = F
    BY <1>2, <1>14 DEF F
  <2> QED BY <1>14, <1>17, <2>1, <2>2, <2>3, <2>4, <2>5 DEF Leyendo
<1> QED BY <1>13, <1>15, <1>16, <1>18 DEF CanalIInv

LEMMA EntregarBien ==
  ASSUME CanalIInv, Entregar PROVE CanalIInv' /\ CANAL!Entregar
<1> DEFINE m == Head(pendientes)
           c == Lee(conexion, m.op).campos
<1>1. TiposP /\ PaqueteEntero /\ EnElCable /\ Leyendo
  BY DEF CanalIInv
<1>2. /\ lector.fase = "leer" /\ lector \in LectorT /\ conexion \in DOMAIN Operaciones
      /\ pendientes # << >> /\ lector.op = m.op
      /\ \E r : socket = Delante(conexion, "leer", m) \o r /\ <<r, Tail(pendientes)>> \in Cables(conexion)
  BY <1>1 DEF Entregar, TiposP, EnElCable
<1>3. m \in Mensajes(conexion) /\ Tail(pendientes) \in Seq(Mensajes(conexion))
  BY <1>1, <1>2, HeadTailProperties DEF TiposP
<1>4. m.op \in Operaciones[conexion] /\ m.datos = Pedido(conexion, m)
  BY <1>2, <1>3, MensajeEs
<1>5. Campos = c
  BY <1>2 DEF Campos
<1>6. /\ lector.leidos = Len(c) /\ pendientes' = Tail(pendientes) /\ lector' = EnEspera
      /\ entregado' = [op |-> m.op, datos |-> lector.datos, limpio |-> Limpio(m, lector.offset)]
      /\ UNCHANGED <<conexion, hilos, socket, abierto, armados, justo>>
  BY <1>2, <1>5 DEF Entregar
<1>7. <<socket, Tail(pendientes)>> \in Cables(conexion)
  <2>1. PICK r : socket = << >> \o r /\ <<r, Tail(pendientes)>> \in Cables(conexion)
    BY <1>2 DEF Delante
  <2>2. r \in Seq(Byte)
    BY <2>1 DEF Cables, Parejas, Bloque
  <2>3. << >> \o r = r
    BY <2>2, ConcatEmptySeq
  <2> QED BY <2>1, <2>3
<1>8. c \in Seq(CampoT)
  BY <1>2, <1>4, LeeEs
<1>9. Limpio(m, lector.offset) => lector.datos = m.datos
  <2> SUFFICES ASSUME Limpio(m, lector.offset) PROVE lector.datos = m.datos
    OBVIOUS
  <2>1. lector.datos = {Dato(Campos[j], m) : j \in 1 .. lector.leidos}
    BY <1>1, <1>2 DEF Leyendo
  <2>2. Pedido(conexion, m) = {Dato(c[j], m) : j \in 1 .. Len(c)}
    BY <1>8, PedidoEs
  <2> HIDE DEF m, c
  <2> QED BY <1>4, <1>5, <1>6, <2>1, <2>2
<1> HIDE DEF m, c
<1>10. lector' \in LectorT /\ lector'.fase = "op" /\ lector'.leidos = 0 /\ lector'.datos = {}
  <2>1. << >> \in Bloque
    BY EmptySeq DEF Bloque
  <2> QED BY <1>6, <2>1 DEF EnEspera, LectorT
<1>11. TiposP'
  BY <1>1, <1>3, <1>6, <1>10 DEF TiposP
<1>12. PaqueteEntero'
  BY <1>1, <1>6 DEF PaqueteEntero
<1>13. EnElCable'
  BY <1>6, <1>7, <1>10 DEF EnElCable
<1>14. Leyendo'
  BY <1>10 DEF Leyendo
<1>15. CANAL!Entregar
  BY <1>2, <1>6, <1>9 DEF CANAL!Entregar, m
<1> QED BY <1>11, <1>12, <1>13, <1>14, <1>15 DEF CanalIInv

LEMMA CanalSigue ==
  ASSUME CanalIInv, [Next]_vars PROVE CanalIInv' /\ [CANAL!Next]_CANAL!vars
<1>1. ASSUME NEW h \in Hilos, NEW op \in Operaciones[conexion], NEW largo \in Largos,
             NEW offset \in Offsets, Armar(h, op, largo, offset)
      PROVE  CanalIInv' /\ UNCHANGED CANAL!vars
  <2>1. UNCHANGED CANAL!vars
    BY <1>1 DEF Armar, CANAL!vars
  <2> QED BY <1>1, <2>1, ArmarBien
<1>2. ASSUME NEW h \in Hilos, Enviar(h) PROVE CanalIInv' /\ CANAL!Mandar
  BY <1>2, EnviarBien
<1>3. CASE Cerrar
  <2>1. UNCHANGED CANAL!vars
    BY <1>3 DEF Cerrar, CANAL!vars
  <2> QED BY <1>3, <2>1, CerrarBien
<1>4. CASE RecibirOperacion
  <2>1. UNCHANGED CANAL!vars
    BY <1>4 DEF RecibirOperacion, CANAL!vars
  <2> QED BY <1>4, <2>1, RecibirOperacionBien
<1>5. CASE RecibirTamanio
  <2>1. UNCHANGED CANAL!vars
    BY <1>5 DEF RecibirTamanio, CANAL!vars
  <2> QED BY <1>5, <2>1, RecibirTamanioBien
<1>6. CASE RecibirContenido
  <2>1. UNCHANGED CANAL!vars
    BY <1>6 DEF RecibirContenido, CANAL!vars
  <2> QED BY <1>6, <2>1, RecibirContenidoBien
<1>7. CASE LeerCampo
  <2>1. UNCHANGED CANAL!vars
    BY <1>7 DEF LeerCampo, CANAL!vars
  <2> QED BY <1>7, <2>1, LeerCampoBien
<1>8. CASE Entregar
  BY <1>8, EntregarBien DEF CANAL!Next
<1>9. CASE UNCHANGED vars
  <2>1. UNCHANGED <<conexion, hilos, socket, abierto, lector, armados, pendientes, entregado>>
    BY <1>9 DEF vars
  <2>2. TiposP' /\ PaqueteEntero' /\ EnElCable' /\ Leyendo'
    BY <2>1 DEF CanalIInv, TiposP, PaqueteEntero, EnElCable, Leyendo, Campos
  <2> QED BY <2>1, <2>2 DEF CanalIInv, CANAL!vars
<1> QED BY <1>1, <1>2, <1>3, <1>4, <1>5, <1>6, <1>7, <1>8, <1>9 DEF Next, CANAL!Next

\* However many threads send, packets come out of the socket whole, in the order of their
\* sends and with the operation sent; and each field with the value written, whatever pair
\* of serialiser and deserialiser the operation has, but for the one of FINALIZAR_HILO and
\* for a garbage offset, which spoils its own packet and no other.
THEOREM PaquetesEsUnCanal == Spec => ImplementaCanal
<1>1. Init => CANAL!Init
  BY DEF Init, CANAL!Init
<1> QED BY <1>1, CanalInicio, CanalSigue, PTL DEF Spec, ImplementaCanal, CANAL!Spec
=============================================================================
