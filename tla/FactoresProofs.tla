--------------------------- MODULE FactoresProofs --------------------------
(* Proofs about program 1.  The inductive invariant IInv has three parts:    *)
(* what the copying loops have copied, what the search for divisors has      *)
(* excluded so far, and what the list printed says of the number entered.    *)
EXTENDS Factores, DwordProofs, FiniteSetTheorems, FunctionTheorems,
        SequenceTheorems

-----------------------------------------------------------------------------
(* Arithmetic *)

LEMMA Asociar ==
  ASSUME NEW a \in Int, NEW b \in Int, NEW c \in Int
  PROVE  a * (b * c) = (a * b) * c
  OBVIOUS

\* What divides a number divides its multiples.
LEMMA DivideMultiplo ==
  ASSUME NEW q \in Int, NEW c \in Int, NEW d \in Nat \ {0}, c % d = 0
  PROVE  (q * c) % d = 0
<1> DEFINE e == c \div d
           n == q * c
           m == q * e
<1>1. e \in Int /\ c = d * e + 0
  BY Division
<1> HIDE DEF e
<1>2. m \in Int /\ n \in Int /\ n = d * m + 0
  BY <1>1
<1> HIDE DEF n, m
<1>3. n % d = 0
  BY <1>2, DivisionUnica
<1> QED
  BY <1>3 DEF n

\* A multiple divided.
LEMMA CocienteDeMultiplo ==
  ASSUME NEW q \in Int, NEW c \in Nat \ {0}
  PROVE  (q * c) % c = 0 /\ (q * c) \div c = q
<1> DEFINE n == q * c
<1>1. n \in Int /\ n = c * q + 0
  OBVIOUS
<1> HIDE DEF n
<1>2. n % c = 0 /\ n \div c = q
  BY <1>1, DivisionUnica
<1> QED
  BY <1>2 DEF n

\* A number other than 0 that divides: the quotient times the divisor.
LEMMA CocienteExacto ==
  ASSUME NEW n \in Nat, NEW c \in Nat \ {0}, n % c = 0
  PROVE  /\ n \div c \in Nat
         /\ n = (n \div c) * c
         /\ n >= c => n \div c >= 1
<1> DEFINE q == n \div c
<1>1. q \in Nat
  BY CocienteMenor
<1>2. n = c * q + (n % c)
  BY Division
<1> HIDE DEF q
<1>3. n = q * c
  BY <1>1, <1>2
<1>4. n >= c => q >= 1
  BY <1>1, <1>3
<1> QED
  BY <1>1, <1>3, <1>4 DEF q

\* The first divisor from 2 up is a prime.
LEMMA PrimerDivisorPrimo ==
  ASSUME NEW n \in Nat, NEW c \in Nat, c >= 2, n % c = 0,
         \A d \in 2..c - 1 : n % d # 0
  PROVE  Primo(c)
<1> SUFFICES ASSUME NEW d \in 2..c - 1, c % d = 0 PROVE FALSE
    BY DEF Primo
<1>1. n \div c \in Nat /\ n = (n \div c) * c
  BY CocienteExacto
<1> DEFINE q == n \div c
<1>2. q \in Int /\ c \in Int /\ d \in Nat \ {0} /\ n = q * c
  BY <1>1
<1> HIDE DEF q
<1>3. (q * c) % d = 0
  BY <1>2, DivideMultiplo
<1> QED
  BY <1>2, <1>3

\* A prime has two divisors, so the counters stop before the largest dword.
LEMMA PrimoNoEsElMayor ==
  ASSUME NEW c \in Words, Primo(c)
  PROVE  c <= WordSize - 2
  BY MayorCompuesto, WordSizeAssumption DEF Words, Primo

-----------------------------------------------------------------------------
(* The texts *)

LEMMA Concatenar ==
  \A s, t \in Seq(0..3) :
    /\ s \o t \in Seq(0..3)
    /\ Len(s \o t) = Len(s) + Len(t)
    /\ \A i \in 1..Len(s) + Len(t) :
         (s \o t)[i] = IF i <= Len(s) THEN s[i] ELSE t[i - Len(s)]
  BY ConcatProperties

\* The bytes of the section from mnsj0 on.
LEMMA Textos ==
  /\ Len(Mensajes) = 29 /\ Relleno = 3
  /\ DeIgual = 21 /\ DeMultiplicacion = 25
  /\ \A i \in 0..31 :
       Dato(i) = IF i \in 0..19 THEN 1
                 ELSE IF i \in 21..23 THEN 2
                 ELSE IF i \in 25..27 THEN 3 ELSE 0
  /\ \A i \in Nat : Dato(i) \in 0..4
<1>1. /\ Mnsj0 \in Seq(0..3) /\ Len(Mnsj0) = 20
      /\ \A i \in 1..20 : Mnsj0[i] = 1
  BY DEF Mnsj0
<1>2. /\ MnsjIgual \in Seq(0..3) /\ Len(MnsjIgual) = 3
      /\ MnsjIgual[1] = 2 /\ MnsjIgual[2] = 2 /\ MnsjIgual[3] = 2
  BY DEF MnsjIgual
<1>3. /\ MnsjMultiplicacion \in Seq(0..3) /\ Len(MnsjMultiplicacion) = 3
      /\ MnsjMultiplicacion[1] = 3 /\ MnsjMultiplicacion[2] = 3
      /\ MnsjMultiplicacion[3] = 3
  BY DEF MnsjMultiplicacion
<1> DEFINE cero == <<0>>
           a == Mnsj0 \o cero
           b == a \o MnsjIgual
           c == b \o cero
           d == c \o MnsjMultiplicacion
<1>0. cero \in Seq(0..3) /\ Len(cero) = 1 /\ cero[1] = 0
  OBVIOUS
<1> HIDE DEF cero
<1>4. /\ a \in Seq(0..3) /\ Len(a) = 21
      /\ \A i \in 1..21 : a[i] = IF i <= 20 THEN Mnsj0[i] ELSE 0
  <2>1. /\ a \in Seq(0..3) /\ Len(a) = Len(Mnsj0) + Len(cero)
        /\ \A i \in 1..Len(Mnsj0) + Len(cero) :
             a[i] = IF i <= Len(Mnsj0) THEN Mnsj0[i] ELSE cero[i - Len(Mnsj0)]
    BY <1>0, <1>1, Concatenar, Zenon
  <2>2. \A i \in 21..21 : cero[i - 20] = 0
    BY <1>0
  <2> HIDE DEF a
  <2> QED
    BY <1>0, <1>1, <2>1, <2>2
<1> HIDE DEF a
<1>5. /\ b \in Seq(0..3) /\ Len(b) = 24
      /\ \A i \in 1..24 : b[i] = IF i <= 21 THEN a[i] ELSE 2
  <2>1. /\ b \in Seq(0..3) /\ Len(b) = Len(a) + Len(MnsjIgual)
        /\ \A i \in 1..Len(a) + Len(MnsjIgual) :
             b[i] = IF i <= Len(a) THEN a[i] ELSE MnsjIgual[i - Len(a)]
    BY <1>2, <1>4, Concatenar, Zenon
  <2>2. \A i \in 22..24 : MnsjIgual[i - 21] = 2
    BY <1>2
  <2> HIDE DEF b
  <2> QED
    BY <1>2, <1>4, <2>1, <2>2
<1> HIDE DEF b
<1>6. /\ c \in Seq(0..3) /\ Len(c) = 25
      /\ \A i \in 1..25 : c[i] = IF i <= 24 THEN b[i] ELSE 0
  <2>1. /\ c \in Seq(0..3) /\ Len(c) = Len(b) + Len(cero)
        /\ \A i \in 1..Len(b) + Len(cero) :
             c[i] = IF i <= Len(b) THEN b[i] ELSE cero[i - Len(b)]
    BY <1>0, <1>5, Concatenar, Zenon
  <2>2. \A i \in 25..25 : cero[i - 24] = 0
    BY <1>0
  <2> HIDE DEF c
  <2> QED
    BY <1>0, <1>5, <2>1, <2>2
<1> HIDE DEF c
<1>7. /\ d \in Seq(0..3) /\ Len(d) = 28
      /\ \A i \in 1..28 : d[i] = IF i <= 25 THEN c[i] ELSE 3
  <2>1. /\ d \in Seq(0..3) /\ Len(d) = Len(c) + Len(MnsjMultiplicacion)
        /\ \A i \in 1..Len(c) + Len(MnsjMultiplicacion) :
             d[i] = IF i <= Len(c) THEN c[i] ELSE MnsjMultiplicacion[i - Len(c)]
    BY <1>3, <1>6, Concatenar, Zenon
  <2>2. \A i \in 26..28 : MnsjMultiplicacion[i - 25] = 3
    BY <1>3
  <2> HIDE DEF d
  <2> QED
    BY <1>3, <1>6, <2>1, <2>2
<1> HIDE DEF d
<1>8. /\ Mensajes \in Seq(0..3) /\ Len(Mensajes) = 29
      /\ \A i \in 1..29 : Mensajes[i] = IF i <= 28 THEN d[i] ELSE 0
  <2>1. /\ Mensajes \in Seq(0..3) /\ Len(Mensajes) = Len(d) + Len(cero)
        /\ \A i \in 1..Len(d) + Len(cero) :
             Mensajes[i] = IF i <= Len(d) THEN d[i] ELSE cero[i - Len(d)]
    BY <1>0, <1>7, Concatenar, Zenon
       DEF Mensajes, a, b, c, d, cero
  <2>2. \A i \in 29..29 : cero[i - 28] = 0
    BY <1>0
  <2> QED
    BY <1>0, <1>7, <2>1, <2>2
<1>9. Relleno = 3
  <2>1. -(8 + Len(Mensajes)) = 4 * (-10) + 3
    BY <1>8
  <2> QED
    BY <2>1, DivisionUnica DEF Relleno
<1>10. DeIgual = 21 /\ DeMultiplicacion = 25
  BY <1>1, <1>2 DEF DeIgual, DeMultiplicacion
<1>11. ASSUME NEW i \in 0..31
       PROVE  Dato(i) = IF i \in 0..19 THEN 1
                        ELSE IF i \in 21..23 THEN 2
                        ELSE IF i \in 25..27 THEN 3 ELSE 0
  <2>1. Dato(i) = IF i < 29 THEN Mensajes[i + 1] ELSE 0
    BY <1>8, <1>9 DEF Dato
  <2>2. ASSUME NEW j \in 1..29
        PROVE  Mensajes[j] = IF j <= 20 THEN 1 ELSE IF j = 21 THEN 0
                             ELSE IF j <= 24 THEN 2 ELSE IF j = 25 THEN 0
                             ELSE IF j <= 28 THEN 3 ELSE 0
    <3>1. Mensajes[j] = IF j <= 28 THEN d[j] ELSE 0
      BY <1>8, Zenon
    <3>2. j \in 1..28 => d[j] = IF j <= 25 THEN c[j] ELSE 3
      BY <1>7, Zenon
    <3>3. j \in 1..25 => c[j] = IF j <= 24 THEN b[j] ELSE 0
      BY <1>6, Zenon
    <3>4. j \in 1..24 => b[j] = IF j <= 21 THEN a[j] ELSE 2
      BY <1>5, Zenon
    <3>5. j \in 1..21 => a[j] = IF j <= 20 THEN Mnsj0[j] ELSE 0
      BY <1>4, Zenon
    <3>6. j \in 1..20 => Mnsj0[j] = 1
      BY <1>1, Zenon
    <3> QED
      BY ONLY j \in 1..29, <3>1, <3>2, <3>3, <3>4, <3>5, <3>6
  <2>3. i < 29 => i + 1 \in 1..29
    OBVIOUS
  <2> QED
    BY <2>1, <2>2, <2>3
<1>12. ASSUME NEW i \in Nat PROVE Dato(i) \in 0..4
  <2>1. CASE i \in 0..31
    BY <1>11, <2>1
  <2>2. CASE i > 31
    BY <1>8, <1>9, <2>2 DEF Dato
  <2> QED
    BY <2>1, <2>2
<1> QED
  BY <1>8, <1>9, <1>10, <1>11, <1>12

LEMMA Bytes ==
  \A i \in 0..31 :
    Dato(i) = IF i \in 0..19 THEN 1
              ELSE IF i \in 21..23 THEN 2
              ELSE IF i \in 25..27 THEN 3 ELSE 0
  BY Textos, Zenon

\* From the start of each text, its bytes and a zero.
LEMMA BytesDeTextos ==
  /\ \A i \in 0..20 : Dato(i) = IF i < 20 THEN 1 ELSE 0
  /\ \A i \in 0..3 : Dato(21 + i) = IF i < 3 THEN 2 ELSE 0
  /\ \A i \in 0..3 : Dato(25 + i) = IF i < 3 THEN 3 ELSE 0
<1>1. ASSUME NEW i \in 0..20 PROVE Dato(i) = IF i < 20 THEN 1 ELSE 0
  BY Bytes
<1>2. ASSUME NEW i \in 0..3 PROVE Dato(21 + i) = IF i < 3 THEN 2 ELSE 0
  <2>1. 21 + i \in 0..31
    OBVIOUS
  <2> QED
    BY <2>1, Bytes
<1>3. ASSUME NEW i \in 0..3 PROVE Dato(25 + i) = IF i < 3 THEN 3 ELSE 0
  <2>1. 25 + i \in 0..31
    OBVIOUS
  <2> QED
    BY <2>1, Bytes
<1> QED
  BY <1>1, <1>2, <1>3

\* A text begins at m; its copy is complete when the last byte copied is the
\* last one of the padding.
Textual == {0, 21, 25}

Copiado(m) ==
  /\ ebx \in 0..28 - m
  /\ \A i \in 0..ebx - 1 : cadena[i] = Dato(m + i)

CadenaTipo == cadena \in [0..LargoCadena - 1 -> 0..4]

\* What printf("%s") prints of a buffer.
CadenaDe(c) ==
  LET largo == CHOOSE n \in DOMAIN c :
                 c[n] = 0 /\ \A i \in 0..n - 1 : c[i] # 0
  IN  <<"%s">> \o [i \in 1..largo |-> c[i - 1]]

\* Of a buffer with a text of n bytes and a zero, printf prints that text.
LEMMA CadenaExacta ==
  ASSUME NEW c \in [0..LargoCadena - 1 -> 0..4],
         NEW n \in Nat, n < LargoCadena,
         \A i \in 0..n - 1 : c[i] # 0, c[n] = 0
  PROVE  CadenaDe(c) = <<"%s">> \o [i \in 1..n |-> c[i - 1]]
<1> DEFINE EsLargo(m) == c[m] = 0 /\ \A i \in 0..m - 1 : c[i] # 0
           largo == CHOOSE m \in DOMAIN c : EsLargo(m)
<1>1. DOMAIN c = 0..LargoCadena - 1 /\ LargoCadena \in Nat
  BY LargoAssumption
<1>2. n \in DOMAIN c /\ EsLargo(n)
  BY <1>1
<1>3. largo \in DOMAIN c /\ EsLargo(largo)
  BY <1>2
<1>4. largo = n
  <2>1. ~(largo < n)
    BY <1>1, <1>3
  <2>2. ~(n < largo)
    BY <1>1, <1>3
  <2> QED
    BY <1>1, <1>3, <2>1, <2>2
<1>5. CadenaDe(c) = <<"%s">> \o [i \in 1..largo |-> c[i - 1]]
  BY DEF CadenaDe
<1> HIDE DEF largo
<1> QED
  BY <1>4, <1>5

\* One pass of a copying loop: it goes on as long as any of the 32 bytes is
\* left, and then the buffer holds all of them.
LEMMA CopiarHechos ==
  ASSUME CadenaTipo, NEW m \in Textual, NEW destino, Copiado(m), Copiar(m, destino)
  PROVE  /\ CadenaTipo'
         /\ \/ /\ UNCHANGED <<pc, salida>>
               /\ Copiado(m)'
            \/ /\ pc' = destino
               /\ salida' = Append(salida, CadenaDe(cadena'))
               /\ \A i \in 0..31 - m : cadena'[i] = Dato(m + i)
         /\ ebx' \in Nat
<1>1. /\ cadena' = [i \in DOMAIN cadena |->
                      IF i - ebx \in 0..3 THEN Dato(m + i) ELSE cadena[i]]
      /\ ebx' = ebx + 1
      /\ ebx \in 0..28 - m /\ m \in {0, 21, 25}
      /\ LargoCadena \in Nat /\ LargoCadena >= 32
      /\ DOMAIN cadena = 0..LargoCadena - 1
      /\ \A i \in 0..ebx - 1 : cadena[i] = Dato(m + i)
  BY LargoAssumption DEF Copiar, Copia, CadenaTipo, Copiado, Textual
<1>2. ebx \in Nat /\ m \in Nat /\ m + ebx <= 28 /\ ebx + 4 <= LargoCadena
  BY <1>1
<1>3. CadenaTipo'
  <2>1. ASSUME NEW i \in 0..LargoCadena - 1
        PROVE  (IF i - ebx \in 0..3 THEN Dato(m + i) ELSE cadena[i]) \in 0..4
    <3>1. m + i \in Nat
      BY <1>2
    <3>2. Dato(m + i) \in 0..4
      BY <3>1, Textos
    <3> QED
      BY <3>2 DEF CadenaTipo
  <2> QED
    BY <1>1, <2>1 DEF CadenaTipo
<1>4. \A i \in 0..ebx + 3 : cadena'[i] = Dato(m + i)
  BY <1>1, <1>2
<1>5. CASE \E k \in 0..3 : Dato(m + ebx + k) # 0
  <2>1. m + ebx # 28
    <3> SUFFICES ASSUME m + ebx = 28 PROVE FALSE
        OBVIOUS
    <3>1. PICK k \in 0..3 : Dato(28 + k) # 0
      BY <1>5
    <3>2. 28 + k \in 0..31 /\ 28 + k \notin 0..27
      OBVIOUS
    <3>3. Dato(28 + k) = 0
      BY <3>2, Bytes
    <3> QED
      BY <3>1, <3>3
  <2>2. ebx' \in 0..28 - m
    BY <1>1, <1>2, <2>1
  <2>3. \A i \in 0..ebx' - 1 : cadena'[i] = Dato(m + i)
    BY <1>1, <1>2, <1>4
  <2>4. UNCHANGED <<pc, salida>>
    BY <1>5 DEF Copiar
  <2> QED
    BY <1>1, <1>2, <1>3, <2>2, <2>3, <2>4 DEF Copiado
<1>6. CASE \A k \in 0..3 : Dato(m + ebx + k) = 0
  <2>1. m + ebx = 28
    <3> DEFINE p == m + ebx
    <3>1. p \in 0..28 /\ p \in 0..31
      BY <1>2
    <3>2. Dato(p + 0) = 0 /\ Dato(p + 1) = 0
      BY <1>2, <1>6
    <3> HIDE DEF p
    <3>3. p + 0 = p /\ p + 1 \in 0..31
      BY <3>1
    <3>4. p \in {20, 24, 28}
      BY <3>1, <3>2, <3>3, Bytes
    <3>5. p + 1 \notin 21..23 /\ p + 1 \notin 25..27
      BY <3>1, <3>2, <3>3, Bytes
    <3> QED
      BY <3>4, <3>5 DEF p
  <2>2. 31 - m = ebx + 3
    BY <1>2, <2>1
  <2>3. salida' = Append(salida, CadenaDe(cadena')) /\ pc' = destino
    BY <1>6 DEF Copiar, Cadena, CadenaDe
  <2> QED
    BY <1>1, <1>2, <1>3, <1>4, <2>2, <2>3
<1> QED
  BY <1>5, <1>6 DEF Copiar

\* What the three loops print.
LEMMA TextosImpresos ==
  ASSUME NEW c \in [0..LargoCadena - 1 -> 0..4], NEW m \in Textual,
         \A i \in 0..31 - m : c[i] = Dato(m + i)
  PROVE  /\ m = 0 => CadenaDe(c) = <<"%s">> \o Mnsj0
         /\ m = 21 => CadenaDe(c) = <<"%s">> \o MnsjIgual
         /\ m = 25 => CadenaDe(c) = <<"%s">> \o MnsjMultiplicacion
<1>1. LargoCadena \in Nat /\ LargoCadena >= 32
  BY LargoAssumption
<1>2. ASSUME NEW i \in 0..31 - m PROVE c[i] = Dato(m + i) /\ m + i \in 0..31
  BY DEF Textual
<1>3. ASSUME m = 0 PROVE CadenaDe(c) = <<"%s">> \o Mnsj0
  <2>1. ASSUME NEW i \in 0..20 PROVE c[i] = IF i < 20 THEN 1 ELSE 0
    <3>1. i \in 0..31 - m /\ m + i = i
      BY <1>3
    <3>2. c[i] = Dato(i) /\ i \in 0..31
      BY <1>2, <3>1
    <3>3. Dato(i) = IF i < 20 THEN 1 ELSE 0
      BY BytesDeTextos, Zenon
    <3> QED
      BY <3>2, <3>3, Zenon
  <2>2. 20 \in Nat /\ 20 < LargoCadena
    BY <1>1
  <2>3. (\A i \in 0..20 - 1 : c[i] # 0) /\ c[20] = 0
    BY <1>1, <2>1
  <2>4. CadenaDe(c) = <<"%s">> \o [i \in 1..20 |-> c[i - 1]]
    BY <2>2, <2>3, CadenaExacta, Zenon
  <2>5. [i \in 1..20 |-> c[i - 1]] = Mnsj0
    BY <2>1 DEF Mnsj0
  <2> QED
    BY <2>4, <2>5, Zenon
<1>4. ASSUME m = 21 PROVE CadenaDe(c) = <<"%s">> \o MnsjIgual
  <2>1. ASSUME NEW i \in 0..3 PROVE c[i] = IF i < 3 THEN 2 ELSE 0
    <3>1. i \in 0..31 - m /\ m + i = 21 + i
      BY <1>4
    <3>2. c[i] = Dato(21 + i) /\ 21 + i \in 0..31
      BY <1>2, <3>1
    <3>3. Dato(21 + i) = IF i < 3 THEN 2 ELSE 0
      BY BytesDeTextos, Zenon
    <3> QED
      BY <3>2, <3>3, Zenon
  <2>2. 3 \in Nat /\ 3 < LargoCadena
    BY <1>1
  <2>3. (\A i \in 0..3 - 1 : c[i] # 0) /\ c[3] = 0
    BY <1>1, <2>1
  <2>4. CadenaDe(c) = <<"%s">> \o [i \in 1..3 |-> c[i - 1]]
    BY <2>2, <2>3, CadenaExacta, Zenon
  <2>5. [i \in 1..3 |-> c[i - 1]] = MnsjIgual
    BY <2>1 DEF MnsjIgual
  <2> QED
    BY <2>4, <2>5, Zenon
<1>5. ASSUME m = 25 PROVE CadenaDe(c) = <<"%s">> \o MnsjMultiplicacion
  <2>1. ASSUME NEW i \in 0..3 PROVE c[i] = IF i < 3 THEN 3 ELSE 0
    <3>1. i \in 0..31 - m /\ m + i = 25 + i
      BY <1>5
    <3>2. c[i] = Dato(25 + i) /\ 25 + i \in 0..31
      BY <1>2, <3>1
    <3>3. Dato(25 + i) = IF i < 3 THEN 3 ELSE 0
      BY BytesDeTextos, Zenon
    <3> QED
      BY <3>2, <3>3, Zenon
  <2>2. 3 \in Nat /\ 3 < LargoCadena
    BY <1>1
  <2>3. (\A i \in 0..3 - 1 : c[i] # 0) /\ c[3] = 0
    BY <1>1, <2>1
  <2>4. CadenaDe(c) = <<"%s">> \o [i \in 1..3 |-> c[i - 1]]
    BY <2>2, <2>3, CadenaExacta, Zenon
  <2>5. [i \in 1..3 |-> c[i - 1]] = MnsjMultiplicacion
    BY <2>1 DEF MnsjMultiplicacion
  <2> QED
    BY <2>4, <2>5, Zenon
<1> QED
  BY <1>3, <1>4, <1>5, Zenon

-----------------------------------------------------------------------------
(* The inductive invariant *)

\* What the copying loops have copied.
InvTextos ==
  /\ pc = "imprimirmnsj0" => Copiado(0)
  /\ pc = "imprimirmnsjIgual" => Copiado(21)
  /\ pc = "imprimirmnsjMultiplicacion" => Copiado(25)

\* What the search has excluded: smaller divisors of what is left, and in
\* saberSiPrimo all divisors of the one found but 1 and itself.
InvBusqueda ==
  /\ pc # "excepcion"
  /\ pc = "bucle_1" =>
       /\ contador >= 2
       /\ \A d \in 2..contador - 1 : numeroPorAnalizar % d # 0
  /\ pc = "bucle_0" =>
       /\ numeroPorAnalizar = contador
       /\ contador \in 2..WordSize - 2
       /\ Primo(contador)
       /\ \A d \in 2..contador - 1 : (resultado * contador) % d # 0
       /\ resultado >= 1
       /\ contadorLocal \in 1..contador + 1
       /\ contadorDivisores = IF contadorLocal = 1 THEN 0
                               ELSE IF contadorLocal <= contador THEN 1 ELSE 2
  /\ pc = "fin" => numeroPorAnalizar <= 1

\* What has been printed at each label.
Linea == Seq(Int \cup {"%d", "%s"})

InvSalida ==
  /\ salida \in Seq(Linea)
  /\ TextoFiel
  /\ pc = "imprimirmnsj0" => Len(salida) = 0
  /\ pc = "leerNumero" => Len(salida) = 1
  /\ pc = "imprimirmnsjIgual" => Len(salida) = 2
  /\ pc \in {"mostrarFactoresPrimos", "bucle_1", "bucle_0", "siguienteFactor"} =>
       Len(salida) >= 3 /\ Len(salida) % 2 = 1
  /\ pc \in {"imprimirmnsjMultiplicacion", "fin"} =>
       Len(salida) >= 4 /\ Len(salida) % 2 = 0

\* The factor printed in line i.
Valor(i) == salida[i][2] % WordSize

\* The factors printed are primes in order, no less than which divides what
\* is left, and with what is left they make up the number entered.
InvFactores ==
  /\ \A i \in Factores : Valor(i) \in Words /\ Primo(Valor(i))
  /\ \A i \in Factores : \A d \in 2..Valor(i) - 1 : Restante % d # 0
  /\ \A i \in Factores : i + 2 \in Factores => Valor(i) <= Valor(i + 2)
  /\ pc \in {"imprimirmnsj0", "leerNumero"} =>
       producto = 1 /\ numeroPorAnalizar = 0
  /\ pc \notin {"imprimirmnsj0", "leerNumero"} =>
       producto * Restante = numeroIngresado

IInv == TypeOK /\ InvTextos /\ InvBusqueda /\ InvSalida /\ InvFactores

-----------------------------------------------------------------------------

LEMMA Tipos ==
  ASSUME TypeOK
  PROVE  /\ numeroIngresado \in Nat /\ numeroPorAnalizar \in Nat
         /\ contador \in Nat /\ contadorLocal \in Nat
         /\ contadorDivisores \in Nat /\ resultado \in Nat /\ producto \in Nat
         /\ numeroPorAnalizar < WordSize /\ contador < WordSize
         /\ contadorLocal < WordSize
         /\ WordSize \in Nat /\ WordSize >= 4
         /\ Restante \in Nat
<1>1. /\ numeroIngresado \in Nat /\ numeroPorAnalizar \in Nat
      /\ contador \in Nat /\ contadorLocal \in Nat
      /\ contadorDivisores \in Nat /\ resultado \in Nat /\ producto \in Nat
      /\ numeroPorAnalizar < WordSize /\ contador < WordSize
      /\ contadorLocal < WordSize
      /\ WordSize \in Nat /\ WordSize >= 4
  BY WordSizeAssumption DEF TypeOK, Words
<1>2. Restante \in Nat
  <2>1. resultado * contador \in Nat
    BY <1>1
  <2> QED
    BY <1>1, <2>1 DEF Restante
<1> QED
  BY <1>1, <1>2

\* A line added at the end leaves the others as they were.
LEMMA LineaNueva ==
  ASSUME NEW s \in Seq(Linea), NEW l \in Linea
  PROVE  /\ Append(s, l) \in Seq(Linea)
         /\ Len(s) \in Nat
         /\ Len(Append(s, l)) = Len(s) + 1
         /\ Append(s, l)[Len(s) + 1] = l
         /\ \A i \in 1..Len(s) : Append(s, l)[i] = s[i]
  OBVIOUS

LEMMA NumeroEsLinea ==
  ASSUME NEW n \in Int
  PROVE  Numero(n) \in Linea /\ Numero(n)[1] = "%d" /\ Numero(n)[2] = n
  BY DEF Numero, Linea

LEMMA CadenaEsLinea ==
  /\ <<"%s">> \o Mnsj0 \in Linea
  /\ <<"%s">> \o MnsjIgual \in Linea
  /\ <<"%s">> \o MnsjMultiplicacion \in Linea
<1> DEFINE E == Int \cup {"%d", "%s"}
<1>1. <<"%s">> \in Seq(E)
  OBVIOUS
<1>2. Mnsj0 \in Seq(E) /\ MnsjIgual \in Seq(E) /\ MnsjMultiplicacion \in Seq(E)
  BY DEF Mnsj0, MnsjIgual, MnsjMultiplicacion
<1> HIDE DEF E
<1>3. \A s, t \in Seq(E) : s \o t \in Seq(E)
  BY ConcatProperties
<1> QED
  BY <1>1, <1>2, <1>3, Zenon DEF Linea, E

\* A step that shows nothing new of the factors and keeps what is left keeps
\* what is said of the factors.
LEMMA FactoresQuedan ==
  ASSUME InvFactores, Factores' = Factores,
         \A i \in Factores : salida'[i] = salida[i],
         Restante' = Restante,
         UNCHANGED <<producto, numeroIngresado>>,
         pc \notin {"imprimirmnsj0", "leerNumero"},
         pc' \notin {"imprimirmnsj0", "leerNumero"}
  PROVE  InvFactores'
<1>1. \A i \in Factores : Valor(i)' = Valor(i)
  BY DEF Valor
<1>2. \A i \in Factores' : Valor(i)' \in Words /\ Primo(Valor(i)')
  BY <1>1 DEF InvFactores
<1>3. \A i \in Factores' : \A d \in 2..Valor(i)' - 1 : Restante' % d # 0
  BY <1>1 DEF InvFactores
<1>4. \A i \in Factores' : i + 2 \in Factores' => Valor(i)' <= Valor(i + 2)'
  BY <1>1 DEF InvFactores
<1> QED
  BY <1>2, <1>3, <1>4 DEF InvFactores

LEMMA InitIInv == Init => IInv
<1> SUFFICES ASSUME Init PROVE IInv
    OBVIOUS
<1>1. TypeOK
  BY LargoAssumption, WordSizeAssumption DEF Init, TypeOK, Words
<1>2. InvTextos
  BY DEF Init, InvTextos, Copiado
<1>3. InvBusqueda
  BY DEF Init, InvBusqueda
<1>4. salida = <<>> /\ Len(salida) = 0 /\ salida \in Seq(Linea)
  BY DEF Init
<1>5. InvSalida
  BY <1>4 DEF Init, InvSalida, TextoFiel
<1>6. InvFactores
  BY <1>4 DEF Init, InvFactores, Factores
<1> QED
  BY <1>1, <1>2, <1>3, <1>5, <1>6 DEF IInv

\* A line printed is the one that its place asks for.
LineaDe(n, l) ==
  /\ n = 1 => l = <<"%s">> \o Mnsj0
  /\ n = 3 => l = <<"%s">> \o MnsjIgual
  /\ n > 3 /\ n % 2 = 1 => l = <<"%s">> \o MnsjMultiplicacion
  /\ n % 2 = 0 => l[1] = "%d"

LEMMA LineaImpresa ==
  ASSUME InvSalida, NEW l \in Linea, salida' = Append(salida, l),
         LineaDe(Len(salida) + 1, l)
  PROVE  /\ salida' \in Seq(Linea)
         /\ Len(salida) \in Nat
         /\ Len(salida') = Len(salida) + 1
         /\ salida'[Len(salida) + 1] = l
         /\ \A i \in 1..Len(salida) : salida'[i] = salida[i]
         /\ TextoFiel'
<1>1. salida \in Seq(Linea) /\ \A i \in 1..Len(salida) : LineaDe(i, salida[i])
  BY DEF InvSalida, TextoFiel, LineaDe
<1>2. /\ salida' \in Seq(Linea) /\ Len(salida) \in Nat
      /\ Len(salida') = Len(salida) + 1
      /\ salida'[Len(salida) + 1] = l
      /\ \A i \in 1..Len(salida) : salida'[i] = salida[i]
  BY <1>1, LineaNueva
<1>3. ASSUME NEW i \in 1..Len(salida') PROVE LineaDe(i, salida'[i])
  <2>1. CASE i = Len(salida) + 1
    BY <1>2, <2>1
  <2>2. CASE i \in 1..Len(salida)
    BY <1>1, <1>2, <2>2
  <2> QED
    BY <1>2, <2>1, <2>2
<1>4. TextoFiel'
  BY <1>3 DEF TextoFiel, LineaDe
<1> QED
  BY <1>2, <1>4

\* A text is never taken for a factor.
LEMMA FactoresConTexto ==
  ASSUME Len(salida) \in Nat, Len(salida') = Len(salida) + 1,
         Len(salida') % 2 = 1, pc # "fin", pc' # "fin"
  PROVE  Factores' = Factores
<1> DEFINE n == Len(salida)
           m == Len(salida')
<1>1. Factores = {i \in 4..n : i % 2 = 0} /\ Factores' = {i \in 4..m : i % 2 = 0}
  BY DEF Factores
<1>2. n \in Nat /\ m = n + 1 /\ m % 2 = 1
  OBVIOUS
<1> HIDE DEF n, m
<1> QED
  BY <1>1, <1>2

\* What does not show in the refinement: factors and what is left stay.
Quedan ==
  /\ Factores' = Factores
  /\ Restante' = Restante
  /\ \A i \in Factores : salida'[i] = salida[i]

LEMMA Imprimirmnsj0IInv == IInv /\ Imprimirmnsj0 => IInv' /\ Quedan
<1> SUFFICES ASSUME IInv, Imprimirmnsj0 PROVE IInv' /\ Quedan
    OBVIOUS
<1>0. TypeOK /\ InvTextos /\ InvBusqueda /\ InvSalida /\ InvFactores
  BY DEF IInv
<1>1. /\ pc = "imprimirmnsj0" /\ Copiar(0, "leerNumero") /\ Copiado(0)
      /\ CadenaTipo
      /\ UNCHANGED <<numeroIngresado, numeroPorAnalizar, contador,
                     contadorLocal, contadorDivisores, resultado, entrada,
                     producto>>
  BY <1>0 DEF Imprimirmnsj0, InvTextos, TypeOK, CadenaTipo
<1>2. /\ CadenaTipo' /\ ebx' \in Nat
      /\ \/ UNCHANGED <<pc, salida>> /\ Copiado(0)'
         \/ /\ pc' = "leerNumero"
            /\ salida' = Append(salida, CadenaDe(cadena'))
            /\ \A i \in 0..31 - 0 : cadena'[i] = Dato(0 + i)
  <2>1. 0 \in Textual
    BY DEF Textual
  <2> QED
    BY <1>1, <2>1, CopiarHechos, Zenon
<1>3. TypeOK'
  BY <1>0, <1>1, <1>2 DEF TypeOK, CadenaTipo
<1>4. CASE UNCHANGED <<pc, salida>> /\ Copiado(0)'
  <2>1. InvTextos' /\ InvBusqueda' /\ InvSalida'
    BY <1>0, <1>1, <1>4 DEF InvTextos, InvBusqueda, InvSalida, TextoFiel
  <2>2. InvFactores'
    BY <1>0, <1>1, <1>4 DEF InvFactores, Factores, Valor, Restante
  <2>3. Quedan
    BY <1>1, <1>4 DEF Quedan, Factores, Restante
  <2> QED
    BY <1>3, <2>1, <2>2, <2>3 DEF IInv
<1>5. CASE /\ pc' = "leerNumero"
           /\ salida' = Append(salida, CadenaDe(cadena'))
           /\ \A i \in 0..31 - 0 : cadena'[i] = Dato(0 + i)
  <2> DEFINE l == <<"%s">> \o Mnsj0
  <2>1. salida' = Append(salida, l)
    <3>1. 0 \in Textual /\ cadena' \in [0..LargoCadena - 1 -> 0..4]
      BY <1>2 DEF Textual, CadenaTipo
    <3>2. CadenaDe(cadena') = l
      BY <1>5, <3>1, TextosImpresos, Zenon
    <3> QED
      BY <1>5, <3>2
  <2>2. l \in Linea
    BY CadenaEsLinea
  <2> HIDE DEF l
  <2>3. Len(salida) = 0
    BY <1>0, <1>1 DEF InvSalida
  <2>4. LineaDe(Len(salida) + 1, l)
    BY <2>3 DEF LineaDe, l
  <2>5. /\ salida' \in Seq(Linea) /\ Len(salida') = Len(salida) + 1
        /\ Len(salida) \in Nat /\ TextoFiel'
    BY <1>0, <2>1, <2>2, <2>4, LineaImpresa
  <2>6. Len(salida') = 1
    BY <2>3, <2>5
  <2>7. InvTextos' /\ InvBusqueda' /\ InvSalida'
    BY <1>5, <2>5, <2>6 DEF InvTextos, InvBusqueda, InvSalida
  <2>8. Factores' = {} /\ Factores = {}
    BY <2>3, <2>6 DEF Factores
  <2>9. InvFactores'
    BY <1>0, <1>1, <1>5, <2>8 DEF InvFactores, Restante
  <2>10. Quedan
    BY <1>1, <1>5, <2>8 DEF Quedan, Restante
  <2> QED
    BY <1>3, <2>7, <2>9, <2>10 DEF IInv
<1> QED
  BY <1>2, <1>4, <1>5

LEMMA LeerNumeroIInv ==
  IInv /\ LeerNumero => /\ IInv' /\ Restante' \in Words
                        /\ Factores = {} /\ Factores' = {}
<1> SUFFICES ASSUME IInv, LeerNumero
             PROVE  /\ IInv' /\ Restante' \in Words
                    /\ Factores = {} /\ Factores' = {}
    OBVIOUS
<1>0. TypeOK /\ InvTextos /\ InvBusqueda /\ InvSalida /\ InvFactores
  BY DEF IInv
<1>1. /\ pc = "leerNumero" /\ pc' = "imprimirmnsjIgual"
      /\ numeroPorAnalizar' = numeroIngresado'
      /\ salida' = Append(salida, Numero(Signed(numeroIngresado')))
      /\ ebx' = 0
      /\ UNCHANGED <<contador, contadorLocal, contadorDivisores, resultado,
                     cadena, producto>>
  BY DEF LeerNumero
<1>2. numeroIngresado' \in Words /\ entrada' \in {"viva", "trabada"}
  <2>1. 0 \in Words
    BY WordSizeAssumption DEF Words
  <2> QED
    BY <1>0, <2>1 DEF LeerNumero, Scanf, Lectura, TypeOK
<1>3. TypeOK'
  BY <1>0, <1>1, <1>2 DEF TypeOK
<1> DEFINE l == Numero(Signed(numeroIngresado'))
<1>4. l \in Linea /\ l[1] = "%d"
  <2>1. Signed(numeroIngresado') \in Int
    BY <1>2, SignedTipo
  <2> QED
    BY <2>1, NumeroEsLinea
<1> HIDE DEF l
<1>5. Len(salida) = 1 /\ LineaDe(Len(salida) + 1, l)
  <2> DEFINE n == Len(salida)
  <2>1. n = 1
    BY <1>0, <1>1 DEF InvSalida
  <2> HIDE DEF n
  <2>2. LineaDe(n + 1, l)
    BY <1>4, <2>1 DEF LineaDe
  <2> QED
    BY <2>1, <2>2 DEF n
<1>6. /\ salida' \in Seq(Linea) /\ Len(salida') = Len(salida) + 1
      /\ Len(salida) \in Nat /\ TextoFiel'
  BY <1>0, <1>1, <1>4, <1>5, LineaImpresa DEF l
<1>7. Len(salida') = 2
  BY <1>5, <1>6
<1>8. InvTextos' /\ InvBusqueda' /\ InvSalida'
  BY <1>1, <1>6, <1>7 DEF InvTextos, Copiado, InvBusqueda, InvSalida
<1>9. Factores' = {} /\ Factores = {}
  BY <1>5, <1>7 DEF Factores
<1>10. producto' = 1 /\ Restante' = numeroIngresado' /\ numeroIngresado' \in Nat
  BY <1>0, <1>1, <1>2, WordSizeAssumption DEF InvFactores, Restante, Words
<1>11. producto' * Restante' = numeroIngresado'
  <2>1. \A n \in Nat : 1 * n = n
    OBVIOUS
  <2> QED
    BY <1>10, <2>1, Zenon
<1>12. InvFactores'
  BY <1>1, <1>9, <1>11 DEF InvFactores
<1> QED
  BY <1>2, <1>3, <1>8, <1>9, <1>10, <1>12 DEF IInv

\* The text of the equals sign and that of the multiplication sign.
LEMMA TextoIInv ==
  ASSUME IInv,
         NEW m \in {21, 25}, NEW origen, NEW destino,
         \/ /\ m = 21 /\ origen = "imprimirmnsjIgual"
            /\ destino = "mostrarFactoresPrimos"
         \/ /\ m = 25 /\ origen = "imprimirmnsjMultiplicacion"
            /\ destino = "siguienteFactor",
         pc = origen, Copiar(m, destino),
         UNCHANGED <<numeroIngresado, numeroPorAnalizar, contador,
                     contadorLocal, contadorDivisores, resultado, entrada,
                     producto>>
  PROVE  IInv' /\ Quedan /\ pc' \in {origen, destino}
<1>0. TypeOK /\ InvTextos /\ InvBusqueda /\ InvSalida /\ InvFactores
  BY DEF IInv
<1>1. m \in Textual /\ Copiado(m) /\ CadenaTipo
  BY <1>0 DEF InvTextos, TypeOK, CadenaTipo, Textual
<1>2. /\ CadenaTipo' /\ ebx' \in Nat
      /\ \/ UNCHANGED <<pc, salida>> /\ Copiado(m)'
         \/ /\ pc' = destino
            /\ salida' = Append(salida, CadenaDe(cadena'))
            /\ \A i \in 0..31 - m : cadena'[i] = Dato(m + i)
  BY <1>1, CopiarHechos, Zenon
<1>3. TypeOK'
  BY <1>0, <1>2 DEF TypeOK, CadenaTipo
<1>4. CASE UNCHANGED <<pc, salida>> /\ Copiado(m)'
  <2>1. InvTextos' /\ InvBusqueda' /\ InvSalida'
    BY <1>0, <1>4 DEF InvTextos, InvBusqueda, InvSalida, TextoFiel
  <2>2. Factores' = Factores /\ Restante' = Restante
    BY <1>4 DEF Factores, Restante
  <2>3. InvFactores'
    BY <1>0, <1>4, <2>2, FactoresQuedan
  <2> QED
    BY <1>3, <1>4, <2>1, <2>2, <2>3 DEF IInv, Quedan
<1>5. CASE /\ pc' = destino
           /\ salida' = Append(salida, CadenaDe(cadena'))
           /\ \A i \in 0..31 - m : cadena'[i] = Dato(m + i)
  <2> DEFINE l == CadenaDe(cadena')
  <2>1. /\ m = 21 => l = <<"%s">> \o MnsjIgual
        /\ m = 25 => l = <<"%s">> \o MnsjMultiplicacion
    <3>1. cadena' \in [0..LargoCadena - 1 -> 0..4]
      BY <1>2 DEF CadenaTipo
    <3> QED
      BY <1>1, <1>5, <3>1, TextosImpresos, Zenon
  <2>2. l \in Linea
    <3>1. m = 21 \/ m = 25
      OBVIOUS
    <3> QED
      BY <2>1, <3>1, CadenaEsLinea, Zenon
  <2> HIDE DEF l
  <2> DEFINE n == Len(salida)
  <2>3. m = 21 => n = 2
    BY <1>0 DEF InvSalida
  <2>4. m = 25 => n >= 4 /\ n % 2 = 0
    BY <1>0 DEF InvSalida
  <2>5. n \in Nat
    BY <1>0 DEF InvSalida
  <2> HIDE DEF n
  <2>6. LineaDe(n + 1, l)
    BY <2>1, <2>3, <2>4, <2>5 DEF LineaDe
  <2>7. /\ salida' \in Seq(Linea) /\ Len(salida') = n + 1
        /\ TextoFiel'
        /\ \A i \in 1..n : salida'[i] = salida[i]
    BY <1>0, <1>5, <2>2, <2>6, LineaImpresa DEF l, n
  <2>8. Len(salida') >= 3 /\ Len(salida') % 2 = 1
    BY <2>3, <2>4, <2>5, <2>7
  <2>9. InvTextos' /\ InvBusqueda' /\ InvSalida'
    BY <1>5, <2>7, <2>8 DEF InvTextos, InvBusqueda, InvSalida
  <2>10. Factores' = Factores
    BY <1>5, <2>5, <2>7, <2>8, FactoresConTexto DEF n
  <2>11. Restante' = Restante
    BY <1>5 DEF Restante
  <2>12. \A i \in Factores : salida'[i] = salida[i]
    BY <2>5, <2>7 DEF Factores, n
  <2>13. InvFactores'
    BY <1>0, <1>5, <2>10, <2>11, <2>12, FactoresQuedan
  <2> QED
    BY <1>3, <1>5, <2>9, <2>10, <2>11, <2>12, <2>13 DEF IInv, Quedan
<1> QED
  BY <1>2, <1>4, <1>5

LEMMA MostrarFactoresPrimosIInv == IInv /\ MostrarFactoresPrimos => IInv' /\ Quedan
<1> SUFFICES ASSUME IInv, MostrarFactoresPrimos PROVE IInv' /\ Quedan
    OBVIOUS
<1>0. TypeOK /\ InvTextos /\ InvBusqueda /\ InvSalida /\ InvFactores
  BY DEF IInv
<1>1. /\ pc = "mostrarFactoresPrimos" /\ pc' = "bucle_1" /\ contador' = 2
      /\ UNCHANGED <<numeroIngresado, numeroPorAnalizar, contadorLocal,
                     contadorDivisores, resultado, cadena, ebx, entrada,
                     salida, producto>>
  BY DEF MostrarFactoresPrimos, PrimerDivisor
<1>2. TypeOK'
  BY <1>0, <1>1, WordSizeAssumption DEF TypeOK, Words
<1>3. InvTextos' /\ InvBusqueda' /\ InvSalida'
  BY <1>0, <1>1 DEF InvTextos, InvBusqueda, InvSalida, TextoFiel
<1>4. Factores' = Factores /\ Restante' = Restante
  BY <1>1 DEF Factores, Restante
<1>5. InvFactores' /\ Quedan
  BY <1>0, <1>1, <1>4, FactoresQuedan DEF Quedan
<1> QED
  BY <1>2, <1>3, <1>5 DEF IInv

\* The search is over only when there is nothing left to divide.
LEMMA BusquedaAgotadaHechos ==
  ASSUME TypeOK, InvBusqueda, pc = "bucle_1", BusquedaAgotada
  PROVE  numeroPorAnalizar <= 1
<1> SUFFICES ASSUME numeroPorAnalizar >= 2 PROVE FALSE
  BY Tipos
<1>1. /\ numeroPorAnalizar \in Nat /\ contador \in Nat
      /\ contador > numeroPorAnalizar
      /\ \A d \in 2..contador - 1 : numeroPorAnalizar % d # 0
  BY Tipos DEF BusquedaAgotada, InvBusqueda
<1>2. numeroPorAnalizar \in 2..contador - 1
  BY <1>1
<1>3. numeroPorAnalizar = numeroPorAnalizar * 1 + 0
  BY <1>1
<1>4. numeroPorAnalizar % numeroPorAnalizar = 0
  BY <1>1, <1>3, DivisionUnica
<1> QED
  BY <1>1, <1>2, <1>4

LEMMA Bucle1IInv ==
  IInv /\ Bucle1 =>
    /\ IInv' /\ Quedan
    /\ pc = "bucle_1"
    /\ \/ pc' \in {"bucle_1", "bucle_0"}
       \/ (pc' = "fin" /\ Restante <= 1)
<1> SUFFICES ASSUME IInv, Bucle1
             PROVE  /\ IInv' /\ Quedan
                    /\ \/ pc' \in {"bucle_1", "bucle_0"}
                       \/ (pc' = "fin" /\ Restante <= 1)
    BY DEF Bucle1
<1> DEFINE n == numeroPorAnalizar
           c == contador
<1>0. TypeOK /\ InvTextos /\ InvBusqueda /\ InvSalida /\ InvFactores
  BY DEF IInv
<1>1. /\ pc = "bucle_1"
      /\ UNCHANGED <<numeroIngresado, cadena, ebx, entrada, producto>>
      /\ n \in Nat /\ c \in Nat /\ c >= 2
      /\ n \in Words /\ c \in Words
      /\ \A d \in 2..c - 1 : n % d # 0
      /\ Restante = n
  BY <1>0, Tipos DEF Bucle1, InvBusqueda, TypeOK, Restante
<1>2. CASE /\ BusquedaAgotada
           /\ salida' = Append(salida, Numero(1))
           /\ pc' = "fin"
           /\ UNCHANGED <<numeroPorAnalizar, contador, contadorLocal,
                          contadorDivisores, resultado>>
  <2> DEFINE l == Numero(1)
             k == Len(salida)
  <2>1. l \in Linea /\ l[1] = "%d"
    BY NumeroEsLinea
  <2> HIDE DEF l
  <2>2. k \in Nat /\ k >= 3 /\ k % 2 = 1
    BY <1>0, <1>1 DEF InvSalida
  <2>3. LineaDe(k + 1, l)
    BY <2>1, <2>2 DEF LineaDe
  <2>4. /\ salida' \in Seq(Linea) /\ Len(salida') = k + 1
        /\ TextoFiel' /\ \A i \in 1..k : salida'[i] = salida[i]
    BY <1>0, <1>2, <2>1, <2>3, LineaImpresa DEF l
  <2>5. TypeOK'
    BY <1>0, <1>1, <1>2 DEF TypeOK
  <2>6. n <= 1
    BY <1>0, <1>1, <1>2, BusquedaAgotadaHechos
  <2>7. InvTextos' /\ InvBusqueda'
    BY <1>2, <2>6 DEF InvTextos, InvBusqueda
  <2>8. InvSalida'
    BY <1>2, <2>2, <2>4 DEF InvSalida
  <2>9. Factores' = Factores
    <3> DEFINE m == Len(salida')
    <3>1. /\ Factores = {i \in 4..k : i % 2 = 0}
          /\ Factores' = {i \in 4..m : i % 2 = 0 /\ i # m}
      BY <1>1, <1>2 DEF Factores
    <3>2. m = k + 1
      BY <2>4
    <3> HIDE DEF m, k
    <3> QED
      BY <2>2, <3>1, <3>2
  <2>10. Restante' = Restante
    BY <1>1, <1>2 DEF Restante
  <2>11. \A i \in Factores : salida'[i] = salida[i]
    BY <2>2, <2>4 DEF Factores
  <2>12. InvFactores'
    BY <1>0, <1>1, <1>2, <2>9, <2>10, <2>11, FactoresQuedan
  <2>13. Quedan
    BY <2>9, <2>10, <2>11 DEF Quedan
  <2> QED
    BY <1>1, <1>2, <2>5, <2>6, <2>7, <2>8, <2>12, <2>13 DEF IInv
<1>3. CASE /\ ~BusquedaAgotada
           /\ resultado' = n \div c
           /\ n % c = 0
           /\ numeroPorAnalizar' = c
           /\ contadorLocal' = 1
           /\ contadorDivisores' = 0
           /\ pc' = "bucle_0"
           /\ UNCHANGED <<contador, salida>>
  <2>1. /\ n \div c \in Nat /\ n = (n \div c) * c /\ n \div c >= 1
        /\ n \div c <= n
    BY <1>1, <1>3, CocienteExacto, CocienteMenor DEF BusquedaAgotada
  <2>2. resultado' \in Words /\ 1 \in Words
    BY <1>1, <1>3, <2>1, WordSizeAssumption DEF Words
  <2>3. TypeOK'
    BY <1>0, <1>1, <1>3, <2>2 DEF TypeOK
  <2>4. Primo(c) /\ c \in 2..WordSize - 2
    <3>1. Primo(c)
      BY <1>1, <1>3, PrimerDivisorPrimo
    <3>2. c <= WordSize - 2
      BY <1>1, <3>1, PrimoNoEsElMayor
    <3> QED
      BY <1>1, <3>1, <3>2, WordSizeAssumption
  <2>5. resultado' * contador' = n
    BY <1>3, <2>1
  <2>6. InvBusqueda'
    <3>1. \A d \in 2..contador' - 1 : (resultado' * contador') % d # 0
      BY <1>1, <1>3, <2>5
    <3> QED
      BY <1>3, <2>1, <2>4, <3>1 DEF InvBusqueda
  <2>7. InvTextos' /\ InvSalida'
    BY <1>0, <1>1, <1>3 DEF InvTextos, InvSalida, TextoFiel
  <2>8. Factores' = Factores
    BY <1>1, <1>3 DEF Factores
  <2>9. Restante' = Restante
    BY <1>1, <1>3, <2>5 DEF Restante
  <2>10. InvFactores' /\ Quedan
    BY <1>0, <1>1, <1>3, <2>8, <2>9, FactoresQuedan DEF Quedan
  <2> QED
    BY <1>3, <2>3, <2>6, <2>7, <2>10 DEF IInv
<1>4. CASE /\ ~BusquedaAgotada
           /\ resultado' = n \div c
           /\ n % c # 0
           /\ contador' = SiguienteContador
           /\ UNCHANGED <<pc, numeroPorAnalizar, contadorLocal,
                          contadorDivisores, salida>>
  <2>1. c < n
    <3>1. c <= n
      BY <1>1, <1>4 DEF BusquedaAgotada
    <3>2. c # n
      <4>1. c = c * 1 + 0
        BY <1>1
      <4>2. c % c = 0
        BY <1>1, <4>1, DivisionUnica
      <4> QED
        BY <1>4, <4>2
    <3> QED
      BY <1>1, <3>1, <3>2
  <2>2. contador' = c + 1
    <3>1. c + 1 \in Words
      BY <1>1, <2>1, WordSizeAssumption DEF Words
    <3> QED
      BY <1>4, <3>1, ToWordDeWord DEF SiguienteContador
  <2>3. {contador', resultado'} \subseteq Words
    <3>1. n \div c \in 0..n
      BY <1>1, CocienteMenor
    <3> QED
      BY <1>1, <1>4, <2>1, <2>2, <3>1, WordSizeAssumption DEF Words
  <2>4. TypeOK'
    BY <1>0, <1>1, <1>4, <2>3 DEF TypeOK
  <2>5. InvBusqueda'
    <3>1. \A d \in 2..contador' - 1 : n % d # 0
      BY <1>1, <1>4, <2>2
    <3> QED
      BY <1>1, <1>4, <2>2, <3>1 DEF InvBusqueda
  <2>6. InvTextos' /\ InvSalida'
    BY <1>0, <1>1, <1>4 DEF InvTextos, InvSalida, TextoFiel
  <2>7. Factores' = Factores /\ Restante' = Restante
    BY <1>1, <1>4 DEF Factores, Restante
  <2>8. InvFactores' /\ Quedan
    BY <1>0, <1>1, <1>4, <2>7, FactoresQuedan DEF Quedan
  <2> QED
    BY <1>1, <1>4, <2>4, <2>5, <2>6, <2>8 DEF IInv
<1> QED
  BY <1>1, <1>2, <1>3, <1>4 DEF Bucle1

LEMMA Bucle0IInv ==
  IInv /\ Bucle0 => IInv' /\ Quedan /\ UNCHANGED pc
<1> SUFFICES ASSUME IInv, Bucle0 PROVE IInv' /\ Quedan /\ UNCHANGED pc
    OBVIOUS
<1> DEFINE c == contador
           l == contadorLocal
<1>0. TypeOK /\ InvTextos /\ InvBusqueda /\ InvSalida /\ InvFactores
  BY DEF IInv
<1>1. /\ pc = "bucle_0"
      /\ UNCHANGED <<numeroIngresado, numeroPorAnalizar, contador, resultado,
                     cadena, ebx, entrada, salida, producto>>
      /\ numeroPorAnalizar = c /\ c \in 2..WordSize - 2 /\ Primo(c)
      /\ c \in Nat /\ WordSize \in Nat
      /\ l \in 1..c
      /\ contadorDivisores = IF l = 1 THEN 0 ELSE 1
  BY <1>0, Tipos DEF Bucle0, InvBusqueda
<1>2. /\ UNCHANGED pc
      /\ contadorDivisores' = IF c % l = 0 THEN contadorDivisores + 1
                              ELSE contadorDivisores
      /\ contadorLocal' = ToWord(l + 1)
  BY <1>1 DEF Bucle0
<1>3. l + 1 \in Words /\ contadorLocal' = l + 1
  <2>1. l + 1 \in Words
    BY <1>1 DEF Words
  <2> QED
    BY <1>2, <2>1, ToWordDeWord
<1>4. c % l = 0 <=> l = 1 \/ l = c
  <2>1. c = 1 * c + 0 /\ c = c * 1 + 0
    BY <1>1
  <2>2. c % 1 = 0 /\ c % c = 0
    BY <1>1, <2>1, DivisionUnica
  <2>3. l # 1 /\ l # c => c % l # 0
    BY <1>1 DEF Primo
  <2> QED
    BY <2>2, <2>3
<1>5. contadorDivisores' = IF contadorLocal' <= c THEN 1 ELSE 2
  BY <1>1, <1>2, <1>3, <1>4
<1>6. TypeOK'
  BY <1>0, <1>1, <1>2, <1>3, <1>5 DEF TypeOK
<1>7. InvBusqueda'
  BY <1>0, <1>1, <1>2, <1>3, <1>5 DEF InvBusqueda
<1>8. InvTextos' /\ InvSalida'
  BY <1>0, <1>1, <1>2 DEF InvTextos, InvSalida, TextoFiel
<1>9. Factores' = Factores /\ Restante' = Restante
  BY <1>1, <1>2 DEF Factores, Restante
<1>10. InvFactores' /\ Quedan
  BY <1>0, <1>1, <1>2, <1>9, FactoresQuedan DEF Quedan
<1> QED
  BY <1>2, <1>6, <1>7, <1>8, <1>10 DEF IInv

\* saberSiPrimo never says no.
LEMMA DivisoresDos ==
  ASSUME TypeOK, InvBusqueda, pc = "bucle_0", contadorLocal > numeroPorAnalizar
  PROVE  contadorDivisores = 2
  BY Tipos DEF InvBusqueda

\* What the step that prints a factor does, for the invariant and for the
\* refinement.
LEMMA FactorNuevo ==
  ASSUME IInv, TerminaSaberSiPrimo
  PROVE  /\ pc = "bucle_0" /\ pc' = "imprimirmnsjMultiplicacion"
         /\ contador \in 2..WordSize - 2 /\ Primo(contador)
         /\ resultado \in Nat \ {0}
         /\ Restante = resultado * contador /\ Restante' = resultado
         /\ producto' = producto * contador
         /\ Len(salida) \in Nat /\ Len(salida) >= 3 /\ Len(salida) % 2 = 1
         /\ salida' \in Seq(Linea) /\ Len(salida') = Len(salida) + 1
         /\ TextoFiel'
         /\ \A i \in 1..Len(salida) : salida'[i] = salida[i]
         /\ salida'[Len(salida) + 1][2] % WordSize = contador
         /\ Len(salida) + 1 \notin Factores
         /\ Factores' = Factores \cup {Len(salida) + 1}
         /\ ebx' = 0
         /\ UNCHANGED <<numeroIngresado, numeroPorAnalizar, contador,
                        contadorLocal, contadorDivisores, resultado, cadena,
                        entrada>>
<1>0. TypeOK /\ InvTextos /\ InvBusqueda /\ InvSalida /\ InvFactores
  BY DEF IInv
<1>1. contadorDivisores = 2
  BY <1>0, DivisoresDos DEF TerminaSaberSiPrimo
<1>2. /\ pc = "bucle_0" /\ pc' = "imprimirmnsjMultiplicacion"
      /\ salida' = Append(salida, Numero(Signed(contador)))
      /\ producto' = producto * contador
      /\ ebx' = 0
      /\ UNCHANGED <<numeroIngresado, numeroPorAnalizar, contador,
                     contadorLocal, contadorDivisores, resultado, cadena,
                     entrada>>
  BY <1>1 DEF TerminaSaberSiPrimo
<1>3. /\ contador \in 2..WordSize - 2 /\ Primo(contador)
      /\ contador \in Words /\ contador \in Nat
      /\ resultado \in Nat \ {0}
  BY <1>0, <1>2, Tipos DEF InvBusqueda, TypeOK
<1>4. Restante = resultado * contador /\ Restante' = resultado
  BY <1>2 DEF Restante
<1> DEFINE f == Numero(Signed(contador))
           k == Len(salida)
<1>5. f \in Linea /\ f[1] = "%d" /\ f[2] = Signed(contador)
  <2>1. Signed(contador) \in Int
    BY <1>3, SignedTipo
  <2> QED
    BY <2>1, NumeroEsLinea
<1> HIDE DEF f
<1>6. k \in Nat /\ k >= 3 /\ k % 2 = 1
  BY <1>0, <1>2 DEF InvSalida
<1>7. LineaDe(k + 1, f)
  BY <1>5, <1>6 DEF LineaDe
<1>8. /\ salida' \in Seq(Linea) /\ Len(salida') = k + 1
      /\ TextoFiel' /\ salida'[k + 1] = f
      /\ \A i \in 1..k : salida'[i] = salida[i]
  BY <1>0, <1>2, <1>5, <1>7, LineaImpresa DEF f
<1>9. salida'[k + 1][2] % WordSize = contador
  <2>1. ToWord(0 + Signed(contador)) = ToWord(0 + contador)
    BY <1>3, ToWordSigned
  <2>2. 0 + Signed(contador) = Signed(contador) /\ 0 + contador = contador
    BY <1>3, SignedTipo
  <2>3. Signed(contador) % WordSize = contador
    <3>1. ToWord(Signed(contador)) = ToWord(contador)
      BY <2>1, <2>2, Zenon
    <3>2. ToWord(contador) = contador
      BY <1>3, ToWordDeWord, Zenon
    <3> QED
      BY <3>1, <3>2, Zenon DEF ToWord
  <2> QED
    BY <1>5, <1>8, <2>3
<1>10. k + 1 \notin Factores /\ Factores' = Factores \cup {k + 1}
  <2> DEFINE m == Len(salida')
  <2>1. /\ Factores = {i \in 4..k : i % 2 = 0}
        /\ Factores' = {i \in 4..m : i % 2 = 0}
    BY <1>2 DEF Factores
  <2>2. m = k + 1
    BY <1>8
  <2> HIDE DEF m, k
  <2>3. (k + 1) % 2 = 0 /\ k + 1 >= 4
    BY <1>6
  <2> QED
    BY <1>6, <2>1, <2>2, <2>3
<1> QED
  BY <1>2, <1>3, <1>4, <1>6, <1>8, <1>9, <1>10

LEMMA TerminaSaberSiPrimoIInv == IInv /\ TerminaSaberSiPrimo => IInv'
<1> SUFFICES ASSUME IInv, TerminaSaberSiPrimo PROVE IInv'
    OBVIOUS
<1> DEFINE k == Len(salida)
           c == contador
<1>0. TypeOK /\ InvTextos /\ InvBusqueda /\ InvSalida /\ InvFactores
  BY DEF IInv
<1>1. /\ pc = "bucle_0" /\ pc' = "imprimirmnsjMultiplicacion"
      /\ c \in 2..WordSize - 2 /\ Primo(c)
      /\ resultado \in Nat \ {0}
      /\ Restante = resultado * c /\ Restante' = resultado
      /\ producto' = producto * c
      /\ k \in Nat /\ k >= 3 /\ k % 2 = 1
      /\ salida' \in Seq(Linea) /\ Len(salida') = k + 1
      /\ TextoFiel'
      /\ \A i \in 1..k : salida'[i] = salida[i]
      /\ salida'[k + 1][2] % WordSize = c
      /\ k + 1 \notin Factores
      /\ Factores' = Factores \cup {k + 1}
      /\ ebx' = 0
      /\ UNCHANGED <<numeroIngresado, numeroPorAnalizar, contador,
                     contadorLocal, contadorDivisores, resultado, cadena,
                     entrada>>
  BY FactorNuevo
<1>2. c \in Nat \ {0} /\ c \in Words /\ producto \in Nat
  BY <1>0, <1>1, Tipos DEF TypeOK
<1>21. c \in Int /\ resultado \in Int /\ c * resultado = resultado * c
  BY <1>1, <1>2
<1>3. producto' \in Nat
  BY <1>1, <1>2
<1>4. TypeOK'
  BY <1>0, <1>1, <1>3 DEF TypeOK
<1>5. InvTextos' /\ InvBusqueda'
  BY <1>1 DEF InvTextos, InvBusqueda, Copiado
<1>6. InvSalida'
  <2>1. Len(salida') >= 4 /\ Len(salida') % 2 = 0
    BY <1>1
  <2> QED
    BY <1>1, <2>1 DEF InvSalida
<1>7. producto' * Restante' = numeroIngresado'
  <2>1. producto * (resultado * c) = numeroIngresado
    BY <1>0, <1>1 DEF InvFactores
  <2>2. producto * (resultado * c) = (producto * c) * resultado
    <3>1. \A x, y, z \in Int : x * (y * z) = (x * z) * y
      OBVIOUS
    <3> QED
      BY <1>1, <1>2, <3>1
  <2> QED
    BY <1>1, <2>1, <2>2
<1>8. \A i \in Factores : i \in 1..k /\ Valor(i)' = Valor(i)
  BY <1>1 DEF Factores, Valor
<1>9. ASSUME NEW i \in Factores PROVE Valor(i) <= c
  <2>1. Valor(i) \in Nat /\ \A d \in 2..Valor(i) - 1 : (resultado * c) % d # 0
    BY <1>0, <1>1, WordSizeAssumption DEF InvFactores, Words
  <2>2. (resultado * c) % c = 0
    BY <1>2, <1>21, CocienteDeMultiplo, Zenon
  <2>3. ~(c \in 2..Valor(i) - 1)
    BY <2>1, <2>2
  <2> QED
    BY <1>1, <1>2, <2>1, <2>3
<1>10. ASSUME NEW d \in Nat \ {0}, (resultado * c) % d # 0
       PROVE  resultado % d # 0
  <2> SUFFICES ASSUME resultado % d = 0 PROVE FALSE
      OBVIOUS
  <2>1. (c * resultado) % d = 0
    BY <1>21, DivideMultiplo, Zenon
  <2> QED
    BY <1>10, <1>21, <2>1, Zenon
<1>11. ASSUME NEW i \in Factores'
       PROVE  Valor(i)' \in Words /\ Primo(Valor(i)')
  <2>1. CASE i \in Factores
    <3>1. Valor(i) \in Words /\ Primo(Valor(i))
      BY <1>0, <2>1 DEF InvFactores
    <3> QED
      BY <1>8, <2>1, <3>1, Zenon
  <2>2. CASE i = k + 1
    <3>1. Valor(i)' = c
      BY <1>1, <2>2, Zenon DEF Valor
    <3> QED
      BY <1>1, <1>2, <3>1, Zenon
  <2> QED
    BY <1>1, <2>1, <2>2
<1>12. ASSUME NEW i \in Factores', NEW d \in 2..Valor(i)' - 1
       PROVE  Restante' % d # 0
  <2>1. CASE i \in Factores
    <3>1. Valor(i) \in Nat /\ d \in 2..Valor(i) - 1 /\ d \in Nat \ {0}
      BY <1>0, <1>8, <2>1, WordSizeAssumption DEF InvFactores, Words
    <3>2. (resultado * c) % d # 0
      BY <1>0, <1>1, <2>1, <3>1 DEF InvFactores
    <3> QED
      BY <1>1, <1>10, <3>1, <3>2, Zenon
  <2>2. CASE i = k + 1
    <3>0. Valor(i)' = c
      BY <1>1, <2>2, Zenon DEF Valor
    <3>1. d \in 2..c - 1 /\ d \in Nat \ {0}
      BY <1>2, <3>0
    <3>2. (resultado * c) % d # 0
      BY <1>0, <1>1, <3>1 DEF InvBusqueda
    <3> QED
      BY <1>1, <1>10, <3>1, <3>2, Zenon
  <2> QED
    BY <1>1, <2>1, <2>2
<1>13. ASSUME NEW i \in Factores', i + 2 \in Factores'
       PROVE  Valor(i)' <= Valor(i + 2)'
  <2>1. i # k + 1 /\ i \in Factores
    <3>1. \A j \in Factores' : j \in Nat /\ j <= k + 1
      BY <1>1, <1>8
    <3> QED
      BY <1>1, <1>13, <3>1
  <2>2. CASE i + 2 \in Factores
    <3>1. Valor(i) <= Valor(i + 2)
      BY <1>0, <2>1, <2>2 DEF InvFactores
    <3>2. Valor(i)' = Valor(i) /\ Valor(i + 2)' = Valor(i + 2)
      BY <1>8, <2>1, <2>2, Zenon
    <3> QED
      BY <3>1, <3>2, Zenon
  <2>3. CASE i + 2 = k + 1
    <3>1. Valor(i + 2)' = c
      BY <1>1, <2>3, Zenon DEF Valor
    <3>2. Valor(i)' = Valor(i) /\ Valor(i) <= c
      BY <1>8, <1>9, <2>1
    <3> QED
      BY <3>1, <3>2
  <2> QED
    BY <1>1, <1>13, <2>2, <2>3
<1>14. InvFactores'
  BY <1>1, <1>7, <1>11, <1>12, <1>13 DEF InvFactores
<1> QED
  BY <1>4, <1>5, <1>6, <1>14 DEF IInv

LEMMA SiguienteFactorIInv == IInv /\ SiguienteFactor => IInv' /\ Quedan
<1> SUFFICES ASSUME IInv, SiguienteFactor PROVE IInv' /\ Quedan
    OBVIOUS
<1>0. TypeOK /\ InvTextos /\ InvBusqueda /\ InvSalida /\ InvFactores
  BY DEF IInv
<1>1. /\ pc = "siguienteFactor" /\ pc' = "mostrarFactoresPrimos"
      /\ numeroPorAnalizar' = resultado
      /\ UNCHANGED <<numeroIngresado, contador, contadorLocal,
                     contadorDivisores, resultado, cadena, ebx, entrada,
                     salida, producto>>
  BY DEF SiguienteFactor, Cociente
<1>2. TypeOK'
  BY <1>0, <1>1 DEF TypeOK
<1>3. InvTextos' /\ InvBusqueda' /\ InvSalida'
  BY <1>0, <1>1 DEF InvTextos, InvBusqueda, InvSalida, TextoFiel
<1>4. Factores' = Factores /\ Restante' = Restante
  BY <1>1 DEF Factores, Restante
<1>5. InvFactores' /\ Quedan
  BY <1>0, <1>1, <1>4, FactoresQuedan DEF Quedan
<1> QED
  BY <1>2, <1>3, <1>5 DEF IInv

LEMMA QuietoIInv == IInv /\ UNCHANGED vars => IInv'
<1> SUFFICES ASSUME IInv, UNCHANGED vars PROVE IInv'
    OBVIOUS
<1>1. UNCHANGED <<pc, numeroIngresado, numeroPorAnalizar, contador,
                  contadorLocal, contadorDivisores, resultado, cadena, ebx,
                  entrada, salida, producto>>
  BY DEF vars
<1>2. TypeOK' /\ InvTextos' /\ InvBusqueda' /\ InvSalida'
  BY <1>1 DEF IInv, TypeOK, InvTextos, Copiado, InvBusqueda, InvSalida, TextoFiel
<1>3. Factores' = Factores /\ Restante' = Restante
  BY <1>1 DEF Factores, Restante
<1>4. InvFactores'
  BY <1>1, <1>3 DEF IInv, InvFactores, Valor
<1> QED
  BY <1>2, <1>4 DEF IInv

LEMMA NextIInv == IInv /\ [Next]_vars => IInv'
<1> SUFFICES ASSUME IInv, [Next]_vars PROVE IInv'
    OBVIOUS
<1>1. CASE ImprimirmnsjIgual
  <2>1. Copiar(21, "mostrarFactoresPrimos")
    BY <1>1, Textos, Zenon DEF ImprimirmnsjIgual
  <2> QED
    BY <1>1, <2>1, TextoIInv DEF ImprimirmnsjIgual
<1>2. CASE ImprimirmnsjMultiplicacion
  <2>1. Copiar(25, "siguienteFactor")
    BY <1>2, Textos, Zenon DEF ImprimirmnsjMultiplicacion
  <2> QED
    BY <1>2, <2>1, TextoIInv DEF ImprimirmnsjMultiplicacion
<1>3. CASE UNCHANGED vars
  BY <1>3, QuietoIInv
<1> QED
  BY <1>1, <1>2, <1>3, Imprimirmnsj0IInv, LeerNumeroIInv,
     MostrarFactoresPrimosIInv, Bucle1IInv, Bucle0IInv,
     TerminaSaberSiPrimoIInv, SiguienteFactorIInv DEF Next, Acabado

\* IInv holds in every reachable state, for every number that can be typed,
\* every size of a dword whose largest number is no prime and every buffer of
\* at least 32 bytes.
THEOREM Inductivo == Spec => []IInv
  BY InitIInv, NextIInv, PTL DEF Spec

\* Types, and the end of every count: no number with more than two divisors is
\* ever counted to its end (1.asm:123-159).
THEOREM TypeOKTheorem == Spec => []TypeOK
  BY Inductivo, PTL DEF IInv

LEMMA IInvDentro == IInv => DentroDeLaSeccion
<1> SUFFICES ASSUME IInv PROVE DentroDeLaSeccion
    OBVIOUS
<1>1. LargoCadena \in Nat /\ LargoCadena >= 32
  BY LargoAssumption
<1>2. /\ Len(Mensajes) = 29 /\ Relleno = 3
      /\ DeIgual = 21 /\ DeMultiplicacion = 25
  BY Textos
<1>3. InvTextos
  BY DEF IInv
<1>4. /\ pc = "imprimirmnsj0" => ebx \in 0..28
      /\ pc = "imprimirmnsjIgual" => ebx \in 0..7
      /\ pc = "imprimirmnsjMultiplicacion" => ebx \in 0..3
  BY <1>3 DEF InvTextos, Copiado
<1> QED
  BY <1>1, <1>2, <1>4 DEF DentroDeLaSeccion

\* No copying loop reads past the section or writes past the buffer
\* (1.asm:99-121, 229-235).
THEOREM DentroDeLaSeccionTheorem == Spec => []DentroDeLaSeccion
  BY Inductivo, IInvDentro, PTL

\* Each text is printed whole and alone, whatever the one before has left in
\* the buffer that they share.
THEOREM TextoFielTheorem == Spec => []TextoFiel
<1>1. IInv => TextoFiel
  BY DEF IInv, InvSalida
<1> QED
  BY <1>1, Inductivo, PTL

\* saberSiPrimo never answers no (1.asm:183-188).
THEOREM PrimerDivisorEsPrimoTheorem == Spec => []PrimerDivisorEsPrimo
<1>1. IInv => PrimerDivisorEsPrimo
  BY DivisoresDos DEF IInv, PrimerDivisorEsPrimo
<1> QED
  BY <1>1, Inductivo, PTL

\* At the end of the program nothing but 0 or 1 is left to divide.
LEMMA IInvFactorizacion == IInv => FactorizacionCorrecta
<1> SUFFICES ASSUME IInv PROVE FactorizacionCorrecta
    OBVIOUS
<1>0. TypeOK /\ InvBusqueda /\ InvFactores
  BY DEF IInv
<1>1. /\ pc # "excepcion"
      /\ \A i \in Factores : Primo(salida[i][2] % WordSize)
  BY <1>0 DEF InvBusqueda, InvFactores, Valor
<1>2. \A i \in Factores :
        i + 2 \in Factores =>
          salida[i][2] % WordSize <= salida[i + 2][2] % WordSize
  BY <1>0 DEF InvFactores, Valor
<1>3. pc = "mostrarFactoresPrimos" =>
        producto * numeroPorAnalizar = numeroIngresado
  BY <1>0 DEF InvFactores, Restante
<1>4. ASSUME pc = "fin"
      PROVE  producto = numeroIngresado \/ numeroIngresado = 0
  <2>1. producto * numeroPorAnalizar = numeroIngresado
    BY <1>0, <1>4 DEF InvFactores, Restante
  <2>2. producto \in Nat /\ numeroPorAnalizar \in 0..1
    BY <1>0, <1>4, Tipos DEF InvBusqueda
  <2>3. producto * 0 = 0 /\ producto * 1 = producto
    BY <2>2
  <2>4. numeroPorAnalizar = 0 \/ numeroPorAnalizar = 1
    BY <2>2
  <2> QED
    BY <2>1, <2>3, <2>4, Zenon
<1> QED
  BY <1>1, <1>2, <1>3, <1>4 DEF FactorizacionCorrecta

\* No DIV is by zero, and what is printed is the factorisation of N into
\* primes, in order (1.asm:123-217).
THEOREM FactorizacionCorrectaTheorem == Spec => []FactorizacionCorrecta
  BY Inductivo, IInvFactorizacion, PTL

-----------------------------------------------------------------------------
(* The refinement of FactoresAbstracto *)

\* As many even numbers from 4 on as there are halves.
LEMMA CuentaDePares ==
  ASSUME NEW n \in Nat
  PROVE  /\ IsFiniteSet({2 * j + 2 : j \in 1..n})
         /\ Cardinality({2 * j + 2 : j \in 1..n}) = n
<1> DEFINE S == {2 * j + 2 : j \in 1..n}
           f == [j \in 1..n |-> 2 * j + 2]
<1>1. f \in Bijection(1..n, S)
  <2>1. f \in [1..n -> S]
    OBVIOUS
  <2>2. \A a, b \in 1..n : f[a] = f[b] => a = b
    OBVIOUS
  <2>3. \A t \in S : \E a \in 1..n : f[a] = t
    OBVIOUS
  <2> QED
    BY <2>1, <2>2, <2>3, Fun_IsBij
<1>2. ExistsBijection(1..n, S)
  BY <1>1 DEF ExistsBijection
<1>3. IsFiniteSet(1..n) /\ Cardinality(1..n) = n
  BY FS_Interval
<1> QED
  BY <1>2, <1>3, FS_Bijection

\* Factors are in every other line of what is printed, from the fourth on.
LEMMA FormaDeFactores ==
  ASSUME IInv
  PROVE  /\ Cardinality(Factores) \in Nat
         /\ Factores = {2 * j + 2 : j \in 1..Cardinality(Factores)}
<1> DEFINE k == Len(salida)
           m == IF pc = "fin" THEN k - 1 ELSE k
           n == IF m < 4 THEN 0 ELSE (m - 2) \div 2
<1>1. k \in Nat
  BY DEF IInv, InvSalida
<1>2. Factores = {i \in 4..m : i % 2 = 0}
  BY <1>1 DEF Factores
<1> HIDE DEF k
<1>3. m \in Int
  BY <1>1
<1> HIDE DEF m
<1>4. n \in Nat
  BY <1>3
<1>5. ASSUME NEW i
      PROVE  i \in Factores <=> i \in {2 * j + 2 : j \in 1..n}
  <2>1. ASSUME i \in Factores PROVE \E j \in 1..n : i = 2 * j + 2
    <3>1. i \in Int /\ i >= 4 /\ i <= m /\ i % 2 = 0
      BY <1>2, <1>3, <2>1
    <3>2. (i - 2) \div 2 \in 1..n /\ i = 2 * ((i - 2) \div 2) + 2
      BY <1>3, <3>1
    <3> QED
      BY <3>2
  <2>2. ASSUME NEW j \in 1..n PROVE 2 * j + 2 \in Factores
    <3>1. 2 * j + 2 \in 4..m /\ (2 * j + 2) % 2 = 0
      BY <1>3
    <3> QED
      BY <1>2, <3>1
  <2> QED
    BY <2>1, <2>2
<1>6. Factores = {2 * j + 2 : j \in 1..n}
  BY <1>5
<1> HIDE DEF n
<1>7. Cardinality(Factores) = n
  BY <1>4, <1>6, CuentaDePares, Zenon
<1> QED
  BY <1>4, <1>6, <1>7

\* The factors shown, as the abstract specification sees them.
Mostrados == [i \in 1..Cardinality(Factores) |-> salida[2 * i + 2][2] % WordSize]

LEMMA MostradosQuedan ==
  ASSUME IInv, Quedan
  PROVE  Mostrados' = Mostrados /\ Restante' = Restante
<1> DEFINE n == Cardinality(Factores)
<1>1. \A i \in 1..n : salida'[2 * i + 2] = salida[2 * i + 2]
  BY FormaDeFactores DEF Quedan
<1>2. Factores' = Factores /\ Restante' = Restante
  BY DEF Quedan
<1>3. Cardinality(Factores)' = n
  BY <1>2, Zenon
<1> HIDE DEF n
<1>4. Mostrados = [i \in 1..n |-> salida[2 * i + 2][2] % WordSize]
  BY Zenon DEF Mostrados, n
<1>5. Mostrados' = [i \in 1..n |-> salida'[2 * i + 2][2] % WordSize]
  BY <1>3, Zenon DEF Mostrados
<1> QED
  BY <1>1, <1>2, <1>4, <1>5

LEMMA SinFactores ==
  ASSUME Factores = {}
  PROVE  Mostrados = <<>>
<1>1. Cardinality(Factores) = 0
  BY FS_EmptySet, Zenon
<1> QED
  BY <1>1 DEF Mostrados

\* A factor printed is one more factor shown.
LEMMA MostradosCrecen ==
  ASSUME IInv, NEW f \in Words,
         pc # "fin", Len(salida) \in Nat, Len(salida) >= 3,
         Len(salida) % 2 = 1,
         Len(salida) + 1 \notin Factores,
         Factores' = Factores \cup {Len(salida) + 1},
         \A i \in 1..Len(salida) : salida'[i] = salida[i],
         salida'[Len(salida) + 1][2] % WordSize = f
  PROVE  Mostrados' = Append(Mostrados, f)
<1> DEFINE n == Cardinality(Factores)
           k == Len(salida)
<1>0. k \in Nat /\ k >= 3 /\ k % 2 = 1
  OBVIOUS
<1>1. n \in Nat /\ Factores = {2 * j + 2 : j \in 1..n} /\ IsFiniteSet(Factores)
  <2>1. n \in Nat /\ Factores = {2 * j + 2 : j \in 1..n}
    BY FormaDeFactores
  <2>2. IsFiniteSet({2 * j + 2 : j \in 1..n})
    BY <2>1, CuentaDePares
  <2> QED
    BY <2>1, <2>2, Zenon
<1>2. Cardinality(Factores') = n + 1
  <2>1. Cardinality(Factores \cup {k + 1}) = n + 1
    BY <1>1, FS_AddElement
  <2> QED
    BY <2>1, Zenon
<1>3. k + 1 = 2 * (n + 1) + 2
  <2>1. /\ \A i \in Factores : i <= k
        /\ \A i \in Int : i >= 4 /\ i <= k /\ i % 2 = 0 => i \in Factores
    BY DEF Factores
  <2> HIDE DEF n, k
  <2>2. n >= 1 => 2 * n + 2 \in Factores
    BY <1>1
  <2>3. 2 * n + 2 <= k
    <3>1. n >= 1 => 2 * n + 2 <= k
      BY <2>1, <2>2
    <3>2. n = 0 => 2 * n + 2 <= k
      BY <1>0
    <3> QED
      BY <1>1, <3>1, <3>2
  <2>4. 2 * (n + 1) + 2 \notin Factores
    <3>1. ASSUME NEW j \in 1..n PROVE 2 * j + 2 # 2 * (n + 1) + 2
      BY <1>1
    <3> QED
      BY <1>1, <3>1
  <2>5. (2 * (n + 1) + 2) % 2 = 0 /\ 2 * (n + 1) + 2 >= 4
    BY <1>1
  <2>6. ~(2 * (n + 1) + 2 <= k)
    <3> DEFINE e == 2 * (n + 1) + 2
    <3>1. e \in Int /\ e % 2 = 0 /\ e >= 4 /\ e \notin Factores
      BY <1>1, <2>4, <2>5
    <3> HIDE DEF e
    <3>2. ~(e <= k)
      BY <2>1, <3>1
    <3> QED
      BY <3>2 DEF e
  <2> QED
    BY <1>0, <1>1, <2>3, <2>6
<1>4. \A i \in 1..n : /\ 2 * i + 2 \in 1..k
                       /\ salida[2 * i + 2][2] % WordSize \in Words
  <2>1. ASSUME NEW i \in 1..n PROVE 2 * i + 2 \in Factores
    BY <1>1
  <2>2. \A j \in Factores : j \in 1..k /\ salida[j][2] % WordSize \in Words
    BY DEF IInv, InvFactores, Valor, Factores
  <2> QED
    BY <2>1, <2>2
<1>5. Mostrados = [i \in 1..n |-> salida[2 * i + 2][2] % WordSize]
  BY Zenon DEF Mostrados
<1>6. Mostrados' = [i \in 1..n + 1 |-> salida'[2 * i + 2][2] % WordSize]
  BY <1>2, Zenon DEF Mostrados
<1> HIDE DEF n
<1>7. Mostrados \in Seq(Words) /\ Len(Mostrados) = n
  BY <1>1, <1>4, <1>5
<1>8. \A i \in 1..n : salida'[2 * i + 2] = salida[2 * i + 2]
  BY <1>4
<1>9. \A i \in 1..n : Mostrados'[i] = Mostrados[i]
  BY <1>1, <1>5, <1>6, <1>8
<1>10. Mostrados'[n + 1] = f
  BY <1>1, <1>3, <1>6
<1>11. Mostrados' \in Seq(Words) /\ Len(Mostrados') = n + 1
  <2>1. \A i \in 1..n + 1 : salida'[2 * i + 2][2] % WordSize \in Words
    BY <1>1, <1>3, <1>4, <1>8
  <2> QED
    BY <1>1, <1>6, <2>1
<1> HIDE DEF k
<1> DEFINE s == Mostrados
           t == Mostrados'
<1>12. /\ s \in Seq(Words) /\ t \in Seq(Words) /\ f \in Words
       /\ Len(s) = n /\ Len(t) = n + 1 /\ n \in Nat
       /\ \A i \in 1..n : t[i] = s[i]
       /\ t[n + 1] = f
  BY <1>1, <1>7, <1>9, <1>10, <1>11
<1> HIDE DEF s, t
<1>13. t = Append(s, f)
  BY <1>12, AppendProperties, SeqEqual
<1> QED
  BY <1>13 DEF s, t

LEMMA InitAbstracto == Init => Abstracto!Init
<1> SUFFICES ASSUME Init PROVE Abstracto!Init
    OBVIOUS
<1>1. Fase = "espera" /\ Restante = 0
  BY DEF Init, Fase, Restante
<1>2. Factores = {}
  BY DEF Init, Factores
<1> QED
  BY <1>1, <1>2, SinFactores DEF Abstracto!Init, Mostrados

LEMMA QuietoRefina ==
  ASSUME IInv, Quedan, Fase' = Fase
  PROVE  UNCHANGED Abstracto!vars
  BY MostradosQuedan DEF Abstracto!vars, Mostrados

LEMMA LeerNumeroRefina == IInv /\ LeerNumero => Abstracto!Ingresar
<1> SUFFICES ASSUME IInv, LeerNumero PROVE Abstracto!Ingresar
    OBVIOUS
<1>1. Restante' \in Words /\ Factores = {} /\ Factores' = {}
  BY LeerNumeroIInv
<1>2. Fase = "espera" /\ Fase' = "factoriza"
  BY DEF LeerNumero, Fase
<1>3. Cardinality(Factores) = 0 /\ Cardinality(Factores') = 0
  BY <1>1, FS_EmptySet, Zenon
<1>4. Mostrados = Mostrados'
  BY <1>3 DEF Mostrados
<1> QED
  BY <1>1, <1>2, <1>4 DEF Abstracto!Ingresar, Mostrados

\* The step that prints a factor takes the least divisor out of what is left.
LEMMA TerminaSaberSiPrimoRefina ==
  IInv /\ TerminaSaberSiPrimo => Abstracto!Separar
<1> SUFFICES ASSUME IInv, TerminaSaberSiPrimo PROVE Abstracto!Separar
    OBVIOUS
<1> DEFINE c == contador
           n == resultado * c
<1>1. /\ pc = "bucle_0" /\ pc' = "imprimirmnsjMultiplicacion"
      /\ c \in 2..WordSize - 2 /\ resultado \in Nat \ {0}
      /\ Restante = n /\ Restante' = resultado
  BY FactorNuevo
<1>2. c \in Words /\ c \in Nat \ {0} /\ c >= 2 /\ resultado \in Int
  BY <1>1, WordSizeAssumption DEF Words
<1>3. Mostrados' = Append(Mostrados, c)
  BY <1>1, <1>2, FactorNuevo, MostradosCrecen, Zenon
<1>4. n % c = 0 /\ n \div c = resultado
  BY <1>2, CocienteDeMultiplo, Zenon
<1>5. n \in Nat /\ c <= n
  <2>1. \A a, b \in Nat \ {0} : a * b \in Nat /\ b <= a * b
    OBVIOUS
  <2> QED
    BY <1>1, <1>2, <2>1
<1>6. \A d \in 2..c - 1 : n % d # 0
  BY <1>1 DEF IInv, InvBusqueda
<1>7. Fase = "factoriza" /\ Fase' = "factoriza"
  BY <1>1 DEF Fase
<1> HIDE DEF n
<1>8. Abstracto!EsMenorDivisor(c, Restante) /\ c \in 2..Restante
  BY <1>1, <1>2, <1>4, <1>5, <1>6 DEF Abstracto!EsMenorDivisor
<1>9. Restante' = Restante \div c
  BY <1>1, <1>4
<1> QED
  BY <1>3, <1>7, <1>8, <1>9 DEF Abstracto!Separar, Mostrados

LEMMA Bucle1Refina ==
  IInv /\ Bucle1 => Abstracto!Terminar \/ UNCHANGED Abstracto!vars
<1> SUFFICES ASSUME IInv, Bucle1
             PROVE  Abstracto!Terminar \/ UNCHANGED Abstracto!vars
    OBVIOUS
<1>1. /\ Quedan /\ pc = "bucle_1"
      /\ pc' \in {"bucle_1", "bucle_0"} \/ (pc' = "fin" /\ Restante <= 1)
  BY Bucle1IInv, Zenon
<1>2. CASE pc' \in {"bucle_1", "bucle_0"}
  <2>1. Fase' = Fase
    BY <1>1, <1>2 DEF Fase
  <2> QED
    BY <1>1, <2>1, QuietoRefina
<1>3. CASE pc' = "fin" /\ Restante <= 1
  <2>1. Fase = "factoriza" /\ Fase' = "listo"
    BY <1>1, <1>3 DEF Fase
  <2> QED
    BY <1>1, <1>3, <2>1, MostradosQuedan DEF Abstracto!Terminar, Mostrados
<1> QED
  BY <1>1, <1>2, <1>3

LEMMA NextAbstracto ==
  IInv /\ [Next]_vars => [Abstracto!Next]_Abstracto!vars
<1> SUFFICES ASSUME IInv, [Next]_vars PROVE [Abstracto!Next]_Abstracto!vars
    OBVIOUS
<1>1. CASE Imprimirmnsj0
  <2>1. Quedan
    BY <1>1, Imprimirmnsj0IInv
  <2>2. Fase' = Fase
    BY <1>1 DEF Imprimirmnsj0, Copiar, Fase
  <2> QED
    BY <2>1, <2>2, QuietoRefina
<1>2. CASE ImprimirmnsjIgual
  <2>1. Copiar(21, "mostrarFactoresPrimos")
    BY <1>2, Textos, Zenon DEF ImprimirmnsjIgual
  <2>2. /\ Quedan /\ pc = "imprimirmnsjIgual"
        /\ pc' \in {"imprimirmnsjIgual", "mostrarFactoresPrimos"}
    BY <1>2, <2>1, TextoIInv DEF ImprimirmnsjIgual
  <2>3. Fase' = Fase
    BY <2>2 DEF Fase
  <2> QED
    BY <2>2, <2>3, QuietoRefina
<1>3. CASE ImprimirmnsjMultiplicacion
  <2>1. Copiar(25, "siguienteFactor")
    BY <1>3, Textos, Zenon DEF ImprimirmnsjMultiplicacion
  <2>2. /\ Quedan /\ pc = "imprimirmnsjMultiplicacion"
        /\ pc' \in {"imprimirmnsjMultiplicacion", "siguienteFactor"}
    BY <1>3, <2>1, TextoIInv DEF ImprimirmnsjMultiplicacion
  <2>3. Fase' = Fase
    BY <2>2 DEF Fase
  <2> QED
    BY <2>2, <2>3, QuietoRefina
<1>4. CASE MostrarFactoresPrimos
  BY <1>4, MostrarFactoresPrimosIInv, QuietoRefina DEF MostrarFactoresPrimos, Fase
<1>5. CASE Bucle0
  <2>1. Quedan /\ Fase' = Fase
    BY <1>5, Bucle0IInv DEF Fase
  <2> QED
    BY <2>1, QuietoRefina
<1>6. CASE SiguienteFactor
  BY <1>6, SiguienteFactorIInv, QuietoRefina DEF SiguienteFactor, Fase
<1>7. CASE UNCHANGED vars
  <2>1. Factores' = Factores /\ Restante' = Restante /\ Fase' = Fase
    BY <1>7 DEF vars, Factores, Restante, Fase
  <2>2. Quedan
    BY <1>7, <2>1 DEF vars, Quedan
  <2> QED
    BY <2>1, <2>2, QuietoRefina
<1> QED
  BY <1>1, <1>2, <1>3, <1>4, <1>5, <1>6, <1>7, LeerNumeroRefina,
     TerminaSaberSiPrimoRefina, Bucle1Refina
     DEF Next, Acabado, Abstracto!Next

\* The program takes the number apart, the least prime divisor first, and
\* loses nothing of it while its variable holds something else.
THEOREM ImplementaAbstractoTheorem == Spec => ImplementaAbstracto
  BY InitAbstracto, NextAbstracto, Inductivo, PTL
  DEF Spec, ImplementaAbstracto, Abstracto!Spec

-----------------------------------------------------------------------------
(* The bound on the steps *)

\* A copying loop copies its last dword at the last byte of the padding.
LEMMA CopiarPasos ==
  ASSUME CadenaTipo, NEW m \in Textual, NEW destino, Copiado(m), Copiar(m, destino)
  PROVE  /\ ebx \in 0..28 - m /\ ebx' = ebx + 1
         /\ pc' = destino \/ (UNCHANGED pc /\ ebx' \in 0..28 - m)
<1>1. ebx \in 0..28 - m /\ ebx' = ebx + 1
  BY DEF Copiar, Copiado
<1>2. CASE pc' = destino
  BY <1>1, <1>2
<1>3. CASE UNCHANGED <<pc, salida>> /\ Copiado(m)'
  BY <1>1, <1>3 DEF Copiado
<1> QED
  BY <1>2, <1>3, CopiarHechos, Zenon

LEMMA Imprimirmnsj0Pasos ==
  IInv /\ Imprimirmnsj0 => PasosQueFaltan' < PasosQueFaltan
<1> SUFFICES ASSUME IInv, Imprimirmnsj0 PROVE PasosQueFaltan' < PasosQueFaltan
    OBVIOUS
<1>1. /\ pc = "imprimirmnsj0" /\ Copiar(0, "leerNumero") /\ Copiado(0)
      /\ CadenaTipo /\ 0 \in Textual
  BY DEF IInv, InvTextos, Imprimirmnsj0, TypeOK, CadenaTipo, Textual
<1>2. /\ ebx \in 0..28 /\ ebx' = ebx + 1
      /\ pc' = "leerNumero" \/ (pc' = "imprimirmnsj0" /\ ebx' \in 0..28)
  BY <1>1, CopiarPasos
<1>3. Restante' = Restante /\ Restante \in Nat /\ WordSize \in Nat
  BY Imprimirmnsj0IInv, Tipos DEF Quedan, IInv
<1>4. PasosDeEtiqueta = 10 * WordSize + 31 - ebx
  BY <1>1 DEF PasosDeEtiqueta
<1>5. CASE pc' = "leerNumero"
  <2>1. PasosDeEtiqueta' = 10 * WordSize + 2
    BY <1>5 DEF PasosDeEtiqueta
  <2> QED
    BY <1>2, <1>3, <1>4, <2>1 DEF PasosQueFaltan
<1>6. CASE pc' = "imprimirmnsj0"
  <2>1. PasosDeEtiqueta' = 10 * WordSize + 31 - (ebx + 1)
    BY <1>2, <1>6 DEF PasosDeEtiqueta
  <2> QED
    BY <1>2, <1>3, <1>4, <2>1 DEF PasosQueFaltan
<1> QED
  BY <1>2, <1>5, <1>6

LEMMA LeerNumeroPasos ==
  IInv /\ LeerNumero => PasosQueFaltan' < PasosQueFaltan
<1> SUFFICES ASSUME IInv, LeerNumero PROVE PasosQueFaltan' < PasosQueFaltan
    OBVIOUS
<1>1. pc = "leerNumero" /\ pc' = "imprimirmnsjIgual" /\ ebx' = 0
  BY DEF LeerNumero
<1>2. Restante = 0 /\ Restante' \in Words
  BY <1>1, LeerNumeroIInv DEF IInv, InvFactores, Restante
<1>3. WordSize \in Nat /\ Restante' \in Nat /\ Restante' <= WordSize - 1
  BY <1>2, WordSizeAssumption DEF Words
<1>4. PasosDeEtiqueta = 10 * WordSize + 2 /\ PasosDeEtiqueta' = 11
  BY <1>1 DEF PasosDeEtiqueta
<1>5. PasosQueFaltan = 10 * WordSize + 2
  BY <1>2, <1>3, <1>4 DEF PasosQueFaltan
<1>6. PasosQueFaltan' = 10 * Restante' + 11
  BY <1>4 DEF PasosQueFaltan
<1>7. \A n, w \in Nat : n <= w - 1 => 10 * n + 11 < 10 * w + 2
  OBVIOUS
<1> QED
  BY <1>3, <1>5, <1>6, <1>7

\* The text of the equals sign and that of the multiplication sign.
LEMMA TextoPasos ==
  ASSUME IInv,
         NEW m \in {21, 25}, NEW origen, NEW destino,
         \/ /\ m = 21 /\ origen = "imprimirmnsjIgual"
            /\ destino = "mostrarFactoresPrimos"
         \/ /\ m = 25 /\ origen = "imprimirmnsjMultiplicacion"
            /\ destino = "siguienteFactor",
         pc = origen, Copiar(m, destino), Restante' = Restante
  PROVE  PasosQueFaltan' < PasosQueFaltan
<1>1. m \in Textual /\ Copiado(m) /\ CadenaTipo
  BY DEF IInv, InvTextos, TypeOK, CadenaTipo, Textual
<1>2. /\ ebx \in 0..28 - m /\ ebx' = ebx + 1
      /\ pc' = destino \/ (pc' = origen /\ ebx' \in 0..28 - m)
  BY <1>1, CopiarPasos
<1>3. Restante \in Nat
  BY Tipos DEF IInv
<1>4. CASE m = 21
  <2>1. PasosDeEtiqueta = 11 - ebx
    BY <1>4 DEF PasosDeEtiqueta
  <2>2. PasosDeEtiqueta' = IF pc' = destino THEN 2 ELSE 11 - ebx'
    BY <1>2, <1>4 DEF PasosDeEtiqueta
  <2> QED
    BY <1>2, <1>3, <1>4, <2>1, <2>2 DEF PasosQueFaltan
<1>5. CASE m = 25
  <2>1. PasosDeEtiqueta = 7 - ebx
    BY <1>5 DEF PasosDeEtiqueta
  <2>2. PasosDeEtiqueta' = IF pc' = destino THEN 3 ELSE 7 - ebx'
    BY <1>2, <1>5 DEF PasosDeEtiqueta
  <2> QED
    BY <1>2, <1>3, <1>5, <2>1, <2>2 DEF PasosQueFaltan
<1> QED
  BY <1>4, <1>5

LEMMA MostrarFactoresPrimosPasos ==
  IInv /\ MostrarFactoresPrimos => PasosQueFaltan' < PasosQueFaltan
<1> SUFFICES ASSUME IInv, MostrarFactoresPrimos
             PROVE  PasosQueFaltan' < PasosQueFaltan
    OBVIOUS
<1>1. pc = "mostrarFactoresPrimos" /\ pc' = "bucle_1" /\ contador' = 2
  BY DEF MostrarFactoresPrimos, PrimerDivisor
<1>2. Restante' = Restante /\ Restante \in Nat
  BY MostrarFactoresPrimosIInv, Tipos DEF Quedan, IInv
<1>3. PasosDeEtiqueta = 2 /\ PasosDeEtiqueta' = 1
  BY <1>1 DEF PasosDeEtiqueta
<1> QED
  BY <1>2, <1>3 DEF PasosQueFaltan

\* While the search goes on its counter does not pass what is left.
LEMMA Bucle1Pasos ==
  IInv /\ Bucle1 => PasosQueFaltan' < PasosQueFaltan
<1> SUFFICES ASSUME IInv, Bucle1 PROVE PasosQueFaltan' < PasosQueFaltan
    OBVIOUS
<1> DEFINE n == numeroPorAnalizar
           c == contador
<1>1. /\ pc = "bucle_1" /\ n \in Nat /\ c \in Nat /\ c >= 2
      /\ n < WordSize /\ c < WordSize /\ WordSize \in Nat
  BY Tipos DEF Bucle1, IInv, InvBusqueda
<1>2. Restante' = Restante /\ Restante \in Nat
  BY Bucle1IInv, Tipos DEF Quedan, IInv
<1>3. CASE BusquedaAgotada
  <2>1. pc' = "fin"
    BY <1>3 DEF Bucle1
  <2>2. PasosDeEtiqueta = 1 /\ PasosDeEtiqueta' = 0
    BY <1>1, <1>3, <2>1 DEF PasosDeEtiqueta
  <2> QED
    BY <1>2, <2>2 DEF PasosQueFaltan
<1>4. CASE ~BusquedaAgotada
  <2>1. c <= n /\ PasosDeEtiqueta = 3 - c
    BY <1>1, <1>4 DEF BusquedaAgotada, PasosDeEtiqueta
  <2>2. CASE n % c = 0
    <3>1. pc' = "bucle_0" /\ contadorLocal' = 1 /\ contador' = c
      BY <1>1, <1>4, <2>2 DEF Bucle1
    <3>2. PasosDeEtiqueta' = 2 - c
      BY <1>1, <3>1 DEF PasosDeEtiqueta
    <3> QED
      BY <1>1, <1>2, <2>1, <3>2 DEF PasosQueFaltan
  <2>3. CASE n % c # 0
    <3>1. /\ pc' = "bucle_1" /\ n' = n /\ contador' = ToWord(c + 1)
      BY <1>1, <1>4, <2>3 DEF Bucle1, SiguienteContador
    <3>2. c # n
      <4>1. ASSUME c = n PROVE FALSE
        <5>1. n = n * 1 + 0
          BY <1>1
        <5>2. n % n = 0
          BY <1>1, <2>1, <5>1, DivisionUnica
        <5> QED
          BY <2>3, <4>1, <5>2
      <4> QED
        BY <4>1
    <3>3. c + 1 \in Words /\ c + 1 <= n
      BY <1>1, <2>1, <3>2 DEF Words
    <3>4. contador' = c + 1
      BY <3>1, <3>3, ToWordDeWord
    <3>5. PasosDeEtiqueta' = 2 - c
      <4>1. ~(contador' > n')
        BY <1>1, <3>1, <3>3, <3>4
      <4>2. PasosDeEtiqueta' = 3 - contador'
        BY <3>1, <4>1 DEF PasosDeEtiqueta, BusquedaAgotada
      <4> QED
        BY <1>1, <3>4, <4>2
    <3> QED
      BY <1>1, <1>2, <2>1, <3>5 DEF PasosQueFaltan
  <2> QED
    BY <2>2, <2>3
<1> QED
  BY <1>3, <1>4

LEMMA Bucle0Pasos ==
  IInv /\ Bucle0 => PasosQueFaltan' < PasosQueFaltan
<1> SUFFICES ASSUME IInv, Bucle0 PROVE PasosQueFaltan' < PasosQueFaltan
    OBVIOUS
<1> DEFINE c == contador
           l == contadorLocal
<1>1. /\ pc = "bucle_0" /\ pc' = "bucle_0" /\ contador' = c
      /\ c \in 2..WordSize - 2 /\ c \in Nat /\ l \in 1..c
      /\ WordSize \in Nat
      /\ contadorLocal' = ToWord(l + 1)
  BY Tipos, Bucle0IInv DEF Bucle0, IInv, InvBusqueda
<1>2. contadorLocal' = l + 1
  <2>1. l + 1 \in Words
    BY <1>1 DEF Words
  <2> QED
    BY <1>1, <2>1, ToWordDeWord
<1>3. Restante' = Restante /\ Restante \in Nat
  BY Bucle0IInv, Tipos DEF Quedan, IInv
<1>4. PasosDeEtiqueta = 3 - c - l /\ PasosDeEtiqueta' = 3 - c - (l + 1)
  BY <1>1, <1>2 DEF PasosDeEtiqueta
<1> QED
  BY <1>1, <1>3, <1>4 DEF PasosQueFaltan

\* What a quotient saves pays for both searches and for what is printed.
LEMMA AhorroDelCociente ==
  ASSUME NEW q \in Nat \ {0}, NEW c \in Nat, c >= 2
  PROVE  10 * q + 7 < 10 * (q * c) + 3 - c - (c + 1)
<1>1. /\ q * (c - 1) \in Nat /\ q * (c - 1) >= c - 1
      /\ q * c = q * (c - 1) + q
  OBVIOUS
<1> DEFINE a == q * (c - 1)
           b == q * c
<1>2. a \in Nat /\ a >= c - 1 /\ b = a + q
  BY <1>1
<1> HIDE DEF a, b
<1>3. 10 * q + 7 < 10 * b + 3 - c - (c + 1)
  BY <1>2
<1> QED
  BY <1>3 DEF b

LEMMA TerminaSaberSiPrimoPasos ==
  IInv /\ TerminaSaberSiPrimo => PasosQueFaltan' < PasosQueFaltan
<1> SUFFICES ASSUME IInv, TerminaSaberSiPrimo
             PROVE  PasosQueFaltan' < PasosQueFaltan
    OBVIOUS
<1> DEFINE c == contador
           q == resultado
<1>1. /\ pc = "bucle_0" /\ pc' = "imprimirmnsjMultiplicacion" /\ ebx' = 0
      /\ q \in Nat \ {0} /\ Restante = q * c /\ Restante' = q
  BY FactorNuevo
<1>2. c \in Nat /\ c >= 2 /\ contadorLocal = c + 1
  BY <1>1, Tipos DEF IInv, InvBusqueda, TerminaSaberSiPrimo
<1>3. PasosDeEtiqueta = 3 - c - (c + 1) /\ PasosDeEtiqueta' = 7
  BY <1>1, <1>2 DEF PasosDeEtiqueta
<1>4. 10 * q + 7 < 10 * (q * c) + 3 - c - (c + 1)
  BY <1>1, <1>2, AhorroDelCociente
<1>5. PasosQueFaltan' = 10 * q + 7
  BY <1>1, <1>3 DEF PasosQueFaltan
<1>6. PasosQueFaltan = 10 * (q * c) + 3 - c - (c + 1)
  <2> DEFINE r == q * c
  <2>1. r \in Int /\ Restante = r
    BY <1>1, <1>2
  <2> HIDE DEF r
  <2>2. PasosQueFaltan = 10 * r + 3 - c - (c + 1)
    BY <1>2, <1>3, <2>1 DEF PasosQueFaltan
  <2> QED
    BY <2>2 DEF r
<1> QED
  BY <1>4, <1>5, <1>6

LEMMA SiguienteFactorPasos ==
  IInv /\ SiguienteFactor => PasosQueFaltan' < PasosQueFaltan
<1> SUFFICES ASSUME IInv, SiguienteFactor PROVE PasosQueFaltan' < PasosQueFaltan
    OBVIOUS
<1>1. pc = "siguienteFactor" /\ pc' = "mostrarFactoresPrimos"
  BY DEF SiguienteFactor
<1>2. Restante' = Restante /\ Restante \in Nat
  BY SiguienteFactorIInv, Tipos DEF Quedan, IInv
<1>3. PasosDeEtiqueta = 3 /\ PasosDeEtiqueta' = 2
  BY <1>1 DEF PasosDeEtiqueta
<1> QED
  BY <1>2, <1>3 DEF PasosQueFaltan

LEMMA PasosDecrecen ==
  IInv /\ [Next]_vars => [PasosQueFaltan' < PasosQueFaltan]_vars
<1> SUFFICES ASSUME IInv, [Next]_vars
             PROVE  [PasosQueFaltan' < PasosQueFaltan]_vars
    OBVIOUS
<1>1. CASE ImprimirmnsjIgual
  <2>1. Copiar(21, "mostrarFactoresPrimos")
    BY <1>1, Textos, Zenon DEF ImprimirmnsjIgual
  <2>2. Quedan
    BY <1>1, <2>1, TextoIInv DEF ImprimirmnsjIgual
  <2> QED
    BY <1>1, <2>1, <2>2, TextoPasos DEF ImprimirmnsjIgual, Quedan
<1>2. CASE ImprimirmnsjMultiplicacion
  <2>1. Copiar(25, "siguienteFactor")
    BY <1>2, Textos, Zenon DEF ImprimirmnsjMultiplicacion
  <2>2. Quedan
    BY <1>2, <2>1, TextoIInv DEF ImprimirmnsjMultiplicacion
  <2> QED
    BY <1>2, <2>1, <2>2, TextoPasos DEF ImprimirmnsjMultiplicacion, Quedan
<1> QED
  BY <1>1, <1>2, Imprimirmnsj0Pasos, LeerNumeroPasos,
     MostrarFactoresPrimosPasos, Bucle1Pasos, Bucle0Pasos,
     TerminaSaberSiPrimoPasos, SiguienteFactorPasos DEF Next, Acabado

\* In saberSiPrimo what is left is at least its divisor.
LEMMA PasosNoNegativos == IInv => PasosQueFaltan >= 0
<1> SUFFICES ASSUME IInv PROVE PasosQueFaltan >= 0
    OBVIOUS
<1>1. /\ WordSize \in Nat /\ contador \in Nat /\ contadorLocal \in Nat
      /\ numeroPorAnalizar \in Nat /\ resultado \in Nat /\ ebx \in Nat
  BY WordSizeAssumption DEF IInv, TypeOK, Words
<1>2. Restante \in Nat
  <2>1. resultado * contador \in Nat
    BY <1>1
  <2> QED
    BY <1>1, <2>1 DEF Restante
<1>3. CASE pc \in {"imprimirmnsj0", "imprimirmnsjIgual",
                    "imprimirmnsjMultiplicacion"}
  <2>1. ebx \in 0..28 /\ (pc = "imprimirmnsjIgual" => ebx <= 7)
        /\ (pc = "imprimirmnsjMultiplicacion" => ebx <= 3)
    BY <1>3 DEF IInv, InvTextos, Copiado
  <2>2. PasosDeEtiqueta \in Nat
    BY <1>1, <1>3, <2>1 DEF PasosDeEtiqueta
  <2> QED
    BY <1>2, <2>2 DEF PasosQueFaltan
<1>4. CASE pc = "bucle_1"
  <2>1. Restante = numeroPorAnalizar
    BY <1>4 DEF Restante
  <2>2. CASE BusquedaAgotada
    <3>1. PasosDeEtiqueta = 1
      BY <1>4, <2>2 DEF PasosDeEtiqueta
    <3> QED
      BY <1>2, <3>1 DEF PasosQueFaltan
  <2>3. CASE ~BusquedaAgotada
    <3>1. PasosDeEtiqueta = 3 - contador /\ contador <= Restante
      BY <1>1, <1>4, <2>1, <2>3 DEF PasosDeEtiqueta, BusquedaAgotada
    <3> QED
      BY <1>1, <1>2, <3>1 DEF PasosQueFaltan
  <2> QED
    BY <2>2, <2>3
<1>5. CASE pc = "bucle_0"
  <2>1. resultado >= 1 /\ contadorLocal <= contador + 1
    BY <1>1, <1>5 DEF IInv, InvBusqueda
  <2>2. Restante = resultado * contador
    BY <1>5 DEF Restante
  <2>3. contador <= Restante
    BY <1>1, <2>1, <2>2
  <2>4. PasosDeEtiqueta = 3 - contador - contadorLocal
    BY <1>5 DEF PasosDeEtiqueta
  <2> QED
    BY <1>1, <1>2, <2>1, <2>3, <2>4 DEF PasosQueFaltan
<1>6. CASE pc \notin {"imprimirmnsj0", "imprimirmnsjIgual",
                       "imprimirmnsjMultiplicacion", "bucle_1", "bucle_0"}
  <2>1. PasosDeEtiqueta \in Nat
    BY <1>1, <1>6 DEF PasosDeEtiqueta
  <2> QED
    BY <1>2, <2>1 DEF PasosQueFaltan
<1> QED
  BY <1>3, <1>4, <1>5, <1>6

\* No execution takes more steps than what PasosQueFaltan says in its first
\* state, and none more than 10N + 11 once N is read: every step makes it
\* smaller, whatever was typed, and it never is negative.
THEOREM PasosAcotadosTheorem == Spec => PasosAcotados
<1> DEFINE NoNegativo == PasosQueFaltan >= 0
<1>1. IInv => NoNegativo
  BY PasosNoNegativos
<1>2. IInv /\ NoNegativo' /\ [Next]_vars =>
        [PasosQueFaltan' < PasosQueFaltan /\ PasosQueFaltan' >= 0]_vars
  BY PasosDecrecen
<1> HIDE DEF NoNegativo
<1> QED
  BY <1>1, <1>2, Inductivo, PTL DEF Spec, PasosAcotados
=============================================================================
