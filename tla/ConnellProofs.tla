--------------------------- MODULE ConnellProofs ---------------------------
(* Proofs about program 6.  The inductive invariant IInv says how many terms *)
(* the rows so far have, which number is the next to be tried, and that the  *)
(* terms printed are the right ones.                                         *)
EXTENDS Connell, DwordProofs

\* Term by term, what is printed is the sequence, whatever the row.
TerminosCorrectos ==
  \A i \in 1..Len(salida) : \A r \in Nat \ {0} :
    EnFila(i, r) => salida[i] = Signed(ToWord(2 * i - r))

\* The next term of row contadorSecuencias, as a dword.
Siguiente == ToWord(2 * contadorImpresos - contadorSecuencias + 2)

\* Before row contadorSecuencias: all those before it are complete.
EnCabeza ==
  /\ contadorTerminos = FilaAnterior
  /\ 2 * contadorImpresos = contadorSecuencias * (contadorSecuencias - 1)
  /\ contadorSecuencias = 0 => ultimoNumero = 1
  /\ contadorSecuencias > 0 => ultimoNumero = Siguiente

\* In the row, contadorTerminos of its terms are printed; the number to be
\* tried is the next term or, right after a term, the number before it.
EnMedio ==
  /\ contadorSecuencias <= cantidadTerminos
  /\ 2 * contadorImpresos =
       contadorSecuencias * (contadorSecuencias - 1) + 2 * contadorTerminos
  /\ contadorSecuencias = 0 => ultimoNumero = 1
  /\ contadorSecuencias > 0 /\ contadorTerminos = 0 => ultimoNumero = Siguiente
  /\ contadorTerminos > 0 =>
       \/ ultimoNumero = ToWord(2 * contadorImpresos - contadorSecuencias + 1)
       \/ contadorTerminos < contadorSecuencias /\ ultimoNumero = Siguiente

InvTerminos ==
  /\ Len(salida) = contadorImpresos
  /\ TerminosCorrectos
  /\ pc = "leerNumero" =>
       /\ contadorSecuencias = 0 /\ contadorImpresos = 0
       /\ cantidadTerminos = 0
  /\ pc \in {"leerNumero", "secuenciaConnell"} => EnCabeza
  /\ pc = "buscarTerminoAdecuado" => EnMedio
  /\ pc # "fin" => cantidadTerminos = 0 \/ contadorImpresos < cantidadTerminos
  /\ pc = "fin" => contadorImpresos = cantidadTerminos

IInv == TypeOK /\ InvTerminos

-----------------------------------------------------------------------------

\* A product of naturals is no smaller than its factors.
LEMMA ProductoMonotono ==
  ASSUME NEW a \in Nat, NEW b \in Nat, NEW c \in Nat, NEW d \in Nat,
         a <= c, b <= d
  PROVE  a * b <= c * d
<1>1. a * b <= c * b
  <2>1. (c - a) * b >= 0
    OBVIOUS
  <2> QED
    BY <2>1
<1>2. c * b <= c * d
  <2>1. c * (d - b) >= 0
    OBVIOUS
  <2> QED
    BY <2>1
<1>3. a * b \in Int /\ c * b \in Int /\ c * d \in Int
  OBVIOUS
<1> QED
  BY <1>1, <1>2, <1>3

\* A term is in one row only.
LEMMA FilaUnica ==
  ASSUME NEW i \in Nat, NEW r \in Nat \ {0}, NEW s \in Nat \ {0},
         EnFila(i, r), EnFila(i, s)
  PROVE  r = s
<1>1. \A a, b \in Nat \ {0} : EnFila(i, a) /\ EnFila(i, b) => ~(a < b)
  <2> SUFFICES ASSUME NEW a \in Nat \ {0}, NEW b \in Nat \ {0},
                      EnFila(i, a), EnFila(i, b), a < b
               PROVE  FALSE
      OBVIOUS
  <2>1. a <= b - 1 /\ a + 1 <= b /\ b - 1 \in Nat /\ a + 1 \in Nat
    OBVIOUS
  <2>2. a * (a + 1) <= (b - 1) * b
    BY <2>1, ProductoMonotono
  <2>3. (b - 1) * b = b * (b - 1)
    OBVIOUS
  <2>4. 2 * i <= a * (a + 1) /\ b * (b - 1) < 2 * i
    BY DEF EnFila
  <2> QED
    BY <2>2, <2>3, <2>4
<1> QED
  BY <1>1

LEMMA Tipos ==
  ASSUME TypeOK
  PROVE  /\ cantidadTerminos \in Nat /\ cantidadTerminos < WordSize
         /\ contadorSecuencias \in Nat /\ contadorSecuencias < WordSize
         /\ contadorTerminos \in Nat /\ contadorTerminos <= contadorSecuencias
         /\ contadorImpresos \in Nat /\ contadorImpresos <= cantidadTerminos
         /\ WordSize \in Nat /\ WordSize >= 4
  BY WordSizeAssumption DEF TypeOK, Words

LEMMA InitIInv == Init => IInv
<1> SUFFICES ASSUME Init PROVE IInv
    OBVIOUS
<1>1. TypeOK
  BY WordSizeAssumption DEF Init, TypeOK, Words
<1>2. InvTerminos
  BY DEF Init, InvTerminos, TerminosCorrectos, EnCabeza, FilaAnterior
<1> QED
  BY <1>1, <1>2 DEF IInv

LEMMA LeerNumeroIInv == IInv /\ LeerNumero => IInv'
<1> SUFFICES ASSUME IInv, LeerNumero PROVE IInv'
    OBVIOUS
<1>0. TypeOK /\ InvTerminos
  BY DEF IInv
<1>1. /\ pc = "leerNumero" /\ pc' = "secuenciaConnell"
      /\ cantidadTerminos' \in Words /\ entrada' \in {"viva", "trabada"}
      /\ UNCHANGED <<contadorSecuencias, contadorTerminos, contadorImpresos,
                     ultimoNumero, salida>>
  BY <1>0 DEF LeerNumero, Scanf, Lectura, TypeOK
<1>2. EnCabeza /\ contadorImpresos = 0
  BY <1>0, <1>1 DEF InvTerminos
<1>3. cantidadTerminos' \in Nat
  BY <1>1, WordSizeAssumption DEF Words
<1>4. TypeOK'
  BY <1>0, <1>1, <1>2, <1>3 DEF TypeOK
<1>5. InvTerminos'
  BY <1>0, <1>1, <1>2, <1>3
     DEF InvTerminos, TerminosCorrectos, EnCabeza, FilaAnterior, Siguiente
<1> QED
  BY <1>4, <1>5 DEF IInv

\* The test at the head of the rows ends the program only when no term at all
\* was asked for.
LEMMA AgotadasSoloConCero ==
  ASSUME TypeOK, InvTerminos, pc = "secuenciaConnell", SecuenciasAgotadas
  PROVE  /\ cantidadTerminos = 0 /\ contadorImpresos = 0
         /\ contadorSecuencias = 1 /\ contadorTerminos = 0
<1> DEFINE s == contadorSecuencias
<1>1. /\ EnCabeza /\ s \in Nat /\ cantidadTerminos \in Nat
      /\ contadorImpresos \in Nat /\ contadorImpresos <= cantidadTerminos
      /\ s > cantidadTerminos
      /\ cantidadTerminos = 0 \/ contadorImpresos < cantidadTerminos
      /\ 2 * contadorImpresos = s * (s - 1)
  BY Tipos DEF InvTerminos, SecuenciasAgotadas, EnCabeza
<1>2. ASSUME s >= 2 PROVE contadorImpresos >= s - 1 /\ contadorImpresos > 0
  <2>1. 2 * (s - 1) <= s * (s - 1)
    BY <1>1, <1>2, ProductoMonotono
  <2> QED
    BY <1>1, <1>2, <2>1
<1>3. s = 1
  BY <1>1, <1>2
<1> QED
  BY <1>1, <1>3 DEF EnCabeza, FilaAnterior

LEMMA SecuenciaConnellIInv == IInv /\ SecuenciaConnell => IInv'
<1> SUFFICES ASSUME IInv, SecuenciaConnell PROVE IInv'
    OBVIOUS
<1>0. TypeOK /\ InvTerminos
  BY DEF IInv
<1>1. /\ pc = "secuenciaConnell" /\ EnCabeza
      /\ UNCHANGED <<cantidadTerminos, contadorSecuencias, contadorImpresos,
                     ultimoNumero, entrada, salida>>
  BY <1>0 DEF SecuenciaConnell, InvTerminos
<1>2. CASE SecuenciasAgotadas
  <2>1. pc' = "fin" /\ UNCHANGED contadorTerminos
    BY <1>2 DEF SecuenciaConnell
  <2>2. contadorImpresos = cantidadTerminos
    BY <1>0, <1>1, <1>2, AgotadasSoloConCero
  <2>3. TypeOK'
    BY <1>0, <1>1, <2>1 DEF TypeOK
  <2>4. InvTerminos'
    BY <1>0, <1>1, <2>1, <2>2 DEF InvTerminos, TerminosCorrectos
  <2> QED
    BY <2>3, <2>4 DEF IInv
<1>3. CASE ~SecuenciasAgotadas
  <2>1. pc' = "buscarTerminoAdecuado" /\ contadorTerminos' = 0
    BY <1>3 DEF SecuenciaConnell
  <2>2. contadorSecuencias <= cantidadTerminos
    BY <1>0, <1>3, Tipos DEF SecuenciasAgotadas
  <2>3. TypeOK'
    BY <1>0, <1>1, <2>1, Tipos DEF TypeOK
  <2>4. EnMedio'
    <3>1. contadorSecuencias * (contadorSecuencias - 1) \in Int
      BY <1>0, Tipos
    <3> QED
      BY <1>0, <1>1, <2>1, <2>2, <3>1, Tipos DEF EnCabeza, EnMedio, Siguiente
  <2>5. InvTerminos'
    BY <1>0, <1>1, <2>1, <2>4 DEF InvTerminos, TerminosCorrectos
  <2> QED
    BY <2>3, <2>5 DEF IInv
<1> QED
  BY <1>2, <1>3

\* The index of a complete row is less than N.
LEMMA FilaCompletaHechos ==
  ASSUME TypeOK, InvTerminos, pc = "buscarTerminoAdecuado", FilaCompleta
  PROVE  /\ contadorSecuencias + 1 < WordSize
         /\ ToWord(contadorSecuencias + 1) = contadorSecuencias + 1
<1> DEFINE s == contadorSecuencias
<1>1. /\ s \in Nat /\ cantidadTerminos \in Nat /\ cantidadTerminos < WordSize
      /\ contadorImpresos \in Nat /\ WordSize \in Nat /\ WordSize >= 4
      /\ contadorTerminos = s /\ s <= cantidadTerminos
      /\ cantidadTerminos = 0 \/ contadorImpresos < cantidadTerminos
      /\ 2 * contadorImpresos = s * (s - 1) + 2 * s
  BY Tipos DEF InvTerminos, EnMedio, FilaCompleta
<1>2. contadorImpresos >= s
  <2>1. s * (s - 1) >= 0
    BY <1>1
  <2> QED
    BY <1>1, <2>1
<1>3. s + 1 \in Words /\ s + 1 < WordSize
  BY <1>1, <1>2 DEF Words
<1> QED
  BY <1>3, ToWordDeWord

LEMMA TerminarFilaIInv == IInv /\ TerminarBuscarTerminoAdecuado => IInv'
<1> SUFFICES ASSUME IInv, TerminarBuscarTerminoAdecuado PROVE IInv'
    OBVIOUS
<1>0. TypeOK /\ InvTerminos
  BY DEF IInv
<1>1. /\ pc = "buscarTerminoAdecuado" /\ pc' = "secuenciaConnell"
      /\ FilaCompleta /\ EnMedio /\ contadorTerminos = contadorSecuencias
      /\ contadorSecuencias' = ToWord(contadorSecuencias + 1)
      /\ UNCHANGED <<cantidadTerminos, contadorTerminos, contadorImpresos,
                     ultimoNumero, entrada, salida>>
  BY <1>0 DEF TerminarBuscarTerminoAdecuado, InvTerminos, FilaCompleta
<1>2. contadorSecuencias' = contadorSecuencias + 1
  BY <1>0, <1>1, FilaCompletaHechos
<1>3. contadorSecuencias + 1 < WordSize
  BY <1>0, <1>1, FilaCompletaHechos
<1>4. TypeOK'
  BY <1>0, <1>1, <1>2, <1>3, Tipos DEF TypeOK, Words
<1>5. EnCabeza'
  <2> DEFINE s == contadorSecuencias
  <2>1. s \in Nat /\ contadorImpresos \in Nat /\ WordSize \in Nat /\ WordSize >= 4
    BY <1>0, Tipos
  <2>2. /\ 2 * contadorImpresos = s * (s - 1) + 2 * s
        /\ s = 0 => ultimoNumero = 1
        /\ s > 0 => ultimoNumero = ToWord(2 * contadorImpresos - s + 1)
    BY <1>1, <2>1 DEF EnMedio
  <2>3. 2 * contadorImpresos = (s + 1) * (s + 1 - 1)
    BY <2>1, <2>2
  <2>4. ultimoNumero = ToWord(2 * contadorImpresos - (s + 1) + 2)
    <3>1. CASE s = 0
      <4>1. 2 * contadorImpresos - (s + 1) + 2 = 1 /\ 1 \in Words
        BY <2>1, <2>2, <3>1 DEF Words
      <4> QED
        BY <2>2, <3>1, <4>1, ToWordDeWord
    <3>2. CASE s > 0
      <4>1. 2 * contadorImpresos - (s + 1) + 2 = 2 * contadorImpresos - s + 1
        BY <2>1
      <4> QED
        BY <2>2, <3>2, <4>1
    <3> QED
      BY <2>1, <3>1, <3>2
  <2> QED
    BY <1>1, <1>2, <2>1, <2>3, <2>4 DEF EnCabeza, FilaAnterior, Siguiente
<1>6. InvTerminos'
  BY <1>0, <1>1, <1>5 DEF InvTerminos, TerminosCorrectos
<1> QED
  BY <1>4, <1>6 DEF IInv

\* What is known of a row that is not complete: the number to be tried is the
\* next term exactly when its parity is that of the row.
LEMMA FilaIncompletaHechos ==
  ASSUME TypeOK, InvTerminos, pc = "buscarTerminoAdecuado", ~FilaCompleta
  PROVE  /\ EnMedio
         /\ contadorSecuencias \in Nat \ {0}
         /\ contadorTerminos \in Nat /\ contadorTerminos < contadorSecuencias
         /\ contadorSecuencias < WordSize
         /\ contadorImpresos \in Nat /\ contadorImpresos < cantidadTerminos
         /\ cantidadTerminos \in Nat /\ cantidadTerminos < WordSize
         /\ MismaParidad => ultimoNumero = Siguiente
         /\ ~MismaParidad =>
              /\ contadorTerminos > 0
              /\ ultimoNumero =
                   ToWord(2 * contadorImpresos - contadorSecuencias + 1)
<1> DEFINE s == contadorSecuencias
           k == contadorImpresos
<1>1. /\ EnMedio /\ s \in Nat \ {0} /\ s < WordSize
      /\ contadorTerminos \in Nat /\ contadorTerminos < s
      /\ cantidadTerminos \in Nat /\ cantidadTerminos < WordSize
      /\ k \in Nat /\ k < cantidadTerminos
  BY Tipos DEF InvTerminos, EnMedio, FilaCompleta
<1>2. \/ ultimoNumero = ToWord(2 * k - s + 2)
      \/ contadorTerminos > 0 /\ ultimoNumero = ToWord(2 * k - s + 1)
  BY <1>1 DEF EnMedio, Siguiente
<1>3. ASSUME ultimoNumero = ToWord(2 * k - s + 2) PROVE MismaParidad
  <2>1. 2 * k - s + 2 \in Int /\ (2 * k - s + 2) % 2 = s % 2
    BY <1>1
  <2> QED
    BY <1>3, <2>1, ParidadDeToWord DEF MismaParidad
<1>4. ASSUME ultimoNumero = ToWord(2 * k - s + 1) PROVE ~MismaParidad
  <2>1. 2 * k - s + 1 \in Int /\ (2 * k - s + 1) % 2 # s % 2
    BY <1>1
  <2> QED
    BY <1>4, <2>1, ParidadDeToWord DEF MismaParidad
<1> QED
  BY <1>1, <1>2, <1>3, <1>4 DEF Siguiente

LEMMA ImprimirIInv == IInv /\ Imprimir => IInv'
<1> SUFFICES ASSUME IInv, Imprimir PROVE IInv'
    OBVIOUS
<1> DEFINE s == contadorSecuencias
           t == contadorTerminos
           k == contadorImpresos
<1>0. TypeOK /\ InvTerminos
  BY DEF IInv
<1>1. /\ pc = "buscarTerminoAdecuado" /\ ~FilaCompleta /\ MismaParidad
      /\ salida' = Append(salida, Signed(ultimoNumero))
      /\ contadorTerminos' = ToWord(t + 1) /\ contadorImpresos' = ToWord(k + 1)
      /\ UNCHANGED <<cantidadTerminos, contadorSecuencias, entrada>>
  BY DEF Imprimir
<1>2. /\ EnMedio /\ s \in Nat \ {0} /\ s < WordSize
      /\ t \in Nat /\ t < s
      /\ k \in Nat /\ k < cantidadTerminos
      /\ cantidadTerminos \in Nat /\ cantidadTerminos < WordSize
      /\ ultimoNumero = ToWord(2 * k - s + 2)
      /\ 2 * k = s * (s - 1) + 2 * t
  BY <1>0, <1>1, FilaIncompletaHechos DEF Siguiente, EnMedio
<1>3. contadorTerminos' = t + 1 /\ contadorImpresos' = k + 1
  <2>1. t + 1 \in Words /\ k + 1 \in Words
    BY <1>2, Tipos, <1>0 DEF Words
  <2> QED
    BY <1>1, <2>1, ToWordDeWord
<1>4. ultimoNumero \in Words /\ Signed(ultimoNumero) \in -(WordSize \div 2)..WordSize \div 2 - 1
  BY <1>0, SignedTipo DEF TypeOK
<1>5. /\ salida \in Seq(-(WordSize \div 2)..WordSize \div 2 - 1)
      /\ salida' \in Seq(-(WordSize \div 2)..WordSize \div 2 - 1)
      /\ Len(salida) = k /\ Len(salida') = k + 1
      /\ salida'[k + 1] = Signed(ultimoNumero)
      /\ \A i \in 1..k : salida'[i] = salida[i]
  BY <1>0, <1>1, <1>4 DEF TypeOK, InvTerminos
<1>6. TerminosCorrectos'
  <2> SUFFICES ASSUME NEW i \in 1..k + 1, NEW r \in Nat \ {0}, EnFila(i, r)
               PROVE  salida'[i] = Signed(ToWord(2 * i - r))
    BY <1>5 DEF TerminosCorrectos
  <2>1. CASE i \in 1..k
    BY <1>0, <1>5, <2>1 DEF InvTerminos, TerminosCorrectos
  <2>2. CASE i = k + 1
    <3>1. EnFila(i, s)
      <4>1. s * (s - 1) + 2 * s = s * (s + 1) /\ s * (s - 1) \in Int
        BY <1>2
      <4>2. 2 * i = s * (s - 1) + 2 * t + 2
        BY <1>2, <2>2
      <4> HIDE DEF s, t
      <4> DEFINE a == s * (s - 1)
                 b == s * (s + 1)
      <4>3. a \in Int /\ a + 2 * s = b /\ 2 * i = a + 2 * t + 2
        BY <4>1, <4>2
      <4> HIDE DEF a, b
      <4>4. a < 2 * i /\ 2 * i <= b
        BY <1>2, <4>3
      <4> QED
        BY <4>4 DEF EnFila, a, b
    <3>2. r = s
      BY <1>2, <2>2, <3>1, FilaUnica
    <3>3. 2 * i - r = 2 * k - s + 2
      BY <1>2, <2>2, <3>2
    <3> QED
      BY <1>2, <1>5, <2>2, <3>3
  <2> QED
    BY <1>2, <2>1, <2>2
<1>7. ASSUME contadorImpresos' = cantidadTerminos, pc' = "fin",
             UNCHANGED ultimoNumero
      PROVE  IInv'
  <2>1. TypeOK'
    BY <1>0, <1>1, <1>2, <1>3, <1>5, <1>7 DEF TypeOK
  <2>2. InvTerminos'
    BY <1>1, <1>3, <1>5, <1>6, <1>7 DEF InvTerminos
  <2> QED
    BY <2>1, <2>2 DEF IInv
<1>8. ASSUME contadorImpresos' # cantidadTerminos,
             ultimoNumero' = SiguienteNumero, UNCHANGED pc
      PROVE  IInv'
  <2>1. ultimoNumero' = ToWord(2 * (k + 1) - s + 1)
    <3>1. /\ 2 * k - s + 2 \in Int
          /\ 2 * k - s + 2 + 1 = 2 * (k + 1) - s + 1
      BY <1>2
    <3>2. ToWord(ToWord(2 * k - s + 2) + 1) = ToWord(2 * k - s + 2 + 1)
      BY <3>1, ToWordSuma
    <3> QED
      BY <1>2, <1>8, <3>1, <3>2 DEF SiguienteNumero
  <2>2. ultimoNumero' \in Words
    <3>1. 2 * (k + 1) - s + 1 \in Int
      BY <1>2
    <3> QED
      BY <2>1, <3>1, ToWordTipo
  <2>3. TypeOK'
    BY <1>0, <1>1, <1>2, <1>3, <1>5, <1>8, <2>2 DEF TypeOK
  <2>4. EnMedio'
    <3>1. 2 * (k + 1) = s * (s - 1) + 2 * (t + 1)
      BY <1>2
    <3>2. /\ contadorTerminos' > 0 /\ contadorTerminos' # 0
          /\ contadorSecuencias' # 0
          /\ contadorSecuencias' <= cantidadTerminos'
      BY <1>1, <1>2, <1>3 DEF EnMedio
    <3>3. ultimoNumero' =
            ToWord(2 * contadorImpresos' - contadorSecuencias' + 1)
      BY <1>1, <1>3, <2>1
    <3>4. 2 * contadorImpresos' = contadorSecuencias' * (contadorSecuencias' - 1)
                                    + 2 * contadorTerminos'
      BY <1>1, <1>3, <3>1
    <3> QED
      BY <3>2, <3>3, <3>4 DEF EnMedio
  <2>5. contadorImpresos' < cantidadTerminos'
    BY <1>1, <1>2, <1>3, <1>8
  <2>6. InvTerminos'
    BY <1>1, <1>3, <1>5, <1>6, <1>8, <2>4, <2>5 DEF InvTerminos
  <2> QED
    BY <2>3, <2>6 DEF IInv
<1> QED
  BY <1>7, <1>8 DEF Imprimir

LEMMA NoImprimirIInv == IInv /\ NoImprimir => IInv'
<1> SUFFICES ASSUME IInv, NoImprimir PROVE IInv'
    OBVIOUS
<1> DEFINE s == contadorSecuencias
           k == contadorImpresos
<1>0. TypeOK /\ InvTerminos
  BY DEF IInv
<1>1. /\ pc = "buscarTerminoAdecuado" /\ ~FilaCompleta /\ ~MismaParidad
      /\ ultimoNumero' = SiguienteNumero
      /\ UNCHANGED <<pc, cantidadTerminos, contadorSecuencias,
                     contadorTerminos, contadorImpresos, entrada, salida>>
  BY DEF NoImprimir
<1>2. /\ EnMedio /\ s \in Nat \ {0} /\ k \in Nat
      /\ contadorTerminos \in Nat /\ contadorTerminos < s
      /\ contadorTerminos > 0
      /\ ultimoNumero = ToWord(2 * k - s + 1)
  BY <1>0, <1>1, FilaIncompletaHechos
<1>3. 2 * k - s + 1 \in Int /\ 2 * k - s + 1 + 1 = 2 * k - s + 2
  BY <1>2
<1>4. ultimoNumero' = Siguiente'
  <2>1. ToWord(ToWord(2 * k - s + 1) + 1) = ToWord(2 * k - s + 1 + 1)
    BY <1>3, ToWordSuma
  <2> QED
    BY <1>1, <1>2, <1>3, <2>1 DEF SiguienteNumero, Siguiente
<1>5. ultimoNumero' \in Words
  <2>1. 2 * k - s + 2 \in Int
    BY <1>2
  <2> QED
    BY <1>1, <1>4, <2>1, ToWordTipo DEF Siguiente
<1>6. TypeOK'
  BY <1>0, <1>1, <1>5 DEF TypeOK
<1>7. EnMedio'
  BY <1>1, <1>2, <1>4 DEF EnMedio
<1>8. InvTerminos'
  BY <1>0, <1>1, <1>7 DEF InvTerminos, TerminosCorrectos
<1> QED
  BY <1>6, <1>8 DEF IInv

LEMMA QuietoIInv == IInv /\ UNCHANGED vars => IInv'
  BY DEF IInv, TypeOK, InvTerminos, TerminosCorrectos, EnCabeza, EnMedio,
         Siguiente, FilaAnterior, vars

LEMMA NextIInv == IInv /\ [Next]_vars => IInv'
  BY LeerNumeroIInv, SecuenciaConnellIInv, TerminarFilaIInv, ImprimirIInv,
     NoImprimirIInv, QuietoIInv DEF Next, Acabado

\* IInv holds in every reachable state, for every dword that can be typed and
\* every even size of a dword.
THEOREM Inductivo == Spec => []IInv
  BY InitIInv, NextIInv, PTL DEF Spec

\* Type correctness of program 6: never more terms than asked for, and never
\* more in a row than its index.
THEOREM TypeOKTheorem == Spec => []TypeOK
<1>1. IInv => TypeOK
  BY DEF IInv
<1> QED
  BY <1>1, Inductivo, PTL

\* What is printed is the Connell sequence, term by term, and in the end it
\* has exactly N terms.
THEOREM PrefijoConnellTheorem == Spec => []PrefijoConnell
<1>1. ASSUME IInv PROVE PrefijoConnell
  <2>1. Len(salida) \in Nat
    BY <1>1, Tipos DEF IInv, InvTerminos
  <2>2. \A i \in 1..Len(salida) : \A r \in 1..Len(salida) :
          EnFila(i, r) => salida[i] = Signed(ToWord(2 * i - r))
    BY <1>1, <2>1 DEF IInv, InvTerminos, TerminosCorrectos
  <2> QED
    BY <1>1, <2>2 DEF IInv, InvTerminos, PrefijoConnell
<1> QED
  BY <1>1, Inductivo, PTL

-----------------------------------------------------------------------------
(* Refinement of ConnellAbstracto *)

FilaMostrada == IF FilaSinEmpezar THEN FilaAnterior ELSE contadorSecuencias
PuestosMostrados == IF FilaSinEmpezar THEN FilaAnterior ELSE contadorTerminos

\* A signed reduction of a sum forgets earlier signed reductions.
LEMMA SumaConSigno ==
  ASSUME NEW n \in Int, NEW d \in Int
  PROVE  Signed(ToWord(Signed(ToWord(n)) + d)) = Signed(ToWord(n + d))
<1> DEFINE w == ToWord(n)
<1>1. w \in Words /\ w \in Int /\ Signed(w) \in Int
  BY ToWordTipo, SignedTipo, WordSizeAssumption DEF Words
<1>2. ToWord(d + Signed(w)) = ToWord(d + w)
  BY <1>1, ToWordSigned
<1>3. ToWord(w + d) = ToWord(n + d)
  BY ToWordSuma
<1>4. d + Signed(w) = Signed(w) + d /\ d + w = w + d
  BY <1>1
<1> QED
  BY <1>2, <1>3, <1>4

\* The last term shown, from which the abstract rows go on.
LEMMA UltimoMostrado ==
  ASSUME TypeOK, InvTerminos, pc = "buscarTerminoAdecuado", ~FilaCompleta
  PROVE  Abstracto!Ultimo =
           Signed(ToWord(2 * contadorImpresos - FilaMostrada))
<1> DEFINE s == contadorSecuencias
           t == contadorTerminos
           k == contadorImpresos
           f == FilaMostrada
<1>1. /\ s \in Nat \ {0} /\ t \in Nat /\ t < s /\ k \in Nat
      /\ 2 * k = s * (s - 1) + 2 * t
      /\ Len(salida) = k /\ TerminosCorrectos
      /\ salida \in Seq(-(WordSize \div 2)..WordSize \div 2 - 1)
  BY FilaIncompletaHechos DEF EnMedio, InvTerminos, TypeOK
<1>2. f = IF t = 0 THEN s - 1 ELSE s
  BY <1>1 DEF FilaMostrada, FilaSinEmpezar, FilaAnterior
<1>3. CASE k = 0
  <2>1. salida = <<>>
    BY <1>1, <1>3
  <2>2. s = 1 /\ t = 0
    <3>1. s * (s - 1) >= s - 1
      BY <1>1
    <3> QED
      BY <1>1, <1>3, <3>1
  <2>3. 2 * k - f = 0 /\ 0 \in Words /\ 0 < WordSize \div 2
    BY <1>2, <1>3, <2>2, WordSizeAssumption DEF Words
  <2> QED
    BY <2>1, <2>3, ToWordDeWord DEF Abstracto!Ultimo, Signed
<1>4. CASE k > 0
  <2>1. salida # <<>> /\ k \in 1..Len(salida)
    BY <1>1, <1>4
  <2>2. f \in Nat \ {0} /\ EnFila(k, f)
    <3>1. CASE t = 0
      <4>1. s # 1
        BY <1>1, <1>4, <3>1
      <4>2. f = s - 1 /\ s - 1 \in Nat \ {0}
        BY <1>1, <1>2, <3>1, <4>1
      <4>3. 2 * k = (s - 1) * (s - 1 + 1)
        BY <1>1, <3>1
      <4>4. (s - 1) * (s - 1 - 1) < 2 * k
        <5> DEFINE p == s - 1
        <5>1. p \in Nat \ {0} /\ 2 * k = p * (p + 1)
          BY <4>2, <4>3
        <5> HIDE DEF p
        <5>2. p * (p - 1) < 2 * k
          <6>1. p * (p + 1) = p * (p - 1) + 2 * p /\ p * (p - 1) \in Int
            BY <5>1
          <6> QED
            BY <5>1, <6>1
        <5> QED
          BY <5>2 DEF p
      <4> HIDE DEF f
      <4> QED
        BY <4>2, <4>3, <4>4 DEF EnFila
    <3>2. CASE t > 0
      <4>1. f = s
        BY <1>1, <1>2, <3>2
      <4>2. s * (s - 1) + 2 * s = s * (s + 1) /\ s * (s - 1) \in Int
        BY <1>1
      <4> DEFINE a == s * (s - 1)
                 b == s * (s + 1)
      <4>3. a \in Int /\ a + 2 * s = b /\ 2 * k = a + 2 * t
        BY <1>1, <4>2
      <4> HIDE DEF a, b
      <4>4. a < 2 * k /\ 2 * k <= b
        BY <1>1, <3>2, <4>3
      <4> HIDE DEF f
      <4> QED
        BY <1>1, <4>1, <4>4 DEF EnFila, a, b
    <3> QED
      BY <1>1, <3>1, <3>2
  <2>3. salida[k] = Signed(ToWord(2 * k - f))
    BY <1>1, <2>1, <2>2 DEF TerminosCorrectos
  <2> QED
    BY <1>1, <2>1, <2>3 DEF Abstracto!Ultimo
<1> QED
  BY <1>1, <1>3, <1>4

LEMMA InitAbstracto == Init => Abstracto!Init
  BY DEF Init, Abstracto!Init, Fase, FilaSinEmpezar, FilaAnterior

\* Asking for the number of terms.
LEMMA LeerNumeroRefina ==
  IInv /\ LeerNumero => Abstracto!Pedir
<1> SUFFICES ASSUME IInv, LeerNumero PROVE Abstracto!Pedir
    OBVIOUS
<1>1. /\ pc = "leerNumero" /\ pc' = "secuenciaConnell"
      /\ cantidadTerminos' \in Words
      /\ UNCHANGED <<contadorSecuencias, contadorTerminos, salida>>
  BY DEF IInv, TypeOK, LeerNumero, Scanf, Lectura
<1> QED
  BY <1>1 DEF Abstracto!Pedir, Fase, FilaSinEmpezar, FilaAnterior

\* The head of the rows either goes on, of which nothing is seen, or stops
\* because there was nothing to show.
LEMMA SecuenciaConnellRefina ==
  IInv /\ SecuenciaConnell => [Abstracto!NadaQueMostrar]_Abstracto!vars
<1> SUFFICES ASSUME IInv, SecuenciaConnell
             PROVE  [Abstracto!NadaQueMostrar]_Abstracto!vars
    OBVIOUS
<1>1. /\ pc = "secuenciaConnell"
      /\ UNCHANGED <<cantidadTerminos, contadorSecuencias, salida>>
  BY DEF SecuenciaConnell
<1>2. CASE SecuenciasAgotadas
  <2>1. pc' = "fin" /\ UNCHANGED contadorTerminos
    BY <1>2 DEF SecuenciaConnell
  <2>2. cantidadTerminos = 0 /\ contadorTerminos = 0
    BY <1>1, <1>2, AgotadasSoloConCero DEF IInv
  <2> QED
    BY <1>1, <2>1, <2>2
       DEF Abstracto!NadaQueMostrar, Fase, FilaSinEmpezar, FilaAnterior
<1>3. CASE ~SecuenciasAgotadas
  <2>1. pc' = "buscarTerminoAdecuado" /\ contadorTerminos' = 0
    BY <1>3 DEF SecuenciaConnell
  <2> QED
    BY <1>1, <2>1 DEF Abstracto!vars, Fase, FilaSinEmpezar, FilaAnterior
<1> QED
  BY <1>2, <1>3

\* A row that ends changes nothing of what is seen.
LEMMA TerminarFilaRefina ==
  IInv /\ TerminarBuscarTerminoAdecuado => UNCHANGED Abstracto!vars
<1> SUFFICES ASSUME IInv, TerminarBuscarTerminoAdecuado
             PROVE  UNCHANGED Abstracto!vars
    OBVIOUS
<1>1. /\ pc = "buscarTerminoAdecuado" /\ pc' = "secuenciaConnell"
      /\ FilaCompleta /\ contadorTerminos = contadorSecuencias
      /\ contadorSecuencias' = ToWord(contadorSecuencias + 1)
      /\ UNCHANGED <<cantidadTerminos, contadorTerminos, salida>>
  BY DEF TerminarBuscarTerminoAdecuado, FilaCompleta
<1>2. contadorSecuencias' = contadorSecuencias + 1 /\ contadorSecuencias \in Nat
  BY <1>1, FilaCompletaHechos, Tipos DEF IInv
<1>3. (FilaSinEmpezar' /\ FilaAnterior' = contadorSecuencias)
  BY <1>1, <1>2 DEF FilaSinEmpezar, FilaAnterior
<1>4. FilaMostrada' = FilaMostrada /\ PuestosMostrados' = PuestosMostrados
  BY <1>1, <1>3 DEF FilaMostrada, PuestosMostrados, FilaSinEmpezar, FilaAnterior
<1> QED
  BY <1>1, <1>4 DEF Abstracto!vars, Fase, FilaMostrada, PuestosMostrados

\* A term printed is the next of its row, or the first of the next row.
LEMMA ImprimirRefina ==
  IInv /\ Imprimir => Abstracto!Mostrar
<1> SUFFICES ASSUME IInv, Imprimir PROVE Abstracto!Mostrar
    OBVIOUS
<1> DEFINE s == contadorSecuencias
           t == contadorTerminos
           k == contadorImpresos
<1>0. TypeOK /\ InvTerminos
  BY DEF IInv
<1>1. /\ pc = "buscarTerminoAdecuado" /\ ~FilaCompleta /\ MismaParidad
      /\ salida' = Append(salida, Signed(ultimoNumero))
      /\ contadorTerminos' = ToWord(t + 1) /\ contadorImpresos' = ToWord(k + 1)
      /\ UNCHANGED <<cantidadTerminos, contadorSecuencias, entrada>>
      /\ pc' = IF contadorImpresos' = cantidadTerminos THEN "fin" ELSE pc
  BY DEF Imprimir
<1>2. /\ s \in Nat \ {0} /\ s < WordSize
      /\ t \in Nat /\ t < s
      /\ k \in Nat /\ k < cantidadTerminos
      /\ cantidadTerminos \in Nat /\ cantidadTerminos < WordSize
      /\ ultimoNumero = ToWord(2 * k - s + 2)
  BY <1>0, <1>1, FilaIncompletaHechos DEF Siguiente
<1>3. contadorTerminos' = t + 1 /\ contadorImpresos' = k + 1
  <2>1. t + 1 \in Words /\ k + 1 \in Words
    BY <1>2, Tipos, <1>0 DEF Words
  <2> QED
    BY <1>1, <2>1, ToWordDeWord
<1>4. Len(salida) = k /\ Len(salida') = k + 1
  BY <1>0, <1>1, <1>2 DEF TypeOK, InvTerminos
<1>5. /\ FilaMostrada = IF t = 0 THEN s - 1 ELSE s
      /\ PuestosMostrados = IF t = 0 THEN s - 1 ELSE t
      /\ FilaMostrada' = s /\ PuestosMostrados' = t + 1
  <2>1. t + 1 # 0 /\ pc' \notin {"leerNumero", "secuenciaConnell"}
    BY <1>1, <1>2
  <2> QED
    BY <1>1, <1>2, <1>3, <2>1
       DEF FilaMostrada, PuestosMostrados, FilaSinEmpezar, FilaAnterior
<1>6. /\ Fase = "muestra"
      /\ Fase' = IF Len(salida') = cantidadTerminos THEN "listo" ELSE "muestra"
  BY <1>1, <1>3, <1>4 DEF Fase
<1>7. \A d \in Int : Signed(ToWord(Abstracto!Ultimo + d)) =
                      Signed(ToWord(2 * k - FilaMostrada + d))
  <2>1. 2 * k - FilaMostrada \in Int
    BY <1>2, <1>5
  <2> QED
    BY <1>0, <1>1, <2>1, UltimoMostrado, SumaConSigno
<1>8. CASE t = 0
  <2>1. 2 * k - FilaMostrada + 1 = 2 * k - s + 2
    BY <1>2, <1>5, <1>8
  <2>2. salida' = Append(salida, Signed(ToWord(Abstracto!Ultimo + 1)))
    BY <1>1, <1>2, <1>7, <2>1
  <2>3. /\ PuestosMostrados = FilaMostrada
        /\ FilaMostrada' = FilaMostrada + 1 /\ PuestosMostrados' = 1
    BY <1>2, <1>5, <1>8
  <2>4. Abstracto!EmpezarFila
    BY <2>2, <2>3 DEF Abstracto!EmpezarFila, FilaMostrada, PuestosMostrados
  <2> QED
    BY <1>1, <1>2, <1>4, <1>6, <2>4 DEF Abstracto!Mostrar
<1>9. CASE t > 0
  <2>1. 2 * k - FilaMostrada + 2 = 2 * k - s + 2
    BY <1>2, <1>5, <1>9
  <2>2. salida' = Append(salida, Signed(ToWord(Abstracto!Ultimo + 2)))
    BY <1>1, <1>2, <1>7, <2>1
  <2>3. /\ PuestosMostrados < FilaMostrada
        /\ FilaMostrada' = FilaMostrada
        /\ PuestosMostrados' = PuestosMostrados + 1
    BY <1>2, <1>5, <1>9
  <2>4. Abstracto!SeguirFila
    BY <2>2, <2>3 DEF Abstracto!SeguirFila, FilaMostrada, PuestosMostrados
  <2> QED
    BY <1>1, <1>2, <1>4, <1>6, <2>4 DEF Abstracto!Mostrar
<1> QED
  BY <1>2, <1>8, <1>9

LEMMA NoImprimirRefina ==
  NoImprimir => UNCHANGED Abstracto!vars
  BY DEF NoImprimir, Abstracto!vars, Fase, FilaSinEmpezar, FilaAnterior

LEMMA QuietoRefina ==
  UNCHANGED vars => UNCHANGED Abstracto!vars
  BY DEF vars, Abstracto!vars, Fase, FilaSinEmpezar, FilaAnterior

LEMMA NextAbstracto ==
  IInv /\ [Next]_vars => [Abstracto!Next]_Abstracto!vars
  BY LeerNumeroRefina, SecuenciaConnellRefina, TerminarFilaRefina,
     ImprimirRefina, NoImprimirRefina, QuietoRefina
     DEF Next, Acabado, Abstracto!Next

\* The program shows the sequence as it is defined, by rows, and stops at the
\* N-th term in whatever row it is.
THEOREM ImplementaAbstractoTheorem == Spec => ImplementaAbstracto
  BY InitAbstracto, NextAbstracto, Inductivo, PTL
  DEF Spec, ImplementaAbstracto, Abstracto!Spec

-----------------------------------------------------------------------------
(* The bound on the steps *)

\* The next term of a row has the row's parity, wrapped or not.
LEMMA ParidadSiguiente ==
  ASSUME NEW k \in Nat, NEW s \in Nat
  PROVE  s % 2 = ToWord(2 * k - s + 2) % 2
<1>1. 2 * k - s + 2 \in Int /\ (2 * k - s + 2) % 2 = s % 2
  OBVIOUS
<1> QED
  BY <1>1, ParidadDeToWord

LEMMA LeerNumeroPasos ==
  IInv /\ LeerNumero => PasosQueFaltan' < PasosQueFaltan
<1> SUFFICES ASSUME IInv, LeerNumero PROVE PasosQueFaltan' < PasosQueFaltan
    OBVIOUS
<1>1. /\ pc = "leerNumero" /\ pc' = "secuenciaConnell"
      /\ cantidadTerminos' \in Words
      /\ UNCHANGED <<contadorSecuencias, contadorImpresos>>
  BY DEF IInv, TypeOK, LeerNumero, Scanf, Lectura
<1>2. /\ contadorSecuencias = 0 /\ contadorImpresos = 0
      /\ cantidadTerminos = 0
  BY <1>1 DEF IInv, InvTerminos
<1>3. PasosSinImprimir = 3 * WordSize + 2 /\ PasosSinImprimir' = 4
  BY <1>1, <1>2 DEF PasosSinImprimir
<1>4. cantidadTerminos' \in Nat /\ cantidadTerminos' <= WordSize - 1
  BY <1>1, WordSizeAssumption DEF Words
<1>5. PasosQueFaltan = 3 * WordSize + 2
  BY <1>2, <1>3, WordSizeAssumption DEF PasosQueFaltan
<1>6. PasosQueFaltan' = 3 * cantidadTerminos' + 4
  BY <1>1, <1>2, <1>3, <1>4 DEF PasosQueFaltan
<1>7. WordSize \in Nat /\ 3 * cantidadTerminos' + 4 < 3 * WordSize + 2
  <2>1. \A n, w \in Nat : n <= w - 1 => 3 * n + 4 < 3 * w + 2
    OBVIOUS
  <2>2. WordSize \in Nat
    BY WordSizeAssumption
  <2> QED
    BY <1>4, <2>1, <2>2
<1> QED
  BY <1>5, <1>6, <1>7

LEMMA SecuenciaConnellPasos ==
  IInv /\ SecuenciaConnell => PasosQueFaltan' < PasosQueFaltan
<1> SUFFICES ASSUME IInv, SecuenciaConnell
             PROVE  PasosQueFaltan' < PasosQueFaltan
    OBVIOUS
<1>0. TypeOK /\ InvTerminos
  BY DEF IInv
<1>1. /\ pc = "secuenciaConnell" /\ EnCabeza
      /\ UNCHANGED <<cantidadTerminos, contadorSecuencias, contadorImpresos,
                     ultimoNumero>>
  BY <1>0 DEF SecuenciaConnell, InvTerminos
<1>2. PasosSinImprimir = IF contadorSecuencias = 0 THEN 4 ELSE 2
  BY <1>1 DEF PasosSinImprimir
<1>3. CASE SecuenciasAgotadas
  <2>1. pc' = "fin"
    BY <1>3 DEF SecuenciaConnell
  <2>2. PasosSinImprimir' = 0
    BY <2>1 DEF PasosSinImprimir
  <2> QED
    BY <1>0, <1>1, <1>2, <2>2, Tipos DEF PasosQueFaltan
<1>4. CASE ~SecuenciasAgotadas
  <2>1. pc' = "buscarTerminoAdecuado" /\ contadorTerminos' = 0
    BY <1>4 DEF SecuenciaConnell
  <2>2. CASE contadorSecuencias = 0
    <3>1. PasosSinImprimir' = 3
      BY <1>1, <2>1, <2>2 DEF PasosSinImprimir, FilaCompleta
    <3> QED
      BY <1>0, <1>1, <1>2, <2>2, <3>1, Tipos DEF PasosQueFaltan
  <2>3. CASE contadorSecuencias # 0
    <3>1. ultimoNumero' = Siguiente /\ contadorTerminos' # contadorSecuencias'
      BY <1>0, <1>1, <2>1, <2>3, Tipos DEF EnCabeza
    <3>2. contadorSecuencias' % 2 = ultimoNumero' % 2
      BY <1>0, <1>1, <3>1, Tipos, ParidadSiguiente DEF Siguiente
    <3>3. PasosSinImprimir' = 1
      BY <2>1, <3>1, <3>2 DEF PasosSinImprimir, FilaCompleta, MismaParidad
    <3> QED
      BY <1>0, <1>1, <1>2, <2>3, <3>3, Tipos DEF PasosQueFaltan
  <2> QED
    BY <2>2, <2>3
<1> QED
  BY <1>3, <1>4

LEMMA TerminarFilaPasos ==
  IInv /\ TerminarBuscarTerminoAdecuado => PasosQueFaltan' < PasosQueFaltan
<1> SUFFICES ASSUME IInv, TerminarBuscarTerminoAdecuado
             PROVE  PasosQueFaltan' < PasosQueFaltan
    OBVIOUS
<1>1. /\ pc = "buscarTerminoAdecuado" /\ pc' = "secuenciaConnell"
      /\ FilaCompleta
      /\ contadorSecuencias' = ToWord(contadorSecuencias + 1)
      /\ UNCHANGED <<cantidadTerminos, contadorImpresos>>
  BY DEF TerminarBuscarTerminoAdecuado
<1>2. contadorSecuencias' = contadorSecuencias + 1 /\ contadorSecuencias \in Nat
  BY <1>1, FilaCompletaHechos, Tipos DEF IInv
<1>3. PasosSinImprimir = 3 /\ PasosSinImprimir' = 2
  BY <1>1, <1>2 DEF PasosSinImprimir
<1> QED
  BY <1>1, <1>3, Tipos DEF IInv, PasosQueFaltan

LEMMA ImprimirPasos ==
  IInv /\ Imprimir => PasosQueFaltan' < PasosQueFaltan
<1> SUFFICES ASSUME IInv, Imprimir PROVE PasosQueFaltan' < PasosQueFaltan
    OBVIOUS
<1>0. TypeOK /\ InvTerminos
  BY DEF IInv
<1>1. /\ pc = "buscarTerminoAdecuado" /\ ~FilaCompleta /\ MismaParidad
      /\ contadorImpresos' = ToWord(contadorImpresos + 1)
      /\ UNCHANGED cantidadTerminos
      /\ pc' \in {"fin", "buscarTerminoAdecuado"}
  BY DEF Imprimir
<1>2. contadorImpresos \in Nat /\ contadorImpresos < cantidadTerminos
  BY <1>0, <1>1, FilaIncompletaHechos
<1>3. contadorImpresos' = contadorImpresos + 1
  <2>1. contadorImpresos + 1 \in Words
    BY <1>0, <1>2, Tipos DEF Words
  <2> QED
    BY <1>1, <2>1, ToWordDeWord
<1>4. PasosSinImprimir = 1
  BY <1>1 DEF PasosSinImprimir
<1>5. PasosSinImprimir' \in 0..3
  BY <1>1 DEF PasosSinImprimir
<1> QED
  BY <1>0, <1>1, <1>2, <1>3, <1>4, <1>5, Tipos DEF PasosQueFaltan

LEMMA NoImprimirPasos ==
  IInv /\ NoImprimir => PasosQueFaltan' < PasosQueFaltan
<1> SUFFICES ASSUME IInv, NoImprimir PROVE PasosQueFaltan' < PasosQueFaltan
    OBVIOUS
<1> DEFINE s == contadorSecuencias
           k == contadorImpresos
<1>0. TypeOK /\ InvTerminos
  BY DEF IInv
<1>1. /\ pc = "buscarTerminoAdecuado" /\ ~FilaCompleta /\ ~MismaParidad
      /\ ultimoNumero' = SiguienteNumero
      /\ UNCHANGED <<pc, cantidadTerminos, contadorSecuencias,
                     contadorTerminos, contadorImpresos>>
  BY DEF NoImprimir
<1>2. /\ s \in Nat /\ k \in Nat
      /\ ultimoNumero = ToWord(2 * k - s + 1)
  BY <1>0, <1>1, FilaIncompletaHechos
<1>3. ultimoNumero' = ToWord(2 * k - s + 2)
  <2>1. 2 * k - s + 1 \in Int /\ 2 * k - s + 1 + 1 = 2 * k - s + 2
    BY <1>2
  <2>2. ToWord(ToWord(2 * k - s + 1) + 1) = ToWord(2 * k - s + 1 + 1)
    BY <2>1, ToWordSuma
  <2> QED
    BY <1>1, <1>2, <2>1, <2>2 DEF SiguienteNumero
<1>4. contadorSecuencias' % 2 = ultimoNumero' % 2
  BY <1>1, <1>2, <1>3, ParidadSiguiente
<1>5. PasosSinImprimir = 2
  BY <1>1 DEF PasosSinImprimir
<1>6. PasosSinImprimir' = 1
  BY <1>1, <1>4 DEF PasosSinImprimir, FilaCompleta, MismaParidad
<1> QED
  BY <1>0, <1>1, <1>5, <1>6, Tipos DEF PasosQueFaltan

\* No execution takes more steps than what PasosQueFaltan says in its first
\* state: every step makes it smaller, wherever the program is and whatever N
\* was typed, and it never is negative.
THEOREM PasosAcotadosTheorem == Spec => PasosAcotados
<1>1. IInv /\ [Next]_vars =>
        [PasosQueFaltan' < PasosQueFaltan]_vars
  BY LeerNumeroPasos, SecuenciaConnellPasos, TerminarFilaPasos,
     ImprimirPasos, NoImprimirPasos DEF Next, Acabado
<1>2. IInv' => PasosQueFaltan' >= 0
  BY WordSizeAssumption
     DEF IInv, TypeOK, Words, PasosQueFaltan, PasosSinImprimir
<1>3. IInv /\ IInv' /\ [Next]_vars =>
        [PasosQueFaltan' < PasosQueFaltan /\ PasosQueFaltan' >= 0]_vars
  BY <1>1, <1>2
<1> QED
  BY <1>3, Inductivo, PTL DEF Spec, PasosAcotados
=============================================================================
