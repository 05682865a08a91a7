----------------------- MODULE MatrizTranspuestaProofs ---------------------
(* Proofs about program 8.  The inductive invariant IInv says where both     *)
(* loops are, counted in elements stored and in texts printed, that what is  *)
(* stored is what was entered, and that nothing changes the upper part of    *)
(* valorIngresado after the last element.                                    *)
EXTENDS MatrizTranspuesta, SequenceTheorems, TLAPS

\* The lemmas about division, none of which depends on the size of a word.
Enteros == INSTANCE DwordProofs WITH WordSize <- 4

-----------------------------------------------------------------------------
(* The inductive invariant *)

\* The position the loops are at, or one past the last.
Recorrido ==
  pc # "corroborarFilasYColumnas" =>
    /\ contadorFilas <= cantidadFilasYColumnas
    /\ contadorColumnas <= cantidadFilasYColumnas - 1
    /\ contadorFilas = cantidadFilasYColumnas => contadorColumnas = 0

\* How much has been stored, and what.
InvCarga ==
  /\ pc = "corroborarFilasYColumnas" =>
       contadorFilas = 0 /\ contadorColumnas = 0 /\ cargados = <<>>
  /\ pc = "empieza" => Len(cargados) = Posicion
  /\ pc \in {"empiezaMuestra", "fin"} =>
       Len(cargados) = cantidadFilasYColumnas * cantidadFilasYColumnas
  /\ \A k \in 1..Len(cargados) : matriz[k - 1] = Bajo(cargados[k])

\* What is in valorIngresado when it is not read.
InvUltimo ==
  /\ pc \in {"corroborarFilasYColumnas", "empieza"} =>
       valorIngresado \in Valores \cup {0}
  /\ Len(cargados) > 0 => Alto(valorIngresado) = Alto(cargados[Len(cargados)])

\* How much has been printed, and what.
InvMuestra ==
  /\ pc \in {"corroborarFilasYColumnas", "empieza"} => salida = <<>>
  /\ pc = "empiezaMuestra" =>
       Len(salida) = contadorFilas * (cantidadFilasYColumnas + 1)
                     + contadorColumnas
  /\ MuestraFiel

IInv == TypeOK /\ Recorrido /\ InvCarga /\ InvUltimo /\ InvMuestra

-----------------------------------------------------------------------------
(* Lemmas *)

\* What the lemmas of Enteros assume.
LEMMA CuatroVale == 4 \in Nat /\ 4 >= 4 /\ 4 % 2 = 0
  OBVIOUS

\* A byte put in place of the low byte of a dword.
LEMMA Bytes ==
  ASSUME NEW v \in Nat, NEW b \in 0..Base - 1
  PROVE  /\ Bajo(v) \in 0..Base - 1
         /\ Alto(v) \in Nat
         /\ Alto(v) + b \in Nat
         /\ Bajo(Alto(v) + b) = b
         /\ Alto(Alto(v) + b) = Alto(v)
<1>1. v % Base \in 0..Base - 1
  BY BaseAssumption
<1>2. /\ v - (v % Base) \in Nat
      /\ (v - (v % Base) + b) % Base = b
      /\ v - (v % Base) + b - ((v - (v % Base) + b) % Base) = v - (v % Base)
  BY BaseAssumption, CuatroVale, Enteros!RestoReemplazado, Zenon
<1>3. Base \in Nat
  BY BaseAssumption
<1> QED
  BY <1>1, <1>2, <1>3 DEF Bajo, Alto

LEMMA Cuadrado ==
  ASSUME NEW n \in 2..MaxLado
  PROVE  n * n \in Nat /\ n * n <= LargoMatriz
<1>1. \A a, b \in Nat : a * b \in Nat /\ (a <= b => a * a <= b * b)
  <2>1. ASSUME NEW a \in Nat, NEW b \in Nat, a <= b PROVE a * a <= b * b
    <3>1. a * a <= a * b
      BY <2>1
    <3>2. a * b <= b * b
      BY <2>1
    <3> QED
      BY <3>1, <3>2
  <2> QED
    BY <2>1
<1>2. n \in Nat /\ MaxLado \in Nat /\ n <= MaxLado
  BY MaxLadoAssumption
<1>3. n * n \in Nat /\ n * n <= MaxLado * MaxLado /\ MaxLado * MaxLado \in Nat
  BY <1>1, <1>2
<1> QED
  BY <1>3, LargoAssumption

\* A pass of a loop goes on to the next position, in elements and in texts.
LEMMA AvanzarHechos ==
  ASSUME cantidadFilasYColumnas \in Nat \ {0},
         contadorFilas \in 0..cantidadFilasYColumnas - 1,
         contadorColumnas \in 0..cantidadFilasYColumnas - 1,
         Avanzar
  PROVE  /\ contadorFilas' \in 0..cantidadFilasYColumnas
         /\ contadorColumnas' \in 0..cantidadFilasYColumnas - 1
         /\ contadorFilas' = cantidadFilasYColumnas => contadorColumnas' = 0
         /\ contadorFilas' * cantidadFilasYColumnas + contadorColumnas' =
              contadorFilas * cantidadFilasYColumnas + contadorColumnas + 1
         /\ UltimaColumna <=> contadorColumnas = cantidadFilasYColumnas - 1
         /\ contadorFilas' * (cantidadFilasYColumnas + 1) + contadorColumnas' =
              contadorFilas * (cantidadFilasYColumnas + 1) + contadorColumnas
              + (IF UltimaColumna THEN 2 ELSE 1)
<1> DEFINE n == cantidadFilasYColumnas
           f == contadorFilas
           c == contadorColumnas
           g == contadorFilas'
           d == contadorColumnas'
<1>1. UltimaColumna <=> c = n - 1
  BY DEF UltimaColumna
<1>2. n \in Nat \ {0} /\ f \in Nat /\ f \in 0..n - 1 /\ c \in 0..n - 1
  OBVIOUS
<1>3. /\ f * n + (c + 1) = f * n + c + 1
      /\ f * (n + 1) + (c + 1) = f * (n + 1) + c + 1
      /\ c = n - 1 => /\ (f + 1) * n + 0 = f * n + c + 1
                      /\ (f + 1) * (n + 1) + 0 = f * (n + 1) + c + 2
  BY <1>2, CuatroVale, Enteros!Avance, Zenon
<1>4. CASE ~UltimaColumna
  <2>1. c # n - 1 /\ d = c + 1 /\ g = f
    BY <1>1, <1>4 DEF Avanzar
  <2>2. g \in 0..n /\ d \in 0..n - 1 /\ g # n
    BY <1>2, <2>1
  <2> QED
    BY <1>1, <1>3, <1>4, <2>1, <2>2, Zenon
<1>5. CASE UltimaColumna
  <2>1. c = n - 1 /\ d = 0 /\ g = f + 1
    BY <1>1, <1>5 DEF Avanzar
  <2>2. g \in 0..n /\ d \in 0..n - 1
    BY <1>2, <2>1
  <2> QED
    BY <1>1, <1>3, <1>5, <2>1, <2>2, Zenon
<1> QED
  BY <1>4, <1>5

-----------------------------------------------------------------------------
(* IInv is inductive *)

LEMMA InitIInv == Init => IInv
<1> SUFFICES ASSUME Init PROVE IInv
    OBVIOUS
<1>1. /\ pc = "corroborarFilasYColumnas" /\ cantidadFilasYColumnas = 0
      /\ contadorFilas = 0 /\ contadorColumnas = 0 /\ valorIngresado = 0
      /\ matriz = [i \in 0..LargoMatriz - 1 |-> 0]
      /\ entrada = "viva" /\ salida = <<>> /\ cargados = <<>>
  BY DEF Init
<1>2. salida \in Seq(Nat \cup {Salto}) /\ cargados \in Seq(Valores \cup {0})
  BY <1>1
<1>3. Len(salida) = 0 /\ Len(cargados) = 0
  BY <1>1
<1>4. TypeOK
  BY <1>1, <1>2, BaseAssumption, MaxLadoAssumption DEF TypeOK
<1>5. Recorrido /\ InvCarga /\ InvUltimo
  BY <1>1, <1>3 DEF Recorrido, InvCarga, InvUltimo
<1>6. InvMuestra
  BY <1>1, <1>3 DEF InvMuestra, MuestraFiel
<1> QED
  BY <1>4, <1>5, <1>6 DEF IInv

LEMMA CorroborarIInv == IInv /\ CorroborarFilasYColumnas => IInv'
<1> SUFFICES ASSUME IInv, CorroborarFilasYColumnas PROVE IInv'
    OBVIOUS
<1>0. TypeOK /\ Recorrido /\ InvCarga /\ InvUltimo /\ InvMuestra
  BY DEF IInv
<1>1. /\ pc = "corroborarFilasYColumnas"
      /\ \/ pc' = "empieza" /\ LadoAceptado(cantidadFilasYColumnas')
         \/ pc' = "corroborarFilasYColumnas"
      /\ UNCHANGED <<contadorFilas, contadorColumnas, valorIngresado, matriz,
                     salida, cargados>>
  BY DEF CorroborarFilasYColumnas
<1>2. /\ cantidadFilasYColumnas' \in Lados \cup {0}
      /\ entrada' \in {"viva", "trabada"}
  BY <1>0 DEF CorroborarFilasYColumnas, Scanf, Lectura, TypeOK
<1>3. pc' = "empieza" => cantidadFilasYColumnas' \in 2..MaxLado
  BY <1>1, <1>2, LadosAssumption, MaxLadoAssumption DEF LadoAceptado
<1>4. TypeOK'
  BY <1>0, <1>1, <1>2, <1>3 DEF TypeOK
<1>5. contadorFilas = 0 /\ contadorColumnas = 0 /\ cargados = <<>> /\ salida = <<>>
  BY <1>0, <1>1 DEF InvCarga, InvMuestra
<1>6. Len(cargados) = 0 /\ Len(salida) = 0
  BY <1>5
<1>7. pc' = "empieza" => Posicion' = 0
  <2>1. \A x \in Int : 0 * x + 0 = 0
    OBVIOUS
  <2> QED
    BY <1>1, <1>3, <1>5, <2>1 DEF Posicion
<1>8. Recorrido' /\ InvUltimo'
  BY <1>0, <1>1, <1>3, <1>5, <1>6 DEF Recorrido, InvUltimo
<1>9. InvCarga'
  BY <1>1, <1>5, <1>6, <1>7 DEF InvCarga
<1>10. InvMuestra'
  BY <1>1, <1>5, <1>6 DEF InvMuestra, MuestraFiel
<1> QED
  BY <1>4, <1>8, <1>9, <1>10 DEF IInv

\* Where the loading loop is and what it does with the number read.
LEMMA EmpiezaHechos ==
  ASSUME IInv, Empieza
  PROVE  /\ pc = "empieza" /\ pc' = "empieza"
         /\ cantidadFilasYColumnas \in 2..MaxLado
         /\ Len(cargados) = Posicion
         /\ Posicion \in 0..cantidadFilasYColumnas * cantidadFilasYColumnas - 1
         /\ Posicion \in 0..LargoMatriz - 1
         /\ Posicion' = Posicion + 1
         /\ valorIngresado' \in Valores \cup {0} /\ valorIngresado' \in Nat
         /\ entrada' \in {"viva", "trabada"}
         /\ cargados' = Append(cargados, valorIngresado')
         /\ matriz' = [matriz EXCEPT ![Posicion] = Bajo(valorIngresado')]
         /\ contadorFilas' \in 0..cantidadFilasYColumnas
         /\ contadorColumnas' \in 0..cantidadFilasYColumnas - 1
         /\ contadorFilas' = cantidadFilasYColumnas => contadorColumnas' = 0
         /\ UNCHANGED <<cantidadFilasYColumnas, salida>>
<1> DEFINE n == cantidadFilasYColumnas
<1>0. TypeOK /\ Recorrido /\ InvCarga /\ InvUltimo
  BY DEF IInv
<1>1. /\ pc = "empieza" /\ pc' = "empieza" /\ contadorFilas <= n - 1
      /\ LeerValorIngresado /\ Avanzar
      /\ matriz' = [matriz EXCEPT ![Posicion] = Bajo(valorIngresado')]
      /\ cargados' = Append(cargados, valorIngresado')
      /\ UNCHANGED <<cantidadFilasYColumnas, salida>>
  BY DEF Empieza
<1>2. /\ n \in 2..MaxLado /\ n \in Nat \ {0}
      /\ contadorFilas \in 0..n - 1 /\ contadorColumnas \in 0..n - 1
  BY <1>0, <1>1, MaxLadoAssumption DEF TypeOK, Recorrido
<1>3. /\ valorIngresado' \in Valores \cup {0}
      /\ entrada' \in {"viva", "trabada"}
  BY <1>0, <1>1 DEF LeerValorIngresado, Scanf, Lectura, TypeOK, InvUltimo
<1>4. valorIngresado' \in Nat
  BY <1>3, ValoresAssumption
<1>5. /\ contadorFilas' \in 0..n /\ contadorColumnas' \in 0..n - 1
      /\ contadorFilas' = n => contadorColumnas' = 0
      /\ contadorFilas' * n + contadorColumnas' =
           contadorFilas * n + contadorColumnas + 1
  BY <1>1, <1>2, AvanzarHechos
<1>6. Posicion \in 0..n * n - 1
  BY <1>2, Enteros!CasilleroAdentro DEF Posicion
<1>7. n * n \in Nat /\ n * n <= LargoMatriz
  BY <1>2, Cuadrado
<1>8. Posicion \in 0..LargoMatriz - 1
  <2> DEFINE p == Posicion
             t == n * n
  <2>1. p \in 0..t - 1 /\ t \in Nat /\ t <= LargoMatriz
    BY <1>6, <1>7
  <2> HIDE DEF p, t
  <2>2. p \in 0..LargoMatriz - 1
    BY <2>1, LargoAssumption
  <2> QED
    BY <2>2 DEF p
<1>9. Posicion' = Posicion + 1
  BY <1>1, <1>5 DEF Posicion
<1>10. Len(cargados) = Posicion
  BY <1>0, <1>1 DEF InvCarga
<1> QED
  BY <1>1, <1>2, <1>3, <1>4, <1>5, <1>6, <1>8, <1>9, <1>10

LEMMA EmpiezaIInv == IInv /\ Empieza => IInv'
<1> SUFFICES ASSUME IInv, Empieza PROVE IInv'
    OBVIOUS
<1> DEFINE n == cantidadFilasYColumnas
           v == valorIngresado'
           p == Posicion
<1>0. TypeOK /\ Recorrido /\ InvCarga /\ InvUltimo /\ InvMuestra
  BY DEF IInv
<1>1. /\ pc = "empieza" /\ pc' = "empieza"
      /\ n \in 2..MaxLado
      /\ Len(cargados) = p
      /\ p \in 0..LargoMatriz - 1
      /\ Posicion' = p + 1
      /\ v \in Valores \cup {0} /\ v \in Nat
      /\ entrada' \in {"viva", "trabada"}
      /\ cargados' = Append(cargados, v)
      /\ matriz' = [matriz EXCEPT ![p] = Bajo(v)]
      /\ contadorFilas' \in 0..n
      /\ contadorColumnas' \in 0..n - 1
      /\ contadorFilas' = n => contadorColumnas' = 0
      /\ UNCHANGED <<cantidadFilasYColumnas, salida>>
  BY EmpiezaHechos, Zenon
<1>2. Bajo(v) \in 0..Base - 1
  <2>1. 0 \in 0..Base - 1
    BY BaseAssumption
  <2> QED
    BY <1>1, <2>1, Bytes
<1>3. /\ cargados' \in Seq(Valores \cup {0}) /\ Len(cargados') = p + 1
      /\ cargados'[p + 1] = v
      /\ \A k \in 1..p : cargados'[k] = cargados[k]
  <2>1. cargados \in Seq(Valores \cup {0})
    BY <1>0 DEF TypeOK
  <2> QED
    BY <1>1, <2>1, AppendProperties
<1> HIDE DEF p, v
<1>4. TypeOK'
  <2>1. matriz' \in [0..LargoMatriz - 1 -> 0..Base - 1]
    BY <1>0, <1>1, <1>2 DEF TypeOK
  <2>2. contadorFilas' \in 0..MaxLado /\ contadorColumnas' \in 0..MaxLado - 1
    BY <1>1, MaxLadoAssumption
  <2> QED
    BY <1>0, <1>1, <1>3, <2>1, <2>2 DEF TypeOK, v
<1>5. Recorrido'
  BY <1>1 DEF Recorrido
<1>6. InvCarga'
  <2>1. matriz \in [0..LargoMatriz - 1 -> 0..Base - 1]
    BY <1>0 DEF TypeOK
  <2>2. ASSUME NEW k \in 1..p + 1 PROVE matriz'[k - 1] = Bajo(cargados'[k])
    <3>1. CASE k = p + 1
      BY <1>1, <1>3, <2>1, <3>1
    <3>2. CASE k \in 1..p
      <4>1. matriz[k - 1] = Bajo(cargados[k])
        BY <1>0, <1>1, <3>2 DEF InvCarga, p
      <4>2. k - 1 \in 0..LargoMatriz - 1 /\ k - 1 # p
        BY <1>1, <3>2, LargoAssumption
      <4> QED
        BY <1>1, <1>3, <2>1, <3>2, <4>1, <4>2
    <3> QED
      BY <1>1, <3>1, <3>2
  <2> QED
    BY <1>1, <1>3, <2>2 DEF InvCarga
<1>7. InvUltimo'
  BY <1>1, <1>3 DEF InvUltimo, v
<1>8. InvMuestra'
  <2>1. salida = <<>> /\ Len(salida) = 0
    BY <1>0, <1>1 DEF InvMuestra
  <2> QED
    BY <1>1, <2>1 DEF InvMuestra, MuestraFiel
<1> QED
  BY <1>4, <1>5, <1>6, <1>7, <1>8 DEF IInv

LEMMA MostrarMatrizIInv == IInv /\ MostrarMatriz => IInv'
<1> SUFFICES ASSUME IInv, MostrarMatriz PROVE IInv'
    OBVIOUS
<1> DEFINE n == cantidadFilasYColumnas
<1>0. TypeOK /\ Recorrido /\ InvCarga /\ InvUltimo /\ InvMuestra
  BY DEF IInv
<1>1. /\ pc = "empieza" /\ pc' = "empiezaMuestra" /\ contadorFilas > n - 1
      /\ contadorFilas' = 0 /\ contadorColumnas' = 0
      /\ UNCHANGED <<cantidadFilasYColumnas, valorIngresado, matriz, entrada,
                     salida, cargados>>
  BY DEF MostrarMatriz
<1>2. n \in 2..MaxLado /\ n \in Nat /\ contadorFilas \in Nat
  BY <1>0, <1>1, MaxLadoAssumption DEF TypeOK
<1>3. contadorFilas = n /\ contadorColumnas = 0
  BY <1>0, <1>1, <1>2 DEF Recorrido
<1>4. Len(cargados) = n * n
  <2>1. Len(cargados) = n * n + 0
    BY <1>0, <1>1, <1>3 DEF InvCarga, Posicion
  <2>2. \A x \in Nat : x * x + 0 = x * x
    OBVIOUS
  <2> QED
    BY <1>2, <2>1, <2>2
<1>5. TypeOK'
  BY <1>0, <1>1, <1>2, MaxLadoAssumption DEF TypeOK
<1>6. Recorrido' /\ InvCarga' /\ InvUltimo'
  BY <1>0, <1>1, <1>2, <1>4 DEF Recorrido, InvCarga, InvUltimo
<1>7. salida = <<>> /\ Len(salida) = 0
  BY <1>0, <1>1 DEF InvMuestra
<1>8. 0 * (n + 1) + 0 = 0
  <2>1. \A x \in Int : 0 * x + 0 = 0
    OBVIOUS
  <2> QED
    BY <1>2, <2>1
<1>9. InvMuestra'
  BY <1>1, <1>7, <1>8 DEF InvMuestra, MuestraFiel
<1> QED
  BY <1>5, <1>6, <1>9 DEF IInv

\* What a number on the screen says: above its low byte, the last one entered.
Numero(r, s) ==
  Bajo(cargados[FuenteTranspuesta(Forma, r, s)]) + Alto(cargados[Len(cargados)])

\* What the showing loop does: it prints the element of the transpose that
\* comes next, and after the last of a row a line feed.
LEMMA EmpiezaMuestraHechos ==
  ASSUME IInv, EmpiezaMuestra
  PROVE  /\ pc = "empiezaMuestra" /\ pc' = "empiezaMuestra"
         /\ cantidadFilasYColumnas \in 2..MaxLado
         /\ contadorFilas \in 0..cantidadFilasYColumnas - 1
         /\ contadorColumnas \in 0..cantidadFilasYColumnas - 1
         /\ Avanzar
         /\ FuenteTranspuesta(Forma, contadorFilas, contadorColumnas)
               \in 1..Len(cargados)
         /\ valorIngresado' = Numero(contadorFilas, contadorColumnas)
         /\ valorIngresado' \in Nat
         /\ Alto(valorIngresado') = Alto(valorIngresado)
         /\ Len(cargados) > 0
         /\ salida' = salida \o (IF UltimaColumna THEN <<valorIngresado', Salto>>
                                                  ELSE <<valorIngresado'>>)
         /\ UNCHANGED <<cantidadFilasYColumnas, matriz, entrada, cargados>>
<1> DEFINE n == cantidadFilasYColumnas
           f == contadorFilas
           c == contadorColumnas
           p == c * n + f
           k == Len(cargados)
<1>0. TypeOK /\ Recorrido /\ InvCarga /\ InvUltimo
  BY DEF IInv
<1>1. /\ pc = "empiezaMuestra" /\ pc' = "empiezaMuestra" /\ f <= n - 1
      /\ Avanzar
      /\ valorIngresado' = Alto(valorIngresado) + matriz[PosicionTranspuesta]
      /\ salida' = salida \o (IF UltimaColumna THEN <<valorIngresado', Salto>>
                                               ELSE <<valorIngresado'>>)
      /\ UNCHANGED <<cantidadFilasYColumnas, matriz, entrada, cargados>>
  BY <1>0 DEF EmpiezaMuestra, MostrarParteMatriz
<1>2. /\ n \in 2..MaxLado /\ n \in Nat \ {0} /\ f \in 0..n - 1 /\ c \in 0..n - 1
      /\ n \in Nat
  BY <1>0, <1>1, MaxLadoAssumption DEF TypeOK, Recorrido
<1>3. p \in 0..n * n - 1
  BY <1>2, CuatroVale, Enteros!CasilleroAdentro, Zenon
<1>4. k = n * n /\ k \in Nat
  BY <1>0, <1>1 DEF InvCarga, TypeOK
<1>5. /\ PosicionTranspuesta = p
      /\ FuenteTranspuesta(Forma, f, c) = p + 1
  BY DEF PosicionTranspuesta, FuenteTranspuesta, Forma
<1> HIDE DEF p, k
<1>6. p + 1 \in 1..k /\ p + 1 - 1 = p /\ k > 0 /\ p \in Int
  BY <1>3, <1>4
<1>13. cargados[p + 1] \in Nat /\ valorIngresado \in Nat
  <2>1. cargados \in Seq(Valores \cup {0}) /\ p + 1 \in 1..Len(cargados)
    BY <1>0, <1>6 DEF TypeOK, k
  <2>2. cargados[p + 1] \in Valores \cup {0}
    BY <2>1, ElementOfSeq, Zenon
  <2>3. \A x \in Valores \cup {0} : x \in Nat
    BY ValoresAssumption
  <2>4. valorIngresado \in Nat
    BY <1>0 DEF TypeOK
  <2> QED
    BY <2>2, <2>3, <2>4, Zenon
<1>7. matriz[p] = Bajo(cargados[p + 1])
  <2>1. matriz[p + 1 - 1] = Bajo(cargados[p + 1])
    BY <1>0, <1>6 DEF InvCarga, k
  <2> QED
    BY <1>6, <2>1
<1>8. Alto(valorIngresado) = Alto(cargados[k])
  BY <1>0, <1>6 DEF InvUltimo, k
<1>9. valorIngresado' = Numero(f, c)
  <2>1. Numero(f, c) = Bajo(cargados[p + 1]) + Alto(cargados[k])
    BY <1>5 DEF Numero, k
  <2>2. valorIngresado' = Alto(cargados[k]) + Bajo(cargados[p + 1])
    BY <1>1, <1>5, <1>7, <1>8, Zenon
  <2>3. Alto(cargados[k]) \in Nat /\ Bajo(cargados[p + 1]) \in Nat
    <3>2. 0 \in 0..Base - 1 /\ 0..Base - 1 \subseteq Nat
      BY BaseAssumption
    <3> QED
      BY <1>8, <1>13, <3>2, Bytes
  <2> QED
    BY <2>1, <2>2, <2>3
<1>10. matriz[p] \in 0..Base - 1 /\ valorIngresado \in Nat
  <2>2. 0 \in 0..Base - 1
    BY BaseAssumption
  <2> QED
    BY <1>7, <1>13, <2>2, Bytes, Zenon
<1>11. /\ valorIngresado' \in Nat
       /\ Alto(valorIngresado') = Alto(valorIngresado)
  BY <1>1, <1>5, <1>10, Bytes, Zenon
<1> QED
  BY <1>1, <1>2, <1>5, <1>6, <1>9, <1>11 DEF k

\* The text at place i of the screen.
Mostrado(i) ==
  IF i % (cantidadFilasYColumnas + 1) = 0 THEN Salto
  ELSE Numero((i - 1) \div (cantidadFilasYColumnas + 1),
              (i - 1) % (cantidadFilasYColumnas + 1))

LEMMA MuestraFielDicha ==
  MuestraFiel <=>
    /\ \A i \in 1..Len(salida) : salida[i] = Mostrado(i)
    /\ pc = "fin" =>
         Len(salida) = cantidadFilasYColumnas * (cantidadFilasYColumnas + 1)
  BY Zenon DEF MuestraFiel, Mostrado, Numero

LEMMA EmpiezaMuestraIInv == IInv /\ EmpiezaMuestra => IInv'
<1> SUFFICES ASSUME IInv, EmpiezaMuestra PROVE IInv'
    OBVIOUS
<1> DEFINE n == cantidadFilasYColumnas
           f == contadorFilas
           c == contadorColumnas
           v == valorIngresado'
           l == Len(salida)
<1>0. TypeOK /\ Recorrido /\ InvCarga /\ InvUltimo /\ InvMuestra
  BY DEF IInv
<1>1. /\ pc = "empiezaMuestra" /\ pc' = "empiezaMuestra"
      /\ n \in 2..MaxLado /\ f \in 0..n - 1 /\ c \in 0..n - 1
      /\ Avanzar
      /\ v = Numero(f, c) /\ v \in Nat
      /\ Alto(v) = Alto(valorIngresado)
      /\ Len(cargados) > 0
      /\ salida' = salida \o (IF UltimaColumna THEN <<v, Salto>> ELSE <<v>>)
      /\ UNCHANGED <<cantidadFilasYColumnas, matriz, entrada, cargados>>
  BY EmpiezaMuestraHechos, Zenon
<1>2. n \in Nat \ {0} /\ f \in Nat
  BY <1>1, MaxLadoAssumption
<1>3. /\ contadorFilas' \in 0..n /\ contadorColumnas' \in 0..n - 1
      /\ contadorFilas' = n => contadorColumnas' = 0
      /\ UltimaColumna <=> c = n - 1
      /\ contadorFilas' * (n + 1) + contadorColumnas' =
           f * (n + 1) + c + (IF UltimaColumna THEN 2 ELSE 1)
  BY <1>1, <1>2, AvanzarHechos
<1>4. l = f * (n + 1) + c
  BY <1>0, <1>1 DEF InvMuestra
<1> HIDE DEF l
<1>5. /\ l \in Nat
      /\ l \div (n + 1) = f /\ l % (n + 1) = c
      /\ (l + 1) % (n + 1) = c + 1
      /\ c = n - 1 => (l + 2) % (n + 1) = 0
  <2>1. /\ f * (n + 1) + c \in Nat
        /\ (f * (n + 1) + c) \div (n + 1) = f
        /\ (f * (n + 1) + c) % (n + 1) = c
        /\ ((f * (n + 1) + c) + 1) % (n + 1) = c + 1
        /\ c = n - 1 => ((f * (n + 1) + c) + 2) % (n + 1) = 0
    BY <1>1, <1>2, CuatroVale, Enteros!Lugares, Zenon
  <2> QED
    BY <1>4, <2>1, Zenon
<1>6. Mostrado(l + 1) = v
  <2>1. (l + 1) - 1 = l /\ (l + 1) % (n + 1) # 0
    BY <1>1, <1>5
  <2> QED
    BY <1>1, <1>5, <2>1, Zenon DEF Mostrado
<1>7. UltimaColumna => Mostrado(l + 2) = Salto
  BY <1>3, <1>5, Zenon DEF Mostrado
<1>8. /\ salida' \in Seq(Nat \cup {Salto})
      /\ Len(salida') = l + (IF UltimaColumna THEN 2 ELSE 1)
      /\ \A i \in 1..l : salida'[i] = salida[i]
      /\ salida'[l + 1] = v
      /\ UltimaColumna => salida'[l + 2] = Salto
  <2>1. salida \in Seq(Nat \cup {Salto}) /\ v \in Nat \cup {Salto}
        /\ Salto \in Nat \cup {Salto}
    BY <1>0, <1>1 DEF TypeOK
  <2>2. CASE UltimaColumna
    <3>1. salida' = salida \o <<v, Salto>>
      BY <1>1, <2>2
    <3> DEFINE t == salida \o <<v, Salto>>
    <3>2. /\ t \in Seq(Nat \cup {Salto}) /\ Len(t) = l + 2
          /\ \A i \in 1..l : t[i] = salida[i]
          /\ t[l + 1] = v /\ t[l + 2] = Salto
      BY <2>1, CuatroVale, Enteros!TextosNuevos DEF l
    <3> HIDE DEF t
    <3>3. salida' = t
      BY <3>1 DEF t
    <3> QED
      BY <2>2, <3>2, <3>3
  <2>3. CASE ~UltimaColumna
    <3>1. salida' = salida \o <<v>>
      BY <1>1, <2>3
    <3> DEFINE t == salida \o <<v>>
    <3>2. /\ t \in Seq(Nat \cup {Salto}) /\ Len(t) = l + 1
          /\ \A i \in 1..l : t[i] = salida[i]
          /\ t[l + 1] = v
      BY <2>1, CuatroVale, Enteros!TextosNuevos DEF l
    <3> HIDE DEF t
    <3>3. salida' = t
      BY <3>1 DEF t
    <3> QED
      BY <2>3, <3>2, <3>3
  <2> QED
    BY <2>2, <2>3
<1>9. \A i : Mostrado(i)' = Mostrado(i)
  BY <1>1 DEF Mostrado, Numero, Forma
<1>10. \A i \in 1..Len(salida') : salida'[i] = Mostrado(i)'
  <2>1. \A i \in 1..l : salida[i] = Mostrado(i)
    BY <1>0, MuestraFielDicha, Zenon DEF InvMuestra, l
  <2>2. ASSUME NEW i \in 1..Len(salida') PROVE salida'[i] = Mostrado(i)
    <3>1. \/ i \in 1..l \/ i = l + 1 \/ (UltimaColumna /\ i = l + 2)
      BY <1>5, <1>8
    <3> QED
      BY <1>6, <1>7, <1>8, <2>1, <3>1, Zenon
  <2> QED
    BY <1>9, <2>2, Zenon
<1>11. TypeOK'
  <2>1. contadorFilas' \in 0..MaxLado /\ contadorColumnas' \in 0..MaxLado - 1
    BY <1>1, <1>3, MaxLadoAssumption
  <2> QED
    BY <1>0, <1>1, <1>8, <2>1 DEF TypeOK
<1>12. Recorrido' /\ InvCarga'
  BY <1>0, <1>1, <1>3 DEF Recorrido, InvCarga
<1>13. InvUltimo'
  BY <1>0, <1>1 DEF InvUltimo
<1>14. InvMuestra'
  <2>1. MuestraFiel'
    BY <1>1, <1>10 DEF MuestraFiel, Mostrado, Numero
  <2>2. Len(salida') = contadorFilas' * (cantidadFilasYColumnas' + 1)
                       + contadorColumnas'
    BY <1>1, <1>3, <1>4, <1>8
  <2> QED
    BY <1>1, <2>1, <2>2 DEF InvMuestra
<1> QED
  BY <1>11, <1>12, <1>13, <1>14 DEF IInv

LEMMA SalirIInv == IInv /\ SalirDelPrograma => IInv'
<1> SUFFICES ASSUME IInv, SalirDelPrograma PROVE IInv'
    OBVIOUS
<1> DEFINE n == cantidadFilasYColumnas
<1>0. TypeOK /\ Recorrido /\ InvCarga /\ InvUltimo /\ InvMuestra
  BY DEF IInv
<1>1. /\ pc = "empiezaMuestra" /\ pc' = "fin" /\ contadorFilas > n - 1
      /\ UNCHANGED <<cantidadFilasYColumnas, contadorFilas, contadorColumnas,
                     valorIngresado, matriz, entrada, salida, cargados>>
  BY DEF SalirDelPrograma
<1>2. n \in 2..MaxLado /\ n \in Nat /\ contadorFilas \in Nat
  BY <1>0, <1>1, MaxLadoAssumption DEF TypeOK
<1>3. contadorFilas = n /\ contadorColumnas = 0
  BY <1>0, <1>1, <1>2 DEF Recorrido
<1>4. Len(salida) = n * (n + 1)
  <2>1. Len(salida) = n * (n + 1) + 0
    BY <1>0, <1>1, <1>3 DEF InvMuestra
  <2>2. \A x, y \in Nat : x * y + 0 = x * y
    OBVIOUS
  <2> QED
    BY <1>2, <2>1, <2>2
<1>5. TypeOK' /\ Recorrido' /\ InvCarga' /\ InvUltimo'
  BY <1>0, <1>1 DEF TypeOK, Recorrido, InvCarga, InvUltimo
<1>6. InvMuestra'
  BY <1>0, <1>1, <1>4 DEF InvMuestra, MuestraFiel, Forma
<1> QED
  BY <1>5, <1>6 DEF IInv

LEMMA QuietoIInv == IInv /\ UNCHANGED vars => IInv'
  BY DEF IInv, vars, TypeOK, Recorrido, InvCarga, Posicion, InvUltimo,
         InvMuestra, MuestraFiel, Forma

LEMMA NextIInv == IInv /\ [Next]_vars => IInv'
  BY CorroborarIInv, EmpiezaIInv, MostrarMatrizIInv, EmpiezaMuestraIInv,
     SalirIInv, QuietoIInv DEF Next, Acabado

\* IInv holds in every reachable state, for matrices and numbers of any size.
THEOREM Inductivo == Spec => []IInv
  BY InitIInv, NextIInv, PTL DEF Spec

\* Types; in particular the size accepted and the counters stay in range.
THEOREM TypeOKTheorem == Spec => []TypeOK
  BY Inductivo, PTL DEF IInv

LEMMA IInvTranspuesta == IInv => TranspuestaPorBytes
<1> SUFFICES ASSUME IInv PROVE TranspuestaPorBytes
    OBVIOUS
<1>1. TypeOK /\ Recorrido /\ InvCarga /\ InvMuestra
  BY DEF IInv
<1> DEFINE n == cantidadFilasYColumnas
           p == Posicion
<1>2. CASE pc = "corroborarFilasYColumnas"
  <2>1. Len(cargados) = 0
    BY <1>1, <1>2 DEF InvCarga
  <2> QED
    BY <1>1, <1>2, <2>1, LargoAssumption
       DEF TranspuestaPorBytes, MatrizFiel, InvCarga, InvMuestra
<1>3. CASE pc # "corroborarFilasYColumnas"
  <2>1. /\ n \in 2..MaxLado /\ n \in Nat \ {0} /\ n \in Nat
        /\ contadorFilas \in 0..n /\ contadorColumnas \in 0..n - 1
        /\ contadorFilas = n => contadorColumnas = 0
    BY <1>1, <1>3, MaxLadoAssumption DEF TypeOK, Recorrido
  <2> DEFINE t == n * n
  <2>2. t \in Nat /\ t <= LargoMatriz
    BY <2>1, Cuadrado
  <2>3. p \in 0..t
    <3>1. CASE contadorFilas = n
      <4>1. p = t + 0
        BY <2>1, <3>1 DEF Posicion
      <4> HIDE DEF t, p
      <4> QED
        BY <2>2, <4>1
    <3>2. CASE contadorFilas \in 0..n - 1
      <4>1. p \in 0..t - 1
        BY <2>1, <3>2, CuatroVale, Enteros!CasilleroAdentro, Zenon DEF Posicion
      <4> HIDE DEF t, p
      <4> QED
        BY <2>2, <4>1
    <3> QED
      BY <2>1, <3>1, <3>2
  <2>4. Len(cargados) = p \/ Len(cargados) = t
    BY <1>1, <1>3 DEF InvCarga, TypeOK
  <2> HIDE DEF t, p
  <2>5. Len(cargados) <= LargoMatriz
    BY <2>2, <2>3, <2>4, LargoAssumption
  <2> QED
    BY <1>1, <2>5 DEF TranspuestaPorBytes, MatrizFiel, InvCarga, InvMuestra
<1> QED
  BY <1>2, <1>3

\* Every number entered is stored inside the array at its position, and shown
\* at the transposed one, as far as its low byte goes (8.asm:137-141, 188-199).
THEOREM TranspuestaPorBytesTheorem == Spec => []TranspuestaPorBytes
  BY Inductivo, IInvTranspuesta, PTL

-----------------------------------------------------------------------------
(* The refinement of VisorDeMatriz *)

\* What the abstract viewer sees.
CargadosVistos == [i \in DOMAIN cargados |-> Bajo(cargados[i])]

SalidaVista ==
  [i \in DOMAIN salida |-> IF salida[i] = Salto THEN Salto ELSE Bajo(salida[i])]

FormaVista == IF pc = "corroborarFilasYColumnas" THEN <<0, 0>> ELSE Forma

VistosHechos ==
  /\ CargadosVistos \in Seq(0..Base - 1)
  /\ Len(CargadosVistos) = Len(cargados)
  /\ \A i \in 1..Len(cargados) : CargadosVistos[i] = Bajo(cargados[i])

LEMMA VistosTipo == TypeOK => VistosHechos
<1> SUFFICES ASSUME TypeOK PROVE VistosHechos
    OBVIOUS
<1>1. cargados \in Seq(Valores \cup {0})
  BY DEF TypeOK
<1> DEFINE k == Len(cargados)
<1>2. k \in Nat /\ DOMAIN cargados = 1..k
  BY <1>1
<1>3. ASSUME NEW i \in 1..k PROVE Bajo(cargados[i]) \in 0..Base - 1
  <2>1. cargados[i] \in Valores \cup {0}
    BY <1>1, ElementOfSeq, Zenon
  <2>2. \A x \in Valores \cup {0} : x \in Nat
    BY ValoresAssumption
  <2>3. 0 \in 0..Base - 1
    BY BaseAssumption
  <2> QED
    BY <2>1, <2>2, <2>3, Bytes, Zenon
<1> HIDE DEF k
<1>4. CargadosVistos = [i \in 1..k |-> Bajo(cargados[i])]
  BY <1>2 DEF CargadosVistos
<1> QED
  BY <1>2, <1>3, <1>4 DEF k, VistosHechos

LEMMA VistosTipoSiguiente == TypeOK' => VistosHechos'
  BY VistosTipo, PTL

LEMMA InitVisor == Init => Visor!Init
<1> SUFFICES ASSUME Init PROVE Visor!Init
    OBVIOUS
<1>1. cargados = <<>> /\ salida = <<>> /\ pc = "corroborarFilasYColumnas"
  BY DEF Init
<1>2. CargadosVistos = <<>> /\ SalidaVista = <<>> /\ FormaVista = <<0, 0>>
  BY <1>1 DEF CargadosVistos, SalidaVista, FormaVista
<1> QED
  BY <1>2 DEF Visor!Init, CargadosVistos, SalidaVista, FormaVista

LEMMA QuietoVisor ==
  ASSUME UNCHANGED <<cargados, salida>>, FormaVista' = FormaVista
  PROVE  UNCHANGED Visor!vars
  BY DEF Visor!vars, FormaVista

LEMMA CorroborarVisor ==
  IInv /\ CorroborarFilasYColumnas => [Visor!Next]_Visor!vars
<1> SUFFICES ASSUME IInv, CorroborarFilasYColumnas
             PROVE  [Visor!Next]_Visor!vars
    OBVIOUS
<1>1. /\ pc = "corroborarFilasYColumnas"
      /\ UNCHANGED <<cargados, salida>>
      /\ \/ pc' = "empieza" /\ LadoAceptado(cantidadFilasYColumnas')
         \/ UNCHANGED pc
      /\ cantidadFilasYColumnas' \in Lados \cup {0}
  BY DEF CorroborarFilasYColumnas, Scanf, Lectura, IInv, TypeOK
<1>2. CASE UNCHANGED pc
  BY <1>1, <1>2, QuietoVisor DEF FormaVista
<1>3. CASE pc' = "empieza" /\ LadoAceptado(cantidadFilasYColumnas')
  <2>1. cantidadFilasYColumnas' \in 2..MaxLado
    BY <1>1, <1>3, LadosAssumption, MaxLadoAssumption DEF LadoAceptado
  <2>2. FormaVista = <<0, 0>> /\ FormaVista' = Forma'
    BY <1>1, <1>3 DEF FormaVista
  <2>3. Forma' \in {<<n, n>> : n \in 2..MaxLado}
    BY <2>1 DEF Forma
  <2>4. Visor!Dimensionar
    BY <1>1, <2>2, <2>3 DEF Visor!Dimensionar, FormaVista
  <2> QED
    BY <2>4 DEF Visor!Next
<1> QED
  BY <1>1, <1>2, <1>3

LEMMA EmpiezaVisor == IInv /\ Empieza => Visor!Ingresar
<1> SUFFICES ASSUME IInv, Empieza PROVE Visor!Ingresar
    OBVIOUS
<1> DEFINE n == cantidadFilasYColumnas
           k == Len(cargados)
           v == valorIngresado'
           s == CargadosVistos
           t == CargadosVistos'
<1>1. /\ pc = "empieza" /\ pc' = "empieza"
      /\ k = Posicion /\ Posicion \in 0..n * n - 1
      /\ v \in Nat /\ v \in Valores \cup {0}
      /\ cargados' = Append(cargados, v)
      /\ UNCHANGED <<cantidadFilasYColumnas, salida>>
      /\ n \in 2..MaxLado
  BY EmpiezaHechos, Zenon
<1>2. TypeOK /\ TypeOK'
  BY EmpiezaIInv DEF IInv
<1>3. /\ Len(cargados') = k + 1 /\ cargados'[k + 1] = v
      /\ \A i \in 1..k : cargados'[i] = cargados[i]
      /\ k \in Nat
  <2>1. cargados \in Seq(Valores \cup {0})
    BY <1>2 DEF TypeOK
  <2> QED
    BY <1>1, <2>1, AppendProperties
<1>4. /\ s \in Seq(0..Base - 1) /\ Len(s) = k
      /\ \A i \in 1..k : s[i] = Bajo(cargados[i])
  BY <1>2, VistosTipo DEF VistosHechos
<1>5. /\ t \in Seq(0..Base - 1) /\ Len(t) = Len(cargados')
      /\ \A i \in 1..Len(cargados') : t[i] = Bajo(cargados'[i])
  BY <1>2, VistosTipoSiguiente DEF VistosHechos
<1>6. Bajo(v) \in 0..Base - 1
  <2>1. 0 \in 0..Base - 1
    BY BaseAssumption
  <2> QED
    BY <1>1, <2>1, Bytes, Zenon
<1>7. t = Append(s, Bajo(v))
  <2> HIDE DEF s, t, v, k
  <2>1. /\ Len(t) = k + 1 /\ t[k + 1] = Bajo(v)
        /\ \A i \in 1..k : t[i] = s[i]
    BY <1>3, <1>4, <1>5
  <2> QED
    BY <1>3, <1>4, <1>5, <1>6, <2>1, AppendProperties, SeqEqual
<1>8. FormaVista = <<n, n>> /\ FormaVista' = FormaVista
  BY <1>1 DEF FormaVista, Forma
<1>9. Len(s) < Visor!Elementos(FormaVista)
  <2>1. n * n \in Int
    BY <1>1, MaxLadoAssumption
  <2> QED
    BY <1>1, <1>4, <1>8, <2>1 DEF Visor!Elementos
<1> QED
  BY <1>1, <1>6, <1>7, <1>8, <1>9 DEF Visor!Ingresar, CargadosVistos, FormaVista

\* A number on the screen is the byte of the element, under the upper part of
\* the last one.
LEMMA NumeroHechos ==
  ASSUME IInv, pc = "empiezaMuestra",
         NEW r \in 0..cantidadFilasYColumnas - 1,
         NEW s \in 0..cantidadFilasYColumnas - 1
  PROVE  /\ Numero(r, s) \in Nat
         /\ Bajo(Numero(r, s)) = CargadosVistos[FuenteTranspuesta(Forma, r, s)]
<1> DEFINE n == cantidadFilasYColumnas
           p == s * n + r
           k == Len(cargados)
<1>0. TypeOK /\ InvCarga
  BY DEF IInv
<1>1. n \in Nat \ {0} /\ n \in Nat
  BY <1>0, MaxLadoAssumption DEF TypeOK
<1>2. p \in 0..n * n - 1
  BY <1>1, CuatroVale, Enteros!CasilleroAdentro, Zenon
<1>3. k = n * n /\ k \in Nat
  BY <1>0 DEF InvCarga, TypeOK
<1>4. FuenteTranspuesta(Forma, r, s) = p + 1
  BY DEF FuenteTranspuesta, Forma
<1> HIDE DEF p
<1>5. p + 1 \in 1..k /\ k \in 1..k
  <2> HIDE DEF k
  <2> QED
    BY <1>2, <1>3
<1>6. /\ cargados[p + 1] \in Nat /\ cargados[k] \in Nat
      /\ CargadosVistos[p + 1] = Bajo(cargados[p + 1])
  <2>1. cargados \in Seq(Valores \cup {0})
    BY <1>0 DEF TypeOK
  <2>2. cargados[p + 1] \in Valores \cup {0} /\ cargados[k] \in Valores \cup {0}
    BY <1>5, <2>1, ElementOfSeq, Zenon
  <2>3. \A x \in Valores \cup {0} : x \in Nat
    BY ValoresAssumption
  <2>4. CargadosVistos[p + 1] = Bajo(cargados[p + 1])
    BY <1>0, <1>5, VistosTipo DEF VistosHechos
  <2> QED
    BY <2>2, <2>3, <2>4, Zenon
<1> DEFINE a == Alto(cargados[k])
           b == Bajo(cargados[p + 1])
<1>7. /\ b \in 0..Base - 1 /\ a \in Nat
  <2>1. 0 \in 0..Base - 1
    BY BaseAssumption
  <2> QED
    BY <1>6, <2>1, Bytes, Zenon
<1>8. Alto(cargados[k]) + b \in Nat /\ Bajo(Alto(cargados[k]) + b) = b
  BY <1>6, <1>7, Bytes, Zenon
<1>9. Numero(r, s) = a + b
  <2>1. Numero(r, s) = b + a
    BY <1>4 DEF Numero
  <2> HIDE DEF a, b
  <2> QED
    BY <1>7, <2>1, BaseAssumption
<1> QED
  BY <1>4, <1>6, <1>8, <1>9, Zenon

EsTexto ==
  LET texto == Visor!Texto(FormaVista, CargadosVistos)
  IN  /\ Len(salida) \in Nat
      /\ Len(salida) <= Len(texto) /\ Len(texto) \in Nat
      /\ SalidaVista = SubSeq(texto, 1, Len(salida))

Mostrando == IInv /\ pc = "empiezaMuestra"

\* What is on the screen, seen in low bytes, is so much of the abstract text.
LEMMA SalidaEsTexto == Mostrando => EsTexto
<1> SUFFICES ASSUME IInv, pc = "empiezaMuestra" PROVE EsTexto
    BY DEF Mostrando
<1> DEFINE n == cantidadFilasYColumnas
           l == Len(salida)
           g(i) == IF i % (n + 1) = 0 THEN Salto
                   ELSE CargadosVistos[FuenteTranspuesta(Forma, (i - 1) \div (n + 1),
                                                         (i - 1) % (n + 1))]
<1>0. TypeOK /\ Recorrido /\ InvMuestra
  BY DEF IInv
<1>1. n \in Nat \ {0} /\ n \in Nat /\ n \in Int
  BY <1>0, MaxLadoAssumption DEF TypeOK
<1>2. Visor!Texto(FormaVista, CargadosVistos) = [i \in 1..n * (n + 1) |-> g(i)]
  <2>1. FormaVista = Forma /\ Forma = <<n, n>>
    BY DEF FormaVista, Forma
  <2>2. (n * n) \div n = n
    BY <1>1, CuatroVale, Enteros!DivisionUnica
  <2>3. Visor!Elementos(Forma) \div Forma[1] = n /\ Forma[1] = n
    BY <2>1, <2>2 DEF Visor!Elementos
  <2> QED
    BY <2>1, <2>3, Zenon DEF Visor!Texto
<1> DEFINE texto == Visor!Texto(FormaVista, CargadosVistos)
           largo == n * (n + 1)
           S == Nat \cup {Salto}
<1>3. l \in Nat /\ largo \in Nat /\ l <= largo
  <2> DEFINE f == contadorFilas
             c == contadorColumnas
             x == f * (n + 1)
  <2>1. l = x + c /\ f \in 0..n /\ c \in 0..n - 1 /\ (f = n => c = 0) /\ l \in Nat
    BY <1>0, <1>1 DEF InvMuestra, Recorrido, TypeOK
  <2>2. largo \in Nat
    <3>1. \A a, b \in Nat : a * b \in Nat
      OBVIOUS
    <3>2. n + 1 \in Nat
      BY <1>1
    <3> QED
      BY <1>1, <3>1, <3>2
  <2>3. CASE f = n
    <3>1. l = largo + 0
      BY <2>1, <2>3
    <3> HIDE DEF largo, l
    <3> QED
      BY <2>1, <2>2, <3>1
  <2>4. CASE f \in 0..n - 1
    <3>1. n + 1 \in Nat \ {0} /\ c \in 0..(n + 1) - 1
      BY <1>1, <2>1
    <3>2. x + c \in 0..largo - 1
      BY <1>1, <2>4, <3>1, CuatroVale, Enteros!CasilleroAdentro, Zenon
    <3> HIDE DEF largo, l, x
    <3> QED
      BY <2>1, <2>2, <3>2
  <2>5. f = n \/ f \in 0..n - 1
    BY <1>1, <2>1
  <2> QED
    BY <2>1, <2>2, <2>3, <2>4, <2>5, Zenon
<1>4. /\ DOMAIN texto = 1..largo
      /\ \A i \in 1..largo : texto[i] = g(i)
  BY <1>2
<1> HIDE DEF texto
<1>5. Len(texto) = largo
  <2>1. texto = [i \in 1..largo |-> g(i)]
    BY <1>2 DEF texto
  <2> HIDE DEF largo, g
  <2> QED
    BY <1>3, <2>1
<1>6. DOMAIN salida = 1..l
  BY <1>0 DEF TypeOK
<1>7. ASSUME NEW i \in 1..l PROVE SalidaVista[i] = g(i) /\ g(i) \in S
  <2>1. salida[i] = Mostrado(i)
    BY <1>0, MuestraFielDicha, Zenon DEF InvMuestra
  <2>2. SalidaVista[i] = IF salida[i] = Salto THEN Salto ELSE Bajo(salida[i])
    BY <1>6, Zenon DEF SalidaVista
  <2>3. i \in 1..largo
    <3> HIDE DEF l, largo
    <3> QED
      BY <1>3
  <2>4. CASE i % (n + 1) = 0
    BY <2>1, <2>2, <2>4, Zenon DEF Mostrado
  <2>5. CASE i % (n + 1) # 0
    <3> DEFINE r == (i - 1) \div (n + 1)
               t == (i - 1) % (n + 1)
               q == CargadosVistos[FuenteTranspuesta(Forma, r, t)]
    <3>1. r \in 0..n - 1 /\ t \in 0..n - 1
      BY <1>1, <2>3, <2>5, CuatroVale, Enteros!LugarDeTexto, Zenon
    <3>2. salida[i] = Numero(r, t)
      BY <2>1, <2>5, Zenon DEF Mostrado
    <3>3. Numero(r, t) \in Nat /\ Bajo(Numero(r, t)) = q
      BY <3>1, NumeroHechos, Zenon
    <3>4. \A z \in Nat : z # Salto
      BY DEF Salto
    <3>5. SalidaVista[i] = q
      BY <2>2, <3>2, <3>3, <3>4, Zenon
    <3>6. q \in Nat
      <4>1. Base \in Nat \ {0}
        BY BaseAssumption
      <4>2. \A z \in Nat, b \in Nat \ {0} : z % b \in Nat
        OBVIOUS
      <4> QED
        BY <3>3, <4>1, <4>2, Zenon DEF Bajo
    <3>7. g(i) = q
      BY <2>5, Zenon
    <3> QED
      BY <3>5, <3>6, <3>7, Zenon
  <2> QED
    BY <2>4, <2>5
<1>8. SalidaVista \in Seq(S) /\ Len(SalidaVista) = l
  <2>1. SalidaVista = [i \in 1..l |-> SalidaVista[i]]
    BY <1>6, Zenon DEF SalidaVista
  <2>2. \A i \in 1..l : SalidaVista[i] \in S
    BY <1>7, Zenon
  <2> HIDE DEF l, S
  <2> QED
    BY <1>3, <2>1, <2>2
<1>9. ASSUME NEW i \in 1..l PROVE texto[i] = g(i) /\ texto[i] \in S
  <2>1. i \in 1..largo
    <3> HIDE DEF l, largo
    <3> QED
      BY <1>3
  <2> QED
    BY <1>4, <1>7, <2>1, Zenon
<1> DEFINE u == SubSeq(texto, 1, l)
<1> HIDE DEF l, largo, S, g
<1>10. /\ u \in Seq(S)
       /\ Len(u) = IF 1 <= l THEN l - 1 + 1 ELSE 0
       /\ \A i \in 1..l - 1 + 1 : u[i] = texto[1 + i - 1]
  BY <1>3, <1>9, SubSeqProperties
<1> HIDE DEF u
<1>11. Len(u) = l /\ \A i \in 1..l : u[i] = texto[i]
  BY <1>3, <1>10
<1>12. SalidaVista = u
  BY <1>7, <1>8, <1>9, <1>10, <1>11, SeqEqual
<1> QED
  BY <1>3, <1>5, <1>12 DEF EsTexto, texto, u, l

LEMMA SalidaEsTextoSiguiente == Mostrando' => EsTexto'
  BY SalidaEsTexto, PTL

LEMMA EmpiezaMuestraVisor == IInv /\ EmpiezaMuestra => Visor!Mostrar
<1> SUFFICES ASSUME IInv, EmpiezaMuestra PROVE Visor!Mostrar
    OBVIOUS
<1> DEFINE n == cantidadFilasYColumnas
<1>1. /\ pc = "empiezaMuestra" /\ pc' = "empiezaMuestra"
      /\ n \in 2..MaxLado
      /\ UNCHANGED <<cantidadFilasYColumnas, cargados>>
      /\ salida' = salida \o (IF UltimaColumna THEN <<valorIngresado', Salto>>
                                               ELSE <<valorIngresado'>>)
      /\ valorIngresado' \in Nat
  BY EmpiezaMuestraHechos, Zenon
<1>2. /\ FormaVista = <<n, n>> /\ FormaVista # <<0, 0>>
      /\ FormaVista' = FormaVista /\ CargadosVistos' = CargadosVistos
  BY <1>1, MaxLadoAssumption DEF FormaVista, Forma, CargadosVistos
<1>3. Len(CargadosVistos) = Visor!Elementos(FormaVista)
  <2>1. Len(CargadosVistos) = Len(cargados)
    BY VistosTipo DEF IInv, VistosHechos
  <2> QED
    BY <1>1, <1>2, <2>1 DEF IInv, InvCarga, Visor!Elementos
<1> DEFINE texto == Visor!Texto(FormaVista, CargadosVistos)
<1>4. /\ Len(salida') \in Nat /\ Len(texto) \in Nat
      /\ Len(salida') <= Len(texto)
      /\ SalidaVista' = SubSeq(texto, 1, Len(salida'))
  <2>1. EsTexto'
    BY <1>1, EmpiezaMuestraIInv, SalidaEsTextoSiguiente DEF Mostrando
  <2>2. Visor!Texto(FormaVista, CargadosVistos)' = texto
    BY <1>2 DEF Visor!Texto
  <2> HIDE DEF texto
  <2> QED
    BY <2>1, <2>2 DEF EsTexto
<1>5. Len(SalidaVista) = Len(salida) /\ Len(salida) \in Nat
  <2>1. salida \in Seq(Nat \cup {Salto})
    BY DEF IInv, TypeOK
  <2> QED
    BY <2>1 DEF SalidaVista
<1>6. Len(salida') >= Len(salida) + 1
  <2>1. /\ salida \in Seq(Nat \cup {Salto}) /\ Salto \in Nat \cup {Salto}
        /\ valorIngresado' \in Nat \cup {Salto}
    BY <1>1 DEF IInv, TypeOK
  <2>2. /\ Len(salida \o <<valorIngresado'>>) = Len(salida) + 1
        /\ Len(salida \o <<valorIngresado', Salto>>) = Len(salida) + 2
    BY <2>1, CuatroVale, Enteros!TextosNuevos
  <2>3. Len(salida') = Len(salida) + 1 \/ Len(salida') = Len(salida) + 2
    BY <1>1, <2>2
  <2> QED
    BY <1>5, <2>3
<1>7. Len(salida') \in Len(SalidaVista) + 1..Len(texto)
  <2> HIDE DEF texto
  <2> QED
    BY <1>4, <1>5, <1>6
<1> QED
  BY <1>1, <1>2, <1>3, <1>4, <1>7
     DEF Visor!Mostrar, FormaVista, CargadosVistos, SalidaVista

LEMMA NextVisor == IInv /\ [Next]_vars => [Visor!Next]_Visor!vars
<1> SUFFICES ASSUME IInv, [Next]_vars PROVE [Visor!Next]_Visor!vars
    OBVIOUS
<1>1. CASE MostrarMatriz \/ SalirDelPrograma \/ UNCHANGED vars
  BY <1>1, QuietoVisor DEF MostrarMatriz, SalirDelPrograma, vars, FormaVista, Forma
<1> QED
  BY <1>1, CorroborarVisor, EmpiezaVisor, EmpiezaMuestraVisor
     DEF Next, Acabado, Visor!Next

\* Seen in low bytes, the program enters a matrix and shows its transpose.
THEOREM ImplementaVisorTheorem == Spec => ImplementaVisor
  BY InitVisor, NextVisor, Inductivo, PTL DEF Spec, ImplementaVisor, Visor!Spec
-----------------------------------------------------------------------------
(* The loops end *)

LEMMA PosicionHechos ==
  ASSUME IInv, pc # "corroborarFilasYColumnas"
  PROVE  LET n == cantidadFilasYColumnas
         IN  /\ n \in 2..MaxLado /\ n \in Nat /\ n * n \in Nat
             /\ contadorFilas \in 0..n /\ contadorColumnas \in 0..n - 1
             /\ Posicion \in Nat /\ Posicion <= n * n
             /\ contadorFilas = n => Posicion = n * n
<1> DEFINE n == cantidadFilasYColumnas
<1>1. /\ n \in 2..MaxLado /\ n \in Nat
      /\ contadorFilas \in 0..n /\ contadorColumnas \in 0..n - 1
      /\ contadorFilas = n => contadorColumnas = 0
  BY MaxLadoAssumption DEF IInv, TypeOK, Recorrido
<1>2. \A m \in Nat : \A f \in 0..m : \A c \in 0..m - 1 :
        /\ m * m \in Nat /\ f * m + c \in Nat
        /\ (f = m => c = 0) => f * m + c <= m * m
        /\ f = m /\ c = 0 => f * m + c = m * m
  <2> SUFFICES ASSUME NEW m \in Nat, NEW f \in 0..m, NEW c \in 0..m - 1
               PROVE  /\ m * m \in Nat /\ f * m + c \in Nat
                      /\ (f = m => c = 0) => f * m + c <= m * m
                      /\ f = m /\ c = 0 => f * m + c = m * m
    OBVIOUS
  <2>1. \A a, b \in Nat : a * b \in Nat
    OBVIOUS
  <2>2. m * m \in Nat /\ f * m \in Nat
    BY <2>1
  <2>3. CASE f = m
    BY <2>2, <2>3
  <2>4. CASE f < m
    <3> DEFINE d == m - f - 1
    <3>1. d \in Nat /\ m = f + d + 1
      BY <2>4
    <3> HIDE DEF d
    <3>2. m * m = (f + d + 1) * m /\ f \in Nat
      BY <3>1
    <3>3. (f + d + 1) * m = f * m + d * m + m /\ d * m \in Nat
      BY <2>1, <3>1, <3>2
    <3> QED
      BY <2>2, <2>4, <3>2, <3>3
  <2> QED
    BY <2>3, <2>4
<1>3. Posicion = contadorFilas * n + contadorColumnas
  BY DEF Posicion
<1> HIDE DEF n
<1> QED
  BY <1>1, <1>2, <1>3 DEF n

LEMMA PasosDecrecen ==
  IInv /\ [Next]_vars =>
    [pc # "corroborarFilasYColumnas" => PasosQueFaltan' < PasosQueFaltan]_vars
<1> SUFFICES ASSUME IInv, Next, ~Acabado, pc # "corroborarFilasYColumnas"
             PROVE  PasosQueFaltan' < PasosQueFaltan
    BY DEF Acabado, Next
<1> DEFINE n == cantidadFilasYColumnas
           t == n * n
           p == Posicion
<1>0. /\ n \in Nat \ {0} /\ t \in Nat /\ p \in Nat /\ p <= t
      /\ contadorFilas \in 0..n /\ contadorColumnas \in 0..n - 1
      /\ contadorFilas = n => p = t
  BY PosicionHechos
<1>1. CASE Empieza
  <2>1. pc = "empieza" /\ pc' = "empieza" /\ Posicion' = p + 1
        /\ cantidadFilasYColumnas' = n
    BY <1>1, EmpiezaHechos DEF Empieza
  <2>2. PasosQueFaltan = 2 * t + 2 - p /\ PasosQueFaltan' = 2 * t + 2 - (p + 1)
    BY <2>1 DEF PasosQueFaltan
  <2> HIDE DEF t, p
  <2> QED
    BY <1>0, <2>2
<1>2. CASE MostrarMatriz
  <2>1. /\ pc = "empieza" /\ pc' = "empiezaMuestra" /\ contadorFilas > n - 1
        /\ contadorFilas' = 0 /\ contadorColumnas' = 0
        /\ cantidadFilasYColumnas' = n
    BY <1>2 DEF MostrarMatriz
  <2>2. p = t
    BY <1>0, <2>1
  <2>3. Posicion' = 0
    BY <1>0, <2>1 DEF Posicion
  <2>4. PasosQueFaltan = 2 * t + 2 - p /\ PasosQueFaltan' = t + 1 - 0
    BY <2>1, <2>3 DEF PasosQueFaltan
  <2> HIDE DEF t, p
  <2> QED
    BY <1>0, <2>2, <2>4
<1>3. CASE EmpiezaMuestra
  <2>1. /\ pc = "empiezaMuestra" /\ pc' = "empiezaMuestra" /\ Avanzar
        /\ contadorFilas \in 0..n - 1
        /\ cantidadFilasYColumnas' = n
    BY <1>0, <1>3 DEF EmpiezaMuestra
  <2>2. Posicion' = p + 1
    <3>1. contadorFilas' * n + contadorColumnas' =
            contadorFilas * n + contadorColumnas + 1
      BY <1>0, <2>1, AvanzarHechos
    <3> QED
      BY <2>1, <3>1 DEF Posicion
  <2>3. PasosQueFaltan = t + 1 - p /\ PasosQueFaltan' = t + 1 - (p + 1)
    BY <2>1, <2>2 DEF PasosQueFaltan
  <2> HIDE DEF t, p
  <2> QED
    BY <1>0, <2>3
<1>4. CASE SalirDelPrograma
  <2>1. pc = "empiezaMuestra" /\ pc' = "fin"
    BY <1>4 DEF SalirDelPrograma
  <2>2. PasosQueFaltan = t + 1 - p /\ PasosQueFaltan' = 0
    BY <2>1 DEF PasosQueFaltan
  <2> HIDE DEF t, p
  <2> QED
    BY <1>0, <2>2
<1> QED
  BY <1>1, <1>2, <1>3, <1>4 DEF Next, CorroborarFilasYColumnas

LEMMA PasosNoNegativos == IInv => PasosQueFaltan >= 0
<1> SUFFICES ASSUME IInv PROVE PasosQueFaltan >= 0
    OBVIOUS
<1> DEFINE t == cantidadFilasYColumnas * cantidadFilasYColumnas
           p == Posicion
<1>1. CASE pc \in {"empieza", "empiezaMuestra"}
  <2>1. t \in Nat /\ p \in Nat /\ p <= t
    BY <1>1, PosicionHechos
  <2>2. PasosQueFaltan = 2 * t + 2 - p \/ PasosQueFaltan = t + 1 - p
    BY <1>1 DEF PasosQueFaltan
  <2> HIDE DEF t, p
  <2> QED
    BY <2>1, <2>2
<1>2. CASE pc \notin {"empieza", "empiezaMuestra"}
  BY <1>2 DEF PasosQueFaltan
<1> QED
  BY <1>1, <1>2

\* Once its size is accepted, a matrix of n rows takes at most 2 * n * n + 2
\* steps: each makes PasosQueFaltan smaller, whatever is typed, and it never is
\* negative.
THEOREM PasosAcotadosTheorem == Spec => PasosAcotados
<1> DEFINE NoNegativo == PasosQueFaltan >= 0
<1>1. IInv => NoNegativo
  BY PasosNoNegativos
<1>2. IInv /\ NoNegativo' /\ [Next]_vars =>
        [pc # "corroborarFilasYColumnas" =>
           PasosQueFaltan' < PasosQueFaltan /\ PasosQueFaltan' >= 0]_vars
  BY PasosDecrecen
<1> HIDE DEF NoNegativo
<1> QED
  BY <1>1, <1>2, Inductivo, PTL DEF Spec, PasosAcotados
=============================================================================
