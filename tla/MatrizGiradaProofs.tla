------------------------- MODULE MatrizGiradaProofs -------------------------
(* Proofs about program 7.  The inductive invariant IInv says where the two  *)
(* loops are, counted in elements stored and in texts printed, that what is  *)
(* stored is what was entered, that nothing changes the upper part of        *)
(* valorIngresado after the last element, and that a number of columns that  *)
(* the prompts still have is one they refuse.                                *)
EXTENDS MatrizGirada, SequenceTheorems, TLAPS

\* The lemmas about division, none of which depends on the size of a word.
Enteros == INSTANCE DwordProofs WITH WordSize <- 4

-----------------------------------------------------------------------------
(* The inductive invariant *)

\* At the prompts no loop has begun, and a number of columns is not accepted.
InvPedidos ==
  pc \in Pedidos =>
    /\ contadorFilas = 0 /\ contadorColumnas = 0
    /\ cargados = <<>> /\ salida = <<>>
    /\ cantidadColumnas \notin 2..MaxLado

\* The position the loops are at, or one past the last; the second one goes
\* through the columns from the last to the first, and ends at column -1.
Recorrido ==
  /\ pc = "empieza" =>
       /\ contadorFilas <= cantidadFilas
       /\ contadorColumnas \in 0..cantidadColumnas - 1
       /\ contadorFilas = cantidadFilas => contadorColumnas = 0
  /\ pc \in {"empiezaMuestra", "fin"} =>
       /\ contadorFilas <= cantidadFilas - 1
       /\ contadorColumnas <= cantidadColumnas - 1
       /\ contadorColumnas < 0 => contadorFilas = 0

\* How much has been stored, and what.
InvCarga ==
  /\ pc = "empieza" => Len(cargados) = Posicion
  /\ pc \in {"empiezaMuestra", "fin"} =>
       Len(cargados) = cantidadFilas * cantidadColumnas
  /\ \A k \in 1..Len(cargados) : matriz[k - 1] = Bajo(cargados[k])

\* What is in valorIngresado when it is not read.
InvUltimo ==
  /\ pc \in Pedidos \cup {"empieza"} => valorIngresado \in Valores \cup {0}
  /\ Len(cargados) > 0 => Alto(valorIngresado) = Alto(cargados[Len(cargados)])

\* The row of the screen that the showing loop is at.
Renglon == cantidadColumnas - 1 - contadorColumnas

\* How much has been printed, and what.
InvMuestra ==
  /\ pc = "empieza" => salida = <<>>
  /\ pc = "empiezaMuestra" =>
       Len(salida) = Renglon * (cantidadFilas + 1) + contadorFilas
  /\ MuestraFiel

IInv ==
  TypeOK /\ InvPedidos /\ Recorrido /\ InvCarga /\ InvUltimo /\ InvMuestra

-----------------------------------------------------------------------------
(* Lemmas *)

\* What the lemmas of Enteros assume.
LEMMA CuatroVale == 4 \in Nat /\ 4 >= 4 /\ 4 % 2 = 0
  OBVIOUS

\* A byte put in place of the low byte of a dword.
LEMMA Bytes ==
  ASSUME NEW v \in Nat, NEW b \in 0..Base - 1
  PROVE  /\ Bajo(v) \in 0..Base - 1
         /\ Alto(v) \in Nat
         /\ Alto(v) + b \in Nat
         /\ Bajo(Alto(v) + b) = b
         /\ Alto(Alto(v) + b) = Alto(v)
<1>1. v % Base \in 0..Base - 1
  BY BaseAssumption
<1>2. /\ v - (v % Base) \in Nat
      /\ (v - (v % Base) + b) % Base = b
      /\ v - (v % Base) + b - ((v - (v % Base) + b) % Base) = v - (v % Base)
  BY BaseAssumption, CuatroVale, Enteros!RestoReemplazado, Zenon
<1>3. Base \in Nat
  BY BaseAssumption
<1> QED
  BY <1>1, <1>2, <1>3 DEF Bajo, Alto

LEMMA CeroEsByte == 0 \in 0..Base - 1 /\ 0..Base - 1 \subseteq Nat
  BY BaseAssumption

LEMMA ValorEsNatural == \A x \in Valores \cup {0} : x \in Nat
  BY ValoresAssumption

\* A matrix with dimensions that are accepted fits.
LEMMA Producto ==
  ASSUME NEW h \in 2..MaxLado, NEW n \in 2..MaxLado
  PROVE  h * n \in Nat /\ h * n <= LargoMatriz
<1>1. \A a, b, c \in Nat : a * b \in Nat
                           /\ (a <= b => a * c <= b * c /\ c * a <= c * b)
  <2>1. ASSUME NEW a \in Nat, NEW b \in Nat, NEW c \in Nat, a <= b
        PROVE  a * c <= b * c /\ c * a <= c * b
    BY <2>1
  <2> QED
    BY <2>1
<1>2. /\ h \in Nat /\ n \in Nat /\ MaxLado \in Nat
      /\ h <= MaxLado /\ n <= MaxLado
  BY MaxLadoAssumption
<1>3. /\ h * n \in Nat /\ h * n <= MaxLado * n
      /\ MaxLado * n \in Nat /\ MaxLado * n <= MaxLado * MaxLado
      /\ MaxLado * MaxLado \in Nat
  BY <1>1, <1>2
<1> QED
  BY <1>3, LargoAssumption

-----------------------------------------------------------------------------
(* IInv is inductive *)

LEMMA InitIInv == Init => IInv
<1> SUFFICES ASSUME Init PROVE IInv
    OBVIOUS
<1>1. /\ pc = "corroborarFilas"
      /\ cantidadFilas = 0 /\ cantidadColumnas = 0
      /\ contadorFilas = 0 /\ contadorColumnas = 0 /\ valorIngresado = 0
      /\ matriz = [i \in 0..LargoMatriz - 1 |-> 0]
      /\ entrada = "viva" /\ salida = <<>> /\ cargados = <<>>
  BY DEF Init
<1>2. salida \in Seq(Nat \cup {Salto}) /\ cargados \in Seq(Valores \cup {0})
  BY <1>1
<1>3. Len(salida) = 0 /\ Len(cargados) = 0
  BY <1>1
<1>4. TypeOK
  BY <1>1, <1>2, BaseAssumption, MaxLadoAssumption DEF TypeOK
<1>5. InvPedidos /\ Recorrido /\ InvCarga /\ InvUltimo
  BY <1>1, <1>3, MaxLadoAssumption
     DEF InvPedidos, Recorrido, InvCarga, InvUltimo
<1>6. InvMuestra
  BY <1>1, <1>3 DEF InvMuestra, MuestraFiel
<1> QED
  BY <1>4, <1>5, <1>6 DEF IInv

LEMMA CorroborarFilasIInv == IInv /\ CorroborarFilas => IInv'
<1> SUFFICES ASSUME IInv, CorroborarFilas PROVE IInv'
    OBVIOUS
<1>0. TypeOK /\ InvPedidos /\ InvCarga /\ InvUltimo
  BY DEF IInv
<1>1. /\ pc = "corroborarFilas"
      /\ pc' = IF cantidadFilas' > 1 /\ cantidadFilas' <= MaxLado
               THEN "corroborarColumnas" ELSE "corroborarFilas"
      /\ UNCHANGED <<cantidadColumnas, contadorFilas, contadorColumnas,
                     valorIngresado, matriz, salida, cargados>>
  BY DEF CorroborarFilas, contadores
<1>2. cantidadFilas' \in Lados \cup {0} /\ entrada' \in {"viva", "trabada"}
  BY <1>0 DEF CorroborarFilas, Scanf, Lectura, TypeOK
<1>3. pc' = "corroborarColumnas" => cantidadFilas' \in 2..MaxLado
  BY <1>1, <1>2, LadosAssumption, MaxLadoAssumption
<1>4. TypeOK'
  BY <1>0, <1>1, <1>2, <1>3 DEF TypeOK
<1>5. cargados = <<>> /\ salida = <<>> /\ Len(cargados) = 0 /\ Len(salida) = 0
  BY <1>0, <1>1 DEF InvPedidos, Pedidos
<1>6. pc' \in Pedidos /\ pc' \notin {"empieza", "empiezaMuestra", "fin"}
  BY <1>1 DEF Pedidos
<1>7. InvPedidos' /\ Recorrido' /\ InvUltimo'
  BY <1>0, <1>1, <1>5, <1>6 DEF InvPedidos, Recorrido, InvUltimo, Pedidos
<1>8. InvCarga' /\ InvMuestra'
  BY <1>1, <1>5, <1>6 DEF InvCarga, InvMuestra, MuestraFiel
<1> QED
  BY <1>4, <1>7, <1>8 DEF IInv

\* The three ways out of the prompt of the columns.
LEMMA CorroborarColumnasHechos ==
  ASSUME TypeOK, CorroborarColumnas
  PROVE  /\ pc = "corroborarColumnas"
         /\ \/ pc' = "corroborarColumnas" /\ cantidadColumnas' <= 1
               /\ UNCHANGED contadorColumnas
            \/ pc' = "corroborarFilas" /\ cantidadColumnas' > MaxLado
               /\ contadorColumnas' = 0
            \/ pc' = "empieza" /\ cantidadColumnas' \in 2..MaxLado
               /\ contadorColumnas' = 0
         /\ cantidadColumnas' \in Lados \cup {0}
         /\ entrada' \in {"viva", "trabada"}
         /\ UNCHANGED <<cantidadFilas, contadorFilas, valorIngresado, matriz,
                        salida, cargados>>
<1>1. /\ cantidadColumnas' \in Lados \cup {0}
      /\ entrada' \in {"viva", "trabada"}
  BY DEF CorroborarColumnas, Scanf, Lectura, TypeOK
<1>2. cantidadColumnas' \in Int
  BY <1>1, LadosAssumption
<1>3. \/ cantidadColumnas' <= 1 /\ UNCHANGED <<pc, contadorColumnas>>
      \/ /\ cantidadColumnas' > 1 /\ contadorColumnas' = 0
         /\ pc' = IF cantidadColumnas' > MaxLado
                  THEN "corroborarFilas" ELSE "empieza"
  BY DEF CorroborarColumnas, DemasiadasColumnas
<1>4. /\ pc = "corroborarColumnas"
      /\ UNCHANGED <<cantidadFilas, contadorFilas, valorIngresado, matriz,
                     salida, cargados>>
  BY DEF CorroborarColumnas
<1> QED
  BY <1>1, <1>2, <1>3, <1>4, MaxLadoAssumption

LEMMA CorroborarColumnasIInv == IInv /\ CorroborarColumnas => IInv'
<1> SUFFICES ASSUME IInv, CorroborarColumnas PROVE IInv'
    OBVIOUS
<1>0. TypeOK /\ InvPedidos /\ InvCarga /\ InvUltimo
  BY DEF IInv
<1>1. /\ pc = "corroborarColumnas"
      /\ \/ pc' = "corroborarColumnas" /\ cantidadColumnas' <= 1
            /\ UNCHANGED contadorColumnas
         \/ pc' = "corroborarFilas" /\ cantidadColumnas' > MaxLado
            /\ contadorColumnas' = 0
         \/ pc' = "empieza" /\ cantidadColumnas' \in 2..MaxLado
            /\ contadorColumnas' = 0
      /\ cantidadColumnas' \in Lados \cup {0}
      /\ entrada' \in {"viva", "trabada"}
      /\ UNCHANGED <<cantidadFilas, contadorFilas, valorIngresado, matriz,
                     salida, cargados>>
  BY <1>0, CorroborarColumnasHechos, Zenon
<1>2. /\ contadorFilas = 0 /\ contadorColumnas = 0 /\ contadorColumnas' = 0
      /\ cargados = <<>> /\ salida = <<>>
      /\ Len(cargados) = 0 /\ Len(salida) = 0
  BY <1>0, <1>1 DEF InvPedidos, Pedidos
<1>3. cantidadFilas \in 2..MaxLado /\ cantidadColumnas' \in Int
  BY <1>0, <1>1, LadosAssumption DEF TypeOK
<1>4. TypeOK'
  BY <1>0, <1>1, <1>2, <1>3, MaxLadoAssumption DEF TypeOK
<1>5. pc' \in Pedidos => cantidadColumnas' \notin 2..MaxLado
  BY <1>1, <1>3, MaxLadoAssumption DEF Pedidos
<1>6. InvPedidos' /\ InvUltimo'
  BY <1>0, <1>1, <1>2, <1>5 DEF InvPedidos, InvUltimo, Pedidos
<1>7. Recorrido'
  <2>1. /\ pc' \notin {"empiezaMuestra", "fin"}
        /\ contadorFilas' = 0 /\ cantidadFilas' = cantidadFilas
        /\ pc' = "empieza" => cantidadColumnas' \in 2..MaxLado
    BY <1>1, <1>2
  <2>2. pc' # "empiezaMuestra" /\ pc' # "fin"
    BY <1>1
  <2>3. contadorFilas' <= cantidadFilas' /\ contadorColumnas' = 0
    BY <1>2, <1>3, <2>1
  <2>4. pc' = "empieza" => 0 \in 0..cantidadColumnas' - 1
    BY <2>1, MaxLadoAssumption
  <2> QED
    BY <2>2, <2>3, <2>4 DEF Recorrido
<1>8. pc' = "empieza" => Posicion' = 0
  <2>1. \A x \in Int : 0 * x + 0 = 0
    OBVIOUS
  <2> QED
    BY <1>1, <1>2, <1>3, <2>1 DEF Posicion
<1>9. InvCarga' /\ InvMuestra'
  BY <1>1, <1>2, <1>8 DEF InvCarga, InvMuestra, MuestraFiel
<1> QED
  BY <1>4, <1>6, <1>7, <1>9 DEF IInv

\* Where the loading loop is and what it does with the number read.
LEMMA EmpiezaHechos ==
  ASSUME IInv, Empieza
  PROVE  /\ pc = "empieza" /\ pc' = "empieza"
         /\ cantidadFilas \in 2..MaxLado /\ cantidadColumnas \in 2..MaxLado
         /\ Len(cargados) = Posicion
         /\ Posicion \in 0..cantidadFilas * cantidadColumnas - 1
         /\ Posicion \in 0..LargoMatriz - 1
         /\ Posicion' = Posicion + 1
         /\ valorIngresado' \in Valores \cup {0} /\ valorIngresado' \in Nat
         /\ entrada' \in {"viva", "trabada"}
         /\ cargados' = Append(cargados, valorIngresado')
         /\ matriz' = [matriz EXCEPT ![Posicion] = Bajo(valorIngresado')]
         /\ contadorFilas' \in 0..cantidadFilas
         /\ contadorColumnas' \in 0..cantidadColumnas - 1
         /\ contadorFilas' = cantidadFilas => contadorColumnas' = 0
         /\ UNCHANGED <<cantidadFilas, cantidadColumnas, salida>>
<1> DEFINE h == cantidadFilas
           n == cantidadColumnas
           f == contadorFilas
           c == contadorColumnas
<1>0. TypeOK /\ Recorrido /\ InvCarga /\ InvUltimo
  BY DEF IInv
<1>1. /\ pc = "empieza" /\ pc' = "empieza" /\ f <= h - 1
      /\ LeerValorIngresado
      /\ matriz' = [matriz EXCEPT ![Posicion] = Bajo(valorIngresado')]
      /\ cargados' = Append(cargados, valorIngresado')
      /\ UNCHANGED <<cantidadFilas, cantidadColumnas, salida>>
  BY DEF Empieza, dimensiones
<1>2. /\ h \in 2..MaxLado /\ h \in Nat /\ n \in 2..MaxLado /\ n \in Nat \ {0}
      /\ f \in 0..h - 1 /\ f \in Nat /\ c \in 0..n - 1
  BY <1>0, <1>1, MaxLadoAssumption DEF TypeOK, Recorrido
<1>3. /\ valorIngresado' \in Valores \cup {0}
      /\ entrada' \in {"viva", "trabada"}
  BY <1>0, <1>1 DEF LeerValorIngresado, Scanf, Lectura, TypeOK, InvUltimo
<1>4. valorIngresado' \in Nat
  BY <1>3, ValorEsNatural
<1>5. \/ c # n - 1 /\ contadorColumnas' = c + 1 /\ contadorFilas' = f
      \/ c = n - 1 /\ contadorColumnas' = 0 /\ contadorFilas' = f + 1
  BY <1>2 DEF Empieza
<1>6. /\ contadorFilas' \in 0..h /\ contadorColumnas' \in 0..n - 1
      /\ contadorFilas' = h => contadorColumnas' = 0
  BY <1>2, <1>5
<1>7. /\ f * n + (c + 1) = f * n + c + 1
      /\ c = n - 1 => (f + 1) * n + 0 = f * n + c + 1
  BY <1>2, CuatroVale, Enteros!Avance, Zenon
<1>8. contadorFilas' * n + contadorColumnas' = f * n + c + 1
  BY <1>5, <1>7, Zenon
<1>9. Posicion' = Posicion + 1
  BY <1>1, <1>8 DEF Posicion
<1>10. Posicion \in 0..h * n - 1
  BY <1>2, CuatroVale, Enteros!CasilleroAdentro, Zenon DEF Posicion
<1>11. Posicion \in 0..LargoMatriz - 1
  <2> DEFINE p == Posicion
             t == h * n
  <2>1. p \in 0..t - 1 /\ t \in Nat /\ t <= LargoMatriz
    BY <1>2, <1>10, Producto, Zenon
  <2> HIDE DEF p, t
  <2>2. p \in 0..LargoMatriz - 1
    BY <2>1, LargoAssumption
  <2> QED
    BY <2>2 DEF p
<1>12. Len(cargados) = Posicion
  BY <1>0, <1>1 DEF InvCarga
<1> QED
  BY <1>1, <1>2, <1>3, <1>4, <1>6, <1>9, <1>10, <1>11, <1>12, Zenon

LEMMA EmpiezaIInv == IInv /\ Empieza => IInv'
<1> SUFFICES ASSUME IInv, Empieza PROVE IInv'
    OBVIOUS
<1> DEFINE v == valorIngresado'
           p == Posicion
<1>0. TypeOK /\ Recorrido /\ InvCarga /\ InvUltimo /\ InvMuestra
  BY DEF IInv
<1>1. /\ pc = "empieza" /\ pc' = "empieza"
      /\ cantidadFilas \in 2..MaxLado /\ cantidadColumnas \in 2..MaxLado
      /\ Len(cargados) = p
      /\ p \in 0..LargoMatriz - 1
      /\ Posicion' = p + 1
      /\ v \in Valores \cup {0} /\ v \in Nat
      /\ entrada' \in {"viva", "trabada"}
      /\ cargados' = Append(cargados, v)
      /\ matriz' = [matriz EXCEPT ![p] = Bajo(v)]
      /\ contadorFilas' \in 0..cantidadFilas
      /\ contadorColumnas' \in 0..cantidadColumnas - 1
      /\ contadorFilas' = cantidadFilas => contadorColumnas' = 0
      /\ UNCHANGED <<cantidadFilas, cantidadColumnas, salida>>
  BY EmpiezaHechos, Zenon
<1>2. Bajo(v) \in 0..Base - 1
  BY <1>1, CeroEsByte, Bytes
<1>3. /\ cargados' \in Seq(Valores \cup {0}) /\ Len(cargados') = p + 1
      /\ cargados'[p + 1] = v
      /\ \A k \in 1..p : cargados'[k] = cargados[k]
  <2>1. cargados \in Seq(Valores \cup {0})
    BY <1>0 DEF TypeOK
  <2> QED
    BY <1>1, <2>1, AppendProperties
<1> HIDE DEF p, v
<1>4. TypeOK'
  <2>1. matriz' \in [0..LargoMatriz - 1 -> 0..Base - 1]
    BY <1>0, <1>1, <1>2 DEF TypeOK
  <2>2. contadorFilas' \in 0..MaxLado /\ contadorColumnas' \in -1..MaxLado - 1
    BY <1>1, MaxLadoAssumption
  <2> QED
    BY <1>0, <1>1, <1>3, <2>1, <2>2 DEF TypeOK, v
<1>5. InvPedidos' /\ Recorrido'
  BY <1>1 DEF InvPedidos, Pedidos, Recorrido
<1>6. InvCarga'
  <2>1. matriz \in [0..LargoMatriz - 1 -> 0..Base - 1]
    BY <1>0 DEF TypeOK
  <2>2. ASSUME NEW k \in 1..p + 1 PROVE matriz'[k - 1] = Bajo(cargados'[k])
    <3>1. CASE k = p + 1
      BY <1>1, <1>3, <2>1, <3>1
    <3>2. CASE k \in 1..p
      <4>1. matriz[k - 1] = Bajo(cargados[k])
        BY <1>0, <1>1, <3>2 DEF InvCarga, p
      <4>2. k - 1 \in 0..LargoMatriz - 1 /\ k - 1 # p
        BY <1>1, <3>2, LargoAssumption
      <4> QED
        BY <1>1, <1>3, <2>1, <3>2, <4>1, <4>2
    <3> QED
      BY <1>1, <3>1, <3>2
  <2> QED
    BY <1>1, <1>3, <2>2 DEF InvCarga
<1>7. InvUltimo'
  BY <1>1, <1>3 DEF InvUltimo, v
<1>8. InvMuestra'
  <2>1. salida = <<>> /\ Len(salida) = 0
    BY <1>0, <1>1 DEF InvMuestra
  <2> QED
    BY <1>1, <2>1 DEF InvMuestra, MuestraFiel
<1> QED
  BY <1>4, <1>5, <1>6, <1>7, <1>8 DEF IInv

LEMMA MostrarMatrizIInv == IInv /\ MostrarMatriz => IInv'
<1> SUFFICES ASSUME IInv, MostrarMatriz PROVE IInv'
    OBVIOUS
<1> DEFINE h == cantidadFilas
           n == cantidadColumnas
<1>0. TypeOK /\ Recorrido /\ InvCarga /\ InvUltimo /\ InvMuestra
  BY DEF IInv
<1>1. /\ pc = "empieza" /\ pc' = "empiezaMuestra" /\ contadorFilas > h - 1
      /\ contadorFilas' = 0 /\ contadorColumnas' = n - 1
      /\ UNCHANGED <<cantidadFilas, cantidadColumnas, valorIngresado, matriz,
                     entrada, salida, cargados>>
  BY DEF MostrarMatriz, ColumnaInicial, dimensiones
<1>2. /\ h \in 2..MaxLado /\ h \in Nat /\ n \in 2..MaxLado /\ n \in Nat
      /\ contadorFilas \in Nat
  BY <1>0, <1>1, MaxLadoAssumption DEF TypeOK
<1>3. contadorFilas = h /\ contadorColumnas = 0
  BY <1>0, <1>1, <1>2 DEF Recorrido
<1>4. Len(cargados) = h * n
  <2>1. Len(cargados) = h * n + 0
    BY <1>0, <1>1, <1>3 DEF InvCarga, Posicion
  <2>2. \A x, y \in Nat : x * y + 0 = x * y
    OBVIOUS
  <2> QED
    BY <1>2, <2>1, <2>2
<1>5. TypeOK'
  BY <1>0, <1>1, <1>2, MaxLadoAssumption DEF TypeOK
<1>6. InvPedidos' /\ Recorrido'
  BY <1>1, <1>2 DEF InvPedidos, Pedidos, Recorrido
<1>7. InvCarga' /\ InvUltimo'
  BY <1>0, <1>1, <1>4 DEF InvCarga, InvUltimo, Pedidos
<1>8. salida = <<>> /\ Len(salida) = 0
  BY <1>0, <1>1 DEF InvMuestra
<1>9. Renglon' * (cantidadFilas' + 1) + contadorFilas' = 0
  <2>1. Renglon' = 0 /\ cantidadFilas' + 1 \in Nat /\ contadorFilas' = 0
    BY <1>1, <1>2 DEF Renglon
  <2>2. \A x \in Int : 0 * x + 0 = 0
    OBVIOUS
  <2> QED
    BY <2>1, <2>2
<1>10. InvMuestra'
  BY <1>1, <1>8, <1>9 DEF InvMuestra, MuestraFiel
<1> QED
  BY <1>5, <1>6, <1>7, <1>10 DEF IInv

\* What a number on the screen says: above its low byte, the last one entered.
Numero(r, s) ==
  Bajo(cargados[FuenteGirada(Forma, r, s)]) + Alto(cargados[Len(cargados)])

\* The place in the order of entry of what is shown at row r and column s.
LEMMA Fuentes ==
  ASSUME NEW r \in 0..cantidadColumnas - 1, NEW s \in 0..cantidadFilas - 1,
         cantidadFilas \in Nat, cantidadColumnas \in Nat \ {0}
  PROVE  /\ cantidadColumnas - 1 - r \in 0..cantidadColumnas - 1
         /\ FuenteGirada(Forma, r, s) =
              s * cantidadColumnas + (cantidadColumnas - 1 - r) + 1
         /\ s * cantidadColumnas + (cantidadColumnas - 1 - r)
              \in 0..cantidadFilas * cantidadColumnas - 1
<1>1. cantidadColumnas - 1 - r \in 0..cantidadColumnas - 1
  OBVIOUS
<1>2. FuenteGirada(Forma, r, s) =
        s * cantidadColumnas + (cantidadColumnas - 1 - r) + 1
  BY DEF FuenteGirada, Forma
<1>3. s * cantidadColumnas + (cantidadColumnas - 1 - r)
        \in 0..cantidadFilas * cantidadColumnas - 1
  BY <1>1, CuatroVale, Enteros!CasilleroAdentro, Zenon
<1> QED
  BY <1>1, <1>2, <1>3

\* What the showing loop does: it prints the element of the turned matrix that
\* comes next, and after the last of a column a line feed.
LEMMA EmpiezaMuestraHechos ==
  ASSUME IInv, EmpiezaMuestra
  PROVE  /\ pc = "empiezaMuestra" /\ pc' = "empiezaMuestra"
         /\ cantidadFilas \in 2..MaxLado /\ cantidadColumnas \in 2..MaxLado
         /\ contadorFilas \in 0..cantidadFilas - 1
         /\ Renglon \in 0..cantidadColumnas - 1
         /\ valorIngresado' = Numero(Renglon, contadorFilas)
         /\ valorIngresado' \in Nat
         /\ Alto(valorIngresado') = Alto(valorIngresado)
         /\ Len(cargados) > 0
         /\ \/ /\ contadorFilas # cantidadFilas - 1
               /\ salida' = Append(salida, valorIngresado')
               /\ contadorFilas' = contadorFilas + 1
               /\ contadorColumnas' = contadorColumnas
            \/ /\ contadorFilas = cantidadFilas - 1
               /\ salida' = salida \o <<valorIngresado', Salto>>
               /\ contadorFilas' = 0
               /\ contadorColumnas' = contadorColumnas - 1
         /\ UNCHANGED <<cantidadFilas, cantidadColumnas, matriz, entrada,
                        cargados>>
<1> DEFINE h == cantidadFilas
           n == cantidadColumnas
           f == contadorFilas
           c == contadorColumnas
           r == Renglon
           p == f * n + c
           k == Len(cargados)
<1>0. TypeOK /\ Recorrido /\ InvCarga /\ InvUltimo
  BY DEF IInv
<1>1. /\ pc = "empiezaMuestra" /\ pc' = "empiezaMuestra" /\ c >= 0
      /\ valorIngresado' = Alto(valorIngresado) + matriz[Posicion]
      /\ UNCHANGED <<cantidadFilas, cantidadColumnas, matriz, entrada, cargados>>
  BY DEF EmpiezaMuestra, dimensiones
<1>2. /\ h \in 2..MaxLado /\ h \in Nat /\ n \in 2..MaxLado /\ n \in Nat \ {0}
      /\ f \in 0..h - 1 /\ c \in 0..n - 1
      /\ r \in 0..n - 1 /\ n - 1 - r = c
  BY <1>0, <1>1, MaxLadoAssumption DEF TypeOK, Recorrido, Renglon
<1>3. \/ /\ f # h - 1
         /\ salida' = Append(salida, valorIngresado')
         /\ contadorFilas' = f + 1
         /\ contadorColumnas' = c
      \/ /\ f = h - 1
         /\ salida' = salida \o <<valorIngresado', Salto>>
         /\ contadorFilas' = 0
         /\ contadorColumnas' = c - 1
  <2>1. f + 1 <= h - 1 <=> f # h - 1
    BY <1>2
  <2>2. f + 1 > h - 1 <=> f = h - 1
    BY <1>2
  <2> QED
    BY <2>1, <2>2, Zenon DEF EmpiezaMuestra
<1>4. p \in 0..h * n - 1 /\ FuenteGirada(Forma, r, f) = p + 1
  <2>1. /\ FuenteGirada(Forma, r, f) = f * n + (n - 1 - r) + 1
        /\ f * n + (n - 1 - r) \in 0..h * n - 1
    BY <1>2, Fuentes, Zenon
  <2> QED
    BY <1>2, <2>1, Zenon
<1>5. k = h * n /\ k \in Nat
  BY <1>0, <1>1 DEF InvCarga, TypeOK
<1>6. Posicion = p
  BY DEF Posicion
<1> HIDE DEF p, k
<1>7. p + 1 \in 1..k /\ p + 1 - 1 = p /\ k > 0 /\ p \in Int
  BY <1>4, <1>5
<1>8. cargados[p + 1] \in Nat /\ valorIngresado \in Nat
  <2>1. cargados \in Seq(Valores \cup {0}) /\ p + 1 \in 1..Len(cargados)
    BY <1>0, <1>7 DEF TypeOK, k
  <2>2. cargados[p + 1] \in Valores \cup {0}
    BY <2>1, ElementOfSeq, Zenon
  <2>3. valorIngresado \in Nat
    BY <1>0 DEF TypeOK
  <2> QED
    BY <2>2, <2>3, ValorEsNatural, Zenon
<1>9. matriz[p] = Bajo(cargados[p + 1])
  <2>1. matriz[p + 1 - 1] = Bajo(cargados[p + 1])
    BY <1>0, <1>7 DEF InvCarga, k
  <2> QED
    BY <1>7, <2>1
<1>10. Alto(valorIngresado) = Alto(cargados[k])
  BY <1>0, <1>7 DEF InvUltimo, k
<1>11. valorIngresado' = Numero(r, f)
  <2>1. Numero(r, f) = Bajo(cargados[p + 1]) + Alto(cargados[k])
    BY <1>4, Zenon DEF Numero, k
  <2>2. valorIngresado' = Alto(cargados[k]) + Bajo(cargados[p + 1])
    BY <1>1, <1>6, <1>9, <1>10, Zenon
  <2>3. Alto(cargados[k]) \in Nat /\ Bajo(cargados[p + 1]) \in Nat
    BY <1>8, <1>10, CeroEsByte, Bytes
  <2> QED
    BY <2>1, <2>2, <2>3
<1>12. matriz[p] \in 0..Base - 1
  BY <1>8, <1>9, CeroEsByte, Bytes, Zenon
<1>13. /\ valorIngresado' \in Nat
       /\ Alto(valorIngresado') = Alto(valorIngresado)
  BY <1>1, <1>6, <1>8, <1>12, Bytes, Zenon
<1> QED
  BY <1>1, <1>2, <1>3, <1>7, <1>11, <1>13, Zenon DEF k

\* The text at place i of the screen.
Mostrado(i) ==
  IF i % (cantidadFilas + 1) = 0 THEN Salto
  ELSE Numero((i - 1) \div (cantidadFilas + 1), (i - 1) % (cantidadFilas + 1))

LEMMA MuestraFielDicha ==
  MuestraFiel <=>
    /\ \A i \in 1..Len(salida) : salida[i] = Mostrado(i)
    /\ pc = "fin" => Len(salida) = cantidadColumnas * (cantidadFilas + 1)
  BY Zenon DEF MuestraFiel, Mostrado, Numero

LEMMA EmpiezaMuestraIInv == IInv /\ EmpiezaMuestra => IInv'
<1> SUFFICES ASSUME IInv, EmpiezaMuestra PROVE IInv'
    OBVIOUS
<1> DEFINE h == cantidadFilas
           n == cantidadColumnas
           f == contadorFilas
           c == contadorColumnas
           r == Renglon
           v == valorIngresado'
           l == Len(salida)
           ultima == contadorFilas = cantidadFilas - 1
<1>0. TypeOK /\ Recorrido /\ InvCarga /\ InvUltimo /\ InvMuestra
  BY DEF IInv
<1>1. /\ pc = "empiezaMuestra" /\ pc' = "empiezaMuestra"
      /\ h \in 2..MaxLado /\ n \in 2..MaxLado
      /\ f \in 0..h - 1 /\ r \in 0..n - 1
      /\ v = Numero(r, f) /\ v \in Nat
      /\ Alto(v) = Alto(valorIngresado)
      /\ Len(cargados) > 0
      /\ \/ /\ ~ultima
            /\ salida' = Append(salida, v)
            /\ contadorFilas' = f + 1
            /\ contadorColumnas' = c
         \/ /\ ultima
            /\ salida' = salida \o <<v, Salto>>
            /\ contadorFilas' = 0
            /\ contadorColumnas' = c - 1
      /\ UNCHANGED <<cantidadFilas, cantidadColumnas, matriz, entrada, cargados>>
  BY EmpiezaMuestraHechos, Zenon
<1>2. h \in Nat \ {0} /\ r \in Nat /\ c \in 0..n - 1 /\ n \in Nat
  BY <1>0, <1>1, MaxLadoAssumption DEF Renglon, TypeOK
<1>3. l = r * (h + 1) + f
  BY <1>0, <1>1 DEF InvMuestra
<1>4. /\ r * (h + 1) + (f + 1) = l + 1
      /\ ultima => (r + 1) * (h + 1) + 0 = l + 2
  <2>1. /\ r * (h + 1) + (f + 1) = r * (h + 1) + f + 1
        /\ f = h - 1 => (r + 1) * (h + 1) + 0 = r * (h + 1) + f + 2
    BY <1>1, <1>2, CuatroVale, Enteros!Avance, Zenon
  <2> HIDE DEF l
  <2> QED
    BY <1>3, <2>1, Zenon
<1> HIDE DEF l
<1>5. /\ l \in Nat
      /\ l \div (h + 1) = r /\ l % (h + 1) = f
      /\ (l + 1) % (h + 1) = f + 1
      /\ ultima => (l + 2) % (h + 1) = 0
  <2>1. /\ r * (h + 1) + f \in Nat
        /\ (r * (h + 1) + f) \div (h + 1) = r
        /\ (r * (h + 1) + f) % (h + 1) = f
        /\ ((r * (h + 1) + f) + 1) % (h + 1) = f + 1
        /\ f = h - 1 => ((r * (h + 1) + f) + 2) % (h + 1) = 0
    BY <1>1, <1>2, CuatroVale, Enteros!Lugares, Zenon
  <2> QED
    BY <1>3, <2>1, Zenon
<1>6. Mostrado(l + 1) = v
  <2>1. (l + 1) - 1 = l /\ (l + 1) % (h + 1) # 0
    BY <1>1, <1>5
  <2> QED
    BY <1>1, <1>5, <2>1, Zenon DEF Mostrado
<1>7. ultima => Mostrado(l + 2) = Salto
  BY <1>5, Zenon DEF Mostrado
<1>8. /\ salida' \in Seq(Nat \cup {Salto})
      /\ Len(salida') = l + (IF ultima THEN 2 ELSE 1)
      /\ \A i \in 1..l : salida'[i] = salida[i]
      /\ salida'[l + 1] = v
      /\ ultima => salida'[l + 2] = Salto
  <2>1. salida \in Seq(Nat \cup {Salto}) /\ v \in Nat \cup {Salto}
        /\ Salto \in Nat \cup {Salto}
    BY <1>0, <1>1 DEF TypeOK
  <2>2. CASE ultima
    <3>1. salida' = salida \o <<v, Salto>>
      BY <1>1, <2>2
    <3> DEFINE t == salida \o <<v, Salto>>
    <3>2. /\ t \in Seq(Nat \cup {Salto}) /\ Len(t) = l + 2
          /\ \A i \in 1..l : t[i] = salida[i]
          /\ t[l + 1] = v /\ t[l + 2] = Salto
      BY <2>1, CuatroVale, Enteros!TextosNuevos DEF l
    <3> HIDE DEF t
    <3>3. salida' = t
      BY <3>1 DEF t
    <3> QED
      BY <2>2, <3>2, <3>3
  <2>3. CASE ~ultima
    <3>1. salida' = Append(salida, v)
      BY <1>1, <2>3
    <3> DEFINE t == Append(salida, v)
    <3>2. /\ t \in Seq(Nat \cup {Salto}) /\ Len(t) = l + 1
          /\ \A i \in 1..l : t[i] = salida[i]
          /\ t[l + 1] = v
      BY <2>1, AppendProperties DEF l
    <3> HIDE DEF t
    <3>3. salida' = t
      BY <3>1 DEF t
    <3> QED
      BY <2>3, <3>2, <3>3
  <2> QED
    BY <2>2, <2>3
<1>9. \A i : Mostrado(i)' = Mostrado(i)
  BY <1>1 DEF Mostrado, Numero, Forma
<1>10. \A i \in 1..Len(salida') : salida'[i] = Mostrado(i)'
  <2>1. \A i \in 1..l : salida[i] = Mostrado(i)
    BY <1>0, MuestraFielDicha, Zenon DEF InvMuestra, l
  <2>2. ASSUME NEW i \in 1..Len(salida') PROVE salida'[i] = Mostrado(i)
    <3>1. \/ i \in 1..l \/ i = l + 1 \/ (ultima /\ i = l + 2)
      BY <1>5, <1>8
    <3> QED
      BY <1>6, <1>7, <1>8, <2>1, <3>1, Zenon
  <2> QED
    BY <1>9, <2>2, Zenon
<1>11. /\ contadorFilas' \in 0..h - 1 /\ contadorColumnas' \in -1..n - 1
       /\ contadorColumnas' < 0 => contadorFilas' = 0
  BY <1>1, <1>2
<1>12. TypeOK'
  <2>1. contadorFilas' \in 0..MaxLado /\ contadorColumnas' \in -1..MaxLado - 1
    BY <1>1, <1>11, MaxLadoAssumption
  <2> QED
    BY <1>0, <1>1, <1>8, <2>1 DEF TypeOK
<1>13. InvPedidos' /\ Recorrido'
  BY <1>1, <1>2, <1>11 DEF InvPedidos, Pedidos, Recorrido
<1>14. InvCarga' /\ InvUltimo'
  BY <1>0, <1>1 DEF InvCarga, InvUltimo, Pedidos
<1>15. InvMuestra'
  <2>1. MuestraFiel'
    BY <1>1, <1>10 DEF MuestraFiel, Mostrado, Numero
  <2>2. Len(salida') = Renglon' * (cantidadFilas' + 1) + contadorFilas'
    <3>1. CASE ultima
      <4>1. Renglon' = r + 1 /\ contadorFilas' = 0
        BY <1>1, <1>2, <3>1 DEF Renglon
      <4> QED
        BY <1>1, <1>4, <1>8, <3>1, <4>1, Zenon
    <3>2. CASE ~ultima
      <4>1. Renglon' = r /\ contadorFilas' = f + 1
        BY <1>1, <1>2, <3>2 DEF Renglon
      <4> QED
        BY <1>1, <1>4, <1>8, <3>2, <4>1, Zenon
    <3> QED
      BY <3>1, <3>2
  <2> QED
    BY <1>1, <2>1, <2>2 DEF InvMuestra
<1> QED
  BY <1>12, <1>13, <1>14, <1>15 DEF IInv

LEMMA SalirIInv == IInv /\ SalirDelPrograma => IInv'
<1> SUFFICES ASSUME IInv, SalirDelPrograma PROVE IInv'
    OBVIOUS
<1> DEFINE h == cantidadFilas
           n == cantidadColumnas
<1>0. TypeOK /\ InvPedidos /\ Recorrido /\ InvCarga /\ InvUltimo /\ InvMuestra
  BY DEF IInv
<1>1. /\ pc = "empiezaMuestra" /\ pc' = "fin" /\ contadorColumnas < 0
      /\ UNCHANGED <<cantidadFilas, cantidadColumnas, contadorFilas,
                     contadorColumnas, valorIngresado, matriz, entrada,
                     salida, cargados>>
  BY DEF SalirDelPrograma, dimensiones, contadores
<1>2. h \in 2..MaxLado /\ h \in Nat /\ n \in 2..MaxLado /\ n \in Nat
  BY <1>0, <1>1, MaxLadoAssumption DEF TypeOK
<1>3. contadorFilas = 0 /\ Renglon = n
  BY <1>0, <1>1, <1>2 DEF Recorrido, Renglon, TypeOK
<1>4. Len(salida) = n * (h + 1)
  <2>1. Len(salida) = n * (h + 1) + 0
    BY <1>0, <1>1, <1>3 DEF InvMuestra
  <2>2. \A x, y \in Nat : x * y + 0 = x * y
    OBVIOUS
  <2> QED
    BY <1>2, <2>1, <2>2
<1>5. TypeOK' /\ InvPedidos' /\ Recorrido' /\ InvCarga' /\ InvUltimo'
  BY <1>0, <1>1
     DEF TypeOK, InvPedidos, Pedidos, Recorrido, InvCarga, InvUltimo
<1>6. InvMuestra'
  BY <1>0, <1>1, <1>4 DEF InvMuestra, MuestraFiel, Forma
<1> QED
  BY <1>5, <1>6 DEF IInv

LEMMA QuietoIInv == IInv /\ UNCHANGED vars => IInv'
  BY DEF IInv, vars, dimensiones, contadores, TypeOK, InvPedidos, Recorrido,
         InvCarga, Posicion, InvUltimo, InvMuestra, Renglon, MuestraFiel, Forma

LEMMA NextIInv == IInv /\ [Next]_vars => IInv'
  BY CorroborarFilasIInv, CorroborarColumnasIInv, EmpiezaIInv,
     MostrarMatrizIInv, EmpiezaMuestraIInv, SalirIInv, QuietoIInv
     DEF Next, Acabado

\* IInv holds in every reachable state, for matrices and numbers of any size.
THEOREM Inductivo == Spec => []IInv
  BY InitIInv, NextIInv, PTL DEF Spec

\* Types; in particular the sizes accepted and the counters stay in range,
\* whatever path the prompts were gone through.
THEOREM TypeOKTheorem == Spec => []TypeOK
  BY Inductivo, PTL DEF IInv

LEMMA IInvGirada == IInv => GiradaPorBytes
<1> SUFFICES ASSUME IInv PROVE GiradaPorBytes
    OBVIOUS
<1>1. TypeOK /\ InvPedidos /\ Recorrido /\ InvCarga /\ InvMuestra
  BY DEF IInv
<1> DEFINE h == cantidadFilas
           n == cantidadColumnas
           p == Posicion
<1>2. CASE pc \in Pedidos
  <2>1. Len(cargados) = 0
    BY <1>1, <1>2 DEF InvPedidos
  <2> QED
    BY <1>1, <1>2, <2>1, LargoAssumption
       DEF GiradaPorBytes, MatrizFiel, InvCarga, InvMuestra, Pedidos
<1>3. CASE pc \notin Pedidos
  <2>1. /\ h \in 2..MaxLado /\ h \in Nat /\ n \in 2..MaxLado
        /\ n \in Nat \ {0} /\ n \in Nat
        /\ pc \in {"empieza", "empiezaMuestra", "fin"}
    BY <1>1, <1>3, MaxLadoAssumption DEF TypeOK, Pedidos
  <2> DEFINE t == h * n
  <2>2. t \in Nat /\ t <= LargoMatriz
    BY <2>1, Producto, Zenon
  <2>3. ASSUME pc = "empieza" PROVE Len(cargados) <= LargoMatriz
    <3>1. /\ contadorFilas \in 0..h /\ contadorColumnas \in 0..n - 1
          /\ contadorFilas = h => contadorColumnas = 0
          /\ Len(cargados) = p
      BY <1>1, <2>1, <2>3 DEF TypeOK, Recorrido, InvCarga
    <3>2. p \in 0..t
      <4>1. CASE contadorFilas = h
        <5>1. p = t + 0
          BY <3>1, <4>1 DEF Posicion
        <5> HIDE DEF t, p
        <5> QED
          BY <2>2, <5>1
      <4>2. CASE contadorFilas \in 0..h - 1
        <5>1. p \in 0..t - 1
          BY <2>1, <3>1, <4>2, CuatroVale, Enteros!CasilleroAdentro, Zenon
             DEF Posicion
        <5> HIDE DEF t, p
        <5> QED
          BY <2>2, <5>1
      <4> QED
        BY <2>1, <3>1, <4>1, <4>2
    <3> HIDE DEF t, p
    <3> QED
      BY <2>2, <3>1, <3>2, LargoAssumption
  <2>4. ASSUME pc \in {"empiezaMuestra", "fin"}
        PROVE  Len(cargados) <= LargoMatriz
    <3>1. Len(cargados) = t
      BY <1>1, <2>4 DEF InvCarga
    <3> QED
      BY <2>2, <3>1
  <2>5. Len(cargados) <= LargoMatriz
    BY <2>1, <2>3, <2>4
  <2> QED
    BY <1>1, <2>5 DEF GiradaPorBytes, MatrizFiel, InvCarga, InvMuestra
<1> QED
  BY <1>2, <1>3

\* Every number entered is stored inside the array at its position, and shown
\* where the turn takes it, as far as its low byte goes (7.asm:183-187,
\* 251-262).
THEOREM GiradaPorBytesTheorem == Spec => []GiradaPorBytes
  BY Inductivo, IInvGirada, PTL

LEMMA TrabadoPaso ==
  IInv /\ [Next]_vars =>
    [entrada' = "trabada" /\ pc \in Pedidos => pc' \in Pedidos]_vars
<1> SUFFICES ASSUME IInv, Next, entrada' = "trabada", pc \in Pedidos
             PROVE  pc' \in Pedidos
    OBVIOUS
<1>1. CASE CorroborarFilas
  BY <1>1 DEF CorroborarFilas, Pedidos
<1>2. CASE CorroborarColumnas
  <2>1. cantidadColumnas' = cantidadColumnas
    BY <1>2 DEF CorroborarColumnas, Scanf, Lectura
  <2>2. cantidadColumnas' \notin 2..MaxLado
    BY <2>1 DEF IInv, InvPedidos
  <2>3. \/ pc' = "corroborarColumnas"
        \/ pc' = "corroborarFilas"
        \/ cantidadColumnas' \in 2..MaxLado
    BY <1>2, CorroborarColumnasHechos, Zenon DEF IInv
  <2> QED
    BY <2>2, <2>3 DEF Pedidos
<1>3. CASE Empieza \/ MostrarMatriz \/ EmpiezaMuestra \/ SalirDelPrograma
           \/ Acabado
  BY <1>3 DEF Empieza, MostrarMatriz, EmpiezaMuestra, SalirDelPrograma, Acabado,
              Pedidos
<1> QED
  BY <1>1, <1>2, <1>3 DEF Next

\* With the input jammed the prompts are never left: what they go on comparing
\* is a number of columns they refused (7.asm:216-239).
THEOREM TrabadoNoAvanzaTheorem == Spec => TrabadoNoAvanza
  BY Inductivo, TrabadoPaso, PTL DEF Spec, TrabadoNoAvanza

-----------------------------------------------------------------------------
(* The refinement of VisorDeMatriz *)

\* What the abstract viewer sees.
CargadosVistos == [i \in DOMAIN cargados |-> Bajo(cargados[i])]

SalidaVista ==
  [i \in DOMAIN salida |-> IF salida[i] = Salto THEN Salto ELSE Bajo(salida[i])]

FormaVista == IF pc \in Pedidos THEN <<0, 0>> ELSE Forma

VistosHechos ==
  /\ CargadosVistos \in Seq(0..Base - 1)
  /\ Len(CargadosVistos) = Len(cargados)
  /\ \A i \in 1..Len(cargados) : CargadosVistos[i] = Bajo(cargados[i])

LEMMA VistosTipo == TypeOK => VistosHechos
<1> SUFFICES ASSUME TypeOK PROVE VistosHechos
    OBVIOUS
<1>1. cargados \in Seq(Valores \cup {0})
  BY DEF TypeOK
<1> DEFINE k == Len(cargados)
<1>2. k \in Nat /\ DOMAIN cargados = 1..k
  BY <1>1
<1>3. ASSUME NEW i \in 1..k PROVE Bajo(cargados[i]) \in 0..Base - 1
  <2>1. cargados[i] \in Valores \cup {0}
    BY <1>1, ElementOfSeq, Zenon
  <2>2. cargados[i] \in Nat
    BY <2>1, ValorEsNatural, Zenon
  <2> QED
    BY <2>1, <2>2, CeroEsByte, Bytes, Zenon
<1> HIDE DEF k
<1>4. CargadosVistos = [i \in 1..k |-> Bajo(cargados[i])]
  BY <1>2 DEF CargadosVistos
<1> QED
  BY <1>2, <1>3, <1>4 DEF k, VistosHechos

LEMMA VistosTipoSiguiente == TypeOK' => VistosHechos'
  BY VistosTipo, PTL

LEMMA InitVisor == Init => Visor!Init
<1> SUFFICES ASSUME Init PROVE Visor!Init
    OBVIOUS
<1>1. cargados = <<>> /\ salida = <<>> /\ pc = "corroborarFilas"
  BY DEF Init
<1>2. CargadosVistos = <<>> /\ SalidaVista = <<>> /\ FormaVista = <<0, 0>>
  BY <1>1 DEF CargadosVistos, SalidaVista, FormaVista, Pedidos
<1> QED
  BY <1>2 DEF Visor!Init, CargadosVistos, SalidaVista, FormaVista

LEMMA QuietoVisor ==
  ASSUME UNCHANGED <<cargados, salida>>, FormaVista' = FormaVista
  PROVE  UNCHANGED Visor!vars
  BY DEF Visor!vars, FormaVista, CargadosVistos, SalidaVista

LEMMA CorroborarFilasVisor == IInv /\ CorroborarFilas => UNCHANGED Visor!vars
<1> SUFFICES ASSUME IInv, CorroborarFilas PROVE UNCHANGED Visor!vars
    OBVIOUS
<1>1. /\ pc \in Pedidos /\ pc' \in Pedidos
      /\ UNCHANGED <<cargados, salida>>
  BY DEF CorroborarFilas, Pedidos
<1> QED
  BY <1>1, QuietoVisor DEF FormaVista

LEMMA CorroborarColumnasVisor ==
  IInv /\ CorroborarColumnas => [Visor!Next]_Visor!vars
<1> SUFFICES ASSUME IInv, CorroborarColumnas PROVE [Visor!Next]_Visor!vars
    OBVIOUS
<1>1. /\ pc = "corroborarColumnas"
      /\ \/ pc' = "corroborarColumnas" \/ pc' = "corroborarFilas"
         \/ pc' = "empieza" /\ cantidadColumnas' \in 2..MaxLado
      /\ UNCHANGED <<cantidadFilas, cargados, salida>>
  BY CorroborarColumnasHechos, Zenon DEF IInv
<1>2. CASE pc' \in Pedidos
  BY <1>1, <1>2, QuietoVisor DEF FormaVista, Pedidos
<1>3. CASE pc' = "empieza" /\ cantidadColumnas' \in 2..MaxLado
  <2>1. cantidadFilas' \in 2..MaxLado
    BY <1>1 DEF IInv, TypeOK
  <2>2. FormaVista = <<0, 0>> /\ FormaVista' = Forma'
    BY <1>1, <1>3 DEF FormaVista, Pedidos
  <2>3. Forma' \in (2..MaxLado) \X (2..MaxLado)
    BY <1>3, <2>1 DEF Forma
  <2>4. Visor!Dimensionar
    BY <1>1, <2>2, <2>3 DEF Visor!Dimensionar, FormaVista
  <2> QED
    BY <2>4 DEF Visor!Next
<1> QED
  BY <1>1, <1>2, <1>3 DEF Pedidos

LEMMA EmpiezaVisor == IInv /\ Empieza => Visor!Ingresar
<1> SUFFICES ASSUME IInv, Empieza PROVE Visor!Ingresar
    OBVIOUS
<1> DEFINE k == Len(cargados)
           v == valorIngresado'
           s == CargadosVistos
           t == CargadosVistos'
<1>1. /\ pc = "empieza" /\ pc' = "empieza"
      /\ k = Posicion /\ Posicion \in 0..cantidadFilas * cantidadColumnas - 1
      /\ v \in Nat /\ v \in Valores \cup {0}
      /\ cargados' = Append(cargados, v)
      /\ UNCHANGED <<cantidadFilas, cantidadColumnas, salida>>
      /\ cantidadFilas \in 2..MaxLado /\ cantidadColumnas \in 2..MaxLado
  BY EmpiezaHechos, Zenon
<1>2. TypeOK /\ TypeOK'
  BY EmpiezaIInv DEF IInv
<1>3. /\ Len(cargados') = k + 1 /\ cargados'[k + 1] = v
      /\ \A i \in 1..k : cargados'[i] = cargados[i]
      /\ k \in Nat
  <2>1. cargados \in Seq(Valores \cup {0})
    BY <1>2 DEF TypeOK
  <2> QED
    BY <1>1, <2>1, AppendProperties
<1>4. /\ s \in Seq(0..Base - 1) /\ Len(s) = k
      /\ \A i \in 1..k : s[i] = Bajo(cargados[i])
  BY <1>2, VistosTipo DEF VistosHechos
<1>5. /\ t \in Seq(0..Base - 1) /\ Len(t) = Len(cargados')
      /\ \A i \in 1..Len(cargados') : t[i] = Bajo(cargados'[i])
  BY <1>2, VistosTipoSiguiente DEF VistosHechos
<1>6. Bajo(v) \in 0..Base - 1
  BY <1>1, CeroEsByte, Bytes, Zenon
<1>7. t = Append(s, Bajo(v))
  <2> HIDE DEF s, t, v, k
  <2>1. /\ Len(t) = k + 1 /\ t[k + 1] = Bajo(v)
        /\ \A i \in 1..k : t[i] = s[i]
    BY <1>3, <1>4, <1>5
  <2> QED
    BY <1>3, <1>4, <1>5, <1>6, <2>1, AppendProperties, SeqEqual
<1>8. FormaVista = Forma /\ FormaVista' = FormaVista
  BY <1>1 DEF FormaVista, Forma, Pedidos
<1>9. Len(s) < Visor!Elementos(FormaVista)
  <2>1. Visor!Elementos(FormaVista) = cantidadFilas * cantidadColumnas
    BY <1>8 DEF Visor!Elementos, Forma
  <2>2. cantidadFilas * cantidadColumnas \in Nat
    BY <1>1, Producto, Zenon
  <2> QED
    BY <1>1, <1>4, <2>1, <2>2
<1> QED
  BY <1>1, <1>6, <1>7, <1>8, <1>9 DEF Visor!Ingresar, CargadosVistos, FormaVista

\* A number on the screen is the byte of the element, under the upper part of
\* the last one.
LEMMA NumeroHechos ==
  ASSUME IInv, pc = "empiezaMuestra",
         NEW r \in 0..cantidadColumnas - 1, NEW s \in 0..cantidadFilas - 1
  PROVE  /\ Numero(r, s) \in Nat
         /\ Bajo(Numero(r, s)) = CargadosVistos[FuenteGirada(Forma, r, s)]
<1> DEFINE p == s * cantidadColumnas + (cantidadColumnas - 1 - r)
           t == cantidadFilas * cantidadColumnas
           k == Len(cargados)
<1>0. TypeOK /\ InvCarga
  BY DEF IInv
<1>1. cantidadFilas \in Nat /\ cantidadColumnas \in Nat \ {0}
  BY <1>0, MaxLadoAssumption DEF TypeOK
<1>2. p \in 0..t - 1 /\ FuenteGirada(Forma, r, s) = p + 1
  BY <1>1, Fuentes, Zenon
<1>3. k = t /\ k \in Nat
  BY <1>0 DEF InvCarga, TypeOK
<1> HIDE DEF p, t
<1>5. p + 1 \in 1..k /\ k \in 1..k
  <2> HIDE DEF k
  <2> QED
    BY <1>2, <1>3
<1>6. /\ cargados[p + 1] \in Nat /\ cargados[k] \in Nat
      /\ CargadosVistos[p + 1] = Bajo(cargados[p + 1])
  <2>1. cargados \in Seq(Valores \cup {0})
    BY <1>0 DEF TypeOK
  <2>2. cargados[p + 1] \in Valores \cup {0} /\ cargados[k] \in Valores \cup {0}
    BY <1>5, <2>1, ElementOfSeq, Zenon
  <2>3. CargadosVistos[p + 1] = Bajo(cargados[p + 1])
    BY <1>0, <1>5, VistosTipo DEF VistosHechos
  <2> QED
    BY <2>2, <2>3, ValorEsNatural, Zenon
<1> DEFINE a == Alto(cargados[k])
           b == Bajo(cargados[p + 1])
<1>7. /\ b \in 0..Base - 1 /\ a \in Nat
  BY <1>6, CeroEsByte, Bytes, Zenon
<1>8. Alto(cargados[k]) + b \in Nat /\ Bajo(Alto(cargados[k]) + b) = b
  BY <1>6, <1>7, Bytes, Zenon
<1>9. Numero(r, s) = a + b
  <2>1. Numero(r, s) = b + a
    BY <1>2, Zenon DEF Numero
  <2> HIDE DEF a, b
  <2> QED
    BY <1>7, <2>1, BaseAssumption
<1> QED
  BY <1>2, <1>6, <1>8, <1>9, Zenon

EsTexto ==
  LET texto == Visor!Texto(FormaVista, CargadosVistos)
  IN  /\ Len(salida) \in Nat
      /\ Len(salida) <= Len(texto) /\ Len(texto) \in Nat
      /\ SalidaVista = SubSeq(texto, 1, Len(salida))

Mostrando == IInv /\ pc = "empiezaMuestra"

\* What is on the screen, seen in low bytes, is so much of the abstract text.
LEMMA SalidaEsTexto == Mostrando => EsTexto
<1> SUFFICES ASSUME IInv, pc = "empiezaMuestra" PROVE EsTexto
    BY DEF Mostrando
<1> DEFINE n == cantidadFilas
           m == cantidadColumnas
           l == Len(salida)
           g(i) == IF i % (n + 1) = 0 THEN Salto
                   ELSE CargadosVistos[FuenteGirada(Forma, (i - 1) \div (n + 1),
                                                    (i - 1) % (n + 1))]
<1>0. TypeOK /\ Recorrido /\ InvMuestra
  BY DEF IInv
<1>1. /\ n \in Nat \ {0} /\ n \in Nat /\ n \in Int
      /\ m \in Nat \ {0} /\ m \in Nat
  BY <1>0, MaxLadoAssumption DEF TypeOK
<1>2. Visor!Texto(FormaVista, CargadosVistos) = [i \in 1..m * (n + 1) |-> g(i)]
  <2>1. FormaVista = Forma /\ Forma[1] = n /\ Forma[2] = m
    BY DEF FormaVista, Forma, Pedidos
  <2>2. (n * m) \div m = n
    <3>1. 0 \in 0..m - 1
      BY <1>1
    <3>2. (n * m + 0) \div m = n
      BY <1>1, <3>1, CuatroVale, Enteros!Casillero, Zenon
    <3>3. \A x, y \in Nat : x * y + 0 = x * y
      OBVIOUS
    <3>4. n * m + 0 = n * m
      BY <1>1, <3>3, Zenon
    <3> QED
      BY <3>2, <3>4, Zenon
  <2>3. Visor!Elementos(Forma) \div Forma[2] = n /\ Forma[2] = m
    BY <2>1, <2>2, Zenon DEF Visor!Elementos
  <2> QED
    BY <2>1, <2>3, Zenon DEF Visor!Texto
<1> DEFINE texto == Visor!Texto(FormaVista, CargadosVistos)
           largo == m * (n + 1)
           S == Nat \cup {Salto}
<1>3. l \in Nat /\ largo \in Nat /\ l <= largo
  <2> DEFINE f == Renglon
             c == contadorFilas
             x == f * (n + 1)
  <2>1. l = x + c /\ f \in 0..m /\ c \in 0..n - 1 /\ (f = m => c = 0) /\ l \in Nat
    <3>1. /\ contadorColumnas \in -1..m - 1 /\ c \in 0..n - 1
          /\ contadorColumnas < 0 => c = 0
      BY <1>0, <1>1 DEF Recorrido, TypeOK
    <3>2. f \in 0..m /\ (f = m => contadorColumnas < 0)
      BY <1>1, <3>1 DEF Renglon
    <3> QED
      BY <1>0, <3>1, <3>2 DEF InvMuestra, TypeOK
  <2>2. largo \in Nat
    <3>1. \A a, b \in Nat : a * b \in Nat
      OBVIOUS
    <3>2. n + 1 \in Nat
      BY <1>1
    <3> QED
      BY <1>1, <3>1, <3>2
  <2>3. CASE f = m
    <3>1. l = largo + 0
      BY <2>1, <2>3
    <3> HIDE DEF largo, l
    <3> QED
      BY <2>1, <2>2, <3>1
  <2>4. CASE f \in 0..m - 1
    <3>1. n + 1 \in Nat \ {0} /\ c \in 0..(n + 1) - 1
      BY <1>1, <2>1
    <3>2. x + c \in 0..largo - 1
      BY <1>1, <2>4, <3>1, CuatroVale, Enteros!CasilleroAdentro, Zenon
    <3> HIDE DEF largo, l, x
    <3> QED
      BY <2>1, <2>2, <3>2
  <2>5. f = m \/ f \in 0..m - 1
    BY <1>1, <2>1
  <2> QED
    BY <2>1, <2>2, <2>3, <2>4, <2>5, Zenon
<1>4. /\ DOMAIN texto = 1..largo
      /\ \A i \in 1..largo : texto[i] = g(i)
  BY <1>2
<1> HIDE DEF texto
<1>5. Len(texto) = largo
  <2>1. texto = [i \in 1..largo |-> g(i)]
    BY <1>2 DEF texto
  <2> HIDE DEF largo, g
  <2> QED
    BY <1>3, <2>1
<1>6. DOMAIN salida = 1..l
  BY <1>0 DEF TypeOK
<1>7. ASSUME NEW i \in 1..l PROVE SalidaVista[i] = g(i) /\ g(i) \in S
  <2>1. salida[i] = Mostrado(i)
    BY <1>0, MuestraFielDicha, Zenon DEF InvMuestra
  <2>2. SalidaVista[i] = IF salida[i] = Salto THEN Salto ELSE Bajo(salida[i])
    BY <1>6, Zenon DEF SalidaVista
  <2>3. i \in 1..largo
    <3> HIDE DEF l, largo
    <3> QED
      BY <1>3
  <2>4. CASE i % (n + 1) = 0
    BY <2>1, <2>2, <2>4, Zenon DEF Mostrado
  <2>5. CASE i % (n + 1) # 0
    <3> DEFINE r == (i - 1) \div (n + 1)
               t == (i - 1) % (n + 1)
               q == CargadosVistos[FuenteGirada(Forma, r, t)]
    <3>1. r \in 0..m - 1 /\ t \in 0..n - 1
      BY <1>1, <2>3, <2>5, CuatroVale, Enteros!LugarDeTexto, Zenon
    <3>2. salida[i] = Numero(r, t)
      BY <2>1, <2>5, Zenon DEF Mostrado
    <3>3. Numero(r, t) \in Nat /\ Bajo(Numero(r, t)) = q
      BY <3>1, NumeroHechos, Zenon
    <3>4. \A z \in Nat : z # Salto
      BY DEF Salto
    <3>5. SalidaVista[i] = q
      BY <2>2, <3>2, <3>3, <3>4, Zenon
    <3>6. q \in Nat
      <4>1. Base \in Nat \ {0}
        BY BaseAssumption
      <4>2. \A z \in Nat, b \in Nat \ {0} : z % b \in Nat
        OBVIOUS
      <4> QED
        BY <3>3, <4>1, <4>2, Zenon DEF Bajo
    <3>7. g(i) = q
      BY <2>5, Zenon
    <3> QED
      BY <3>5, <3>6, <3>7, Zenon
  <2> QED
    BY <2>4, <2>5
<1>8. SalidaVista \in Seq(S) /\ Len(SalidaVista) = l
  <2>1. SalidaVista = [i \in 1..l |-> SalidaVista[i]]
    BY <1>6, Zenon DEF SalidaVista
  <2>2. \A i \in 1..l : SalidaVista[i] \in S
    BY <1>7, Zenon
  <2> HIDE DEF l, S
  <2> QED
    BY <1>3, <2>1, <2>2
<1>9. ASSUME NEW i \in 1..l PROVE texto[i] = g(i) /\ texto[i] \in S
  <2>1. i \in 1..largo
    <3> HIDE DEF l, largo
    <3> QED
      BY <1>3
  <2> QED
    BY <1>4, <1>7, <2>1, Zenon
<1> DEFINE u == SubSeq(texto, 1, l)
<1> HIDE DEF l, largo, S, g
<1>10. /\ u \in Seq(S)
       /\ Len(u) = IF 1 <= l THEN l - 1 + 1 ELSE 0
       /\ \A i \in 1..l - 1 + 1 : u[i] = texto[1 + i - 1]
  BY <1>3, <1>9, SubSeqProperties
<1> HIDE DEF u
<1>11. Len(u) = l /\ \A i \in 1..l : u[i] = texto[i]
  BY <1>3, <1>10
<1>12. SalidaVista = u
  BY <1>7, <1>8, <1>9, <1>10, <1>11, SeqEqual
<1> QED
  BY <1>3, <1>5, <1>12 DEF EsTexto, texto, u, l

LEMMA SalidaEsTextoSiguiente == Mostrando' => EsTexto'
  BY SalidaEsTexto, PTL

LEMMA EmpiezaMuestraVisor == IInv /\ EmpiezaMuestra => Visor!Mostrar
<1> SUFFICES ASSUME IInv, EmpiezaMuestra PROVE Visor!Mostrar
    OBVIOUS
<1>1. /\ pc = "empiezaMuestra" /\ pc' = "empiezaMuestra"
      /\ cantidadFilas \in 2..MaxLado /\ cantidadColumnas \in 2..MaxLado
      /\ UNCHANGED <<cantidadFilas, cantidadColumnas, cargados>>
      /\ \/ salida' = Append(salida, valorIngresado')
         \/ salida' = salida \o <<valorIngresado', Salto>>
      /\ valorIngresado' \in Nat
  BY EmpiezaMuestraHechos, Zenon
<1>2. /\ FormaVista = <<cantidadFilas, cantidadColumnas>>
      /\ FormaVista # <<0, 0>>
      /\ FormaVista' = FormaVista /\ CargadosVistos' = CargadosVistos
  BY <1>1, MaxLadoAssumption DEF FormaVista, Forma, CargadosVistos, Pedidos
<1>3. Len(CargadosVistos) = Visor!Elementos(FormaVista)
  <2>1. Len(CargadosVistos) = Len(cargados)
    BY VistosTipo DEF IInv, VistosHechos
  <2> QED
    BY <1>1, <1>2, <2>1 DEF IInv, InvCarga, Visor!Elementos
<1> DEFINE texto == Visor!Texto(FormaVista, CargadosVistos)
<1>4. /\ Len(salida') \in Nat /\ Len(texto) \in Nat
      /\ Len(salida') <= Len(texto)
      /\ SalidaVista' = SubSeq(texto, 1, Len(salida'))
  <2>1. EsTexto'
    BY <1>1, EmpiezaMuestraIInv, SalidaEsTextoSiguiente DEF Mostrando
  <2>2. Visor!Texto(FormaVista, CargadosVistos)' = texto
    BY <1>2 DEF Visor!Texto
  <2> HIDE DEF texto
  <2> QED
    BY <2>1, <2>2 DEF EsTexto
<1>5. Len(SalidaVista) = Len(salida) /\ Len(salida) \in Nat
  <2>1. salida \in Seq(Nat \cup {Salto})
    BY DEF IInv, TypeOK
  <2> QED
    BY <2>1 DEF SalidaVista
<1>6. Len(salida') >= Len(salida) + 1
  <2>1. /\ salida \in Seq(Nat \cup {Salto}) /\ Salto \in Nat \cup {Salto}
        /\ valorIngresado' \in Nat \cup {Salto}
    BY <1>1 DEF IInv, TypeOK
  <2>2. /\ Len(Append(salida, valorIngresado')) = Len(salida) + 1
        /\ Len(salida \o <<valorIngresado', Salto>>) = Len(salida) + 2
    BY <2>1, AppendProperties, CuatroVale, Enteros!TextosNuevos
  <2>3. Len(salida') = Len(salida) + 1 \/ Len(salida') = Len(salida) + 2
    BY <1>1, <2>2
  <2> QED
    BY <1>5, <2>3
<1>7. Len(salida') \in Len(SalidaVista) + 1..Len(texto)
  <2> HIDE DEF texto
  <2> QED
    BY <1>4, <1>5, <1>6
<1> QED
  BY <1>1, <1>2, <1>3, <1>4, <1>7
     DEF Visor!Mostrar, FormaVista, CargadosVistos, SalidaVista

LEMMA NextVisor == IInv /\ [Next]_vars => [Visor!Next]_Visor!vars
<1> SUFFICES ASSUME IInv, [Next]_vars PROVE [Visor!Next]_Visor!vars
    OBVIOUS
<1>1. CASE MostrarMatriz \/ SalirDelPrograma \/ UNCHANGED vars
  BY <1>1, QuietoVisor
     DEF MostrarMatriz, SalirDelPrograma, vars, dimensiones, FormaVista, Forma,
         Pedidos
<1> QED
  BY <1>1, CorroborarFilasVisor, CorroborarColumnasVisor, EmpiezaVisor,
     EmpiezaMuestraVisor DEF Next, Acabado, Visor!Next

\* Seen in low bytes, the program enters a matrix and shows it turned.
THEOREM ImplementaVisorTheorem == Spec => ImplementaVisor
  BY InitVisor, NextVisor, Inductivo, PTL DEF Spec, ImplementaVisor, Visor!Spec
-----------------------------------------------------------------------------
(* The loops end *)

\* While loading: what PasosQueFaltan is and that the position is no further
\* than the number of elements, where the rows end.
LEMMA CargaHechos ==
  ASSUME IInv, pc = "empieza"
  PROVE  LET t == cantidadFilas * cantidadColumnas
         IN  /\ t \in Nat /\ Posicion \in Nat /\ Posicion <= t
             /\ contadorFilas > cantidadFilas - 1 => Posicion = t
             /\ PasosQueFaltan = 2 * t + 2 - Posicion
<1> DEFINE h == cantidadFilas
           n == cantidadColumnas
           f == contadorFilas
           c == contadorColumnas
<1>1. /\ h \in Nat /\ n \in Nat /\ f \in 0..h /\ c \in 0..n - 1
      /\ f = h => c = 0
  BY MaxLadoAssumption DEF IInv, TypeOK, Recorrido
<1>2. \A a, b \in Nat : a * b \in Nat
  OBVIOUS
<1>3. h * n \in Nat /\ f * n \in Nat
  BY <1>1, <1>2
<1>4. Posicion = f * n + c
  BY DEF Posicion
<1>5. PasosQueFaltan = 2 * (h * n) + 2 - Posicion
  BY DEF PasosQueFaltan
<1>6. CASE f = h
  <2>1. Posicion = h * n + 0
    BY <1>1, <1>4, <1>6
  <2> HIDE DEF h, n, f, c
  <2> QED
    BY <1>3, <1>5, <2>1 DEF h, n
<1>7. CASE f < h
  <2> DEFINE d == h - f - 1
  <2>1. d \in Nat /\ h = f + d + 1 /\ f \in Nat
    BY <1>1, <1>7
  <2> HIDE DEF d
  <2>2. h * n = (f + d + 1) * n
    BY <2>1
  <2>3. (f + d + 1) * n = f * n + d * n + n /\ d * n \in Nat
    BY <1>1, <1>2, <2>1
  <2>4. /\ f * n + c <= h * n /\ f * n + c \in Nat
        /\ ~(f > h - 1)
    BY <1>1, <1>3, <1>7, <2>2, <2>3
  <2> HIDE DEF h, n, f, c
  <2> QED
    BY <1>3, <1>4, <1>5, <2>4 DEF h, n, f
<1> QED
  BY <1>1, <1>6, <1>7

\* While showing: what is left are the columns from the present one down, but
\* for the rows of it already shown, and the end of the loop.
LEMMA MuestraHechos ==
  ASSUME IInv, pc = "empiezaMuestra"
  PROVE  LET e == (contadorColumnas + 1) * cantidadFilas
         IN  /\ e \in Nat /\ contadorFilas \in Nat /\ contadorFilas <= e
             /\ PasosQueFaltan = e + 1 - contadorFilas
<1> DEFINE h == cantidadFilas
           f == contadorFilas
           m == contadorColumnas + 1
<1>1. /\ h \in Nat \ {0} /\ f \in 0..h - 1 /\ m \in Nat
      /\ m = 0 => f = 0
  BY MaxLadoAssumption DEF IInv, TypeOK, Recorrido
<1>2. PasosQueFaltan = m * h + 1 - f
  BY DEF PasosQueFaltan
<1>3. m * h \in Nat /\ f <= m * h
  <2> HIDE DEF h, f, m
  <2>1. CASE m = 0
    BY <1>1, <2>1
  <2>2. CASE m # 0
    <3> DEFINE d == m - 1
    <3>1. d \in Nat /\ m = d + 1
      BY <1>1, <2>2
    <3> HIDE DEF d
    <3>2. m * h = (d + 1) * h
      BY <3>1
    <3>3. (d + 1) * h = d * h + h /\ d * h \in Nat
      BY <1>1, <3>1
    <3> QED
      BY <1>1, <3>2, <3>3
  <2> QED
    BY <2>1, <2>2
<1> QED
  BY <1>1, <1>2, <1>3

LEMMA EmpiezaMuestraPasos ==
  IInv /\ EmpiezaMuestra => PasosQueFaltan' < PasosQueFaltan
<1> SUFFICES ASSUME IInv, EmpiezaMuestra PROVE PasosQueFaltan' < PasosQueFaltan
    OBVIOUS
<1> DEFINE h == cantidadFilas
           f == contadorFilas
           m == contadorColumnas + 1
           e == m * h
<1>1. /\ pc = "empiezaMuestra" /\ pc' = "empiezaMuestra"
      /\ h \in 2..MaxLado /\ f \in 0..h - 1 /\ cantidadFilas' = h
      /\ \/ contadorFilas' = f + 1 /\ contadorColumnas' = contadorColumnas
         \/ /\ f = h - 1 /\ contadorFilas' = 0
            /\ contadorColumnas' = contadorColumnas - 1
  BY EmpiezaMuestraHechos, Zenon
<1>2. h \in Nat /\ f \in Nat /\ m \in Int /\ m - 1 = contadorColumnas
  BY <1>1, MaxLadoAssumption DEF IInv, TypeOK
<1>3. e \in Nat /\ PasosQueFaltan = e + 1 - f
  BY <1>1, MuestraHechos
<1>4. PasosQueFaltan' = (contadorColumnas' + 1) * h + 1 - contadorFilas'
  BY <1>1 DEF PasosQueFaltan
<1>5. CASE contadorFilas' = f + 1 /\ contadorColumnas' = contadorColumnas
  <2>1. PasosQueFaltan' = e + 1 - (f + 1)
    BY <1>4, <1>5
  <2> HIDE DEF e, f
  <2> QED
    BY <1>2, <1>3, <2>1
<1>6. CASE /\ f = h - 1 /\ contadorFilas' = 0
           /\ contadorColumnas' = contadorColumnas - 1
  <2>1. contadorColumnas' + 1 = m - 1
    BY <1>2, <1>6
  <2>2. (m - 1) * h = e - h
    <3> HIDE DEF m, h
    <3>1. (m - 1) * h = m * h - h
      BY <1>2
    <3> QED
      BY <3>1
  <2>3. PasosQueFaltan' = (e - h) + 1 - 0
    BY <1>4, <1>6, <2>1, <2>2
  <2> HIDE DEF e, f, h
  <2> QED
    BY <1>2, <1>3, <1>6, <2>3
<1> QED
  BY <1>1, <1>5, <1>6

LEMMA PasosDecrecen ==
  IInv /\ [Next]_vars =>
    [pc \notin Pedidos => PasosQueFaltan' < PasosQueFaltan]_vars
<1> SUFFICES ASSUME IInv, Next, ~Acabado, pc \notin Pedidos
             PROVE  PasosQueFaltan' < PasosQueFaltan
    BY DEF Acabado, Next
<1> DEFINE t == cantidadFilas * cantidadColumnas
           p == Posicion
<1>1. CASE Empieza
  <2>1. /\ pc = "empieza" /\ pc' = "empieza" /\ Posicion' = p + 1
        /\ UNCHANGED <<cantidadFilas, cantidadColumnas>>
    BY <1>1, EmpiezaHechos DEF Empieza, dimensiones
  <2>2. t \in Nat /\ p \in Nat /\ PasosQueFaltan = 2 * t + 2 - p
    BY <2>1, CargaHechos
  <2>3. PasosQueFaltan' = 2 * t + 2 - (p + 1)
    BY <2>1 DEF PasosQueFaltan
  <2> HIDE DEF t, p
  <2> QED
    BY <2>2, <2>3
<1>2. CASE MostrarMatriz
  <2>1. /\ pc = "empieza" /\ pc' = "empiezaMuestra"
        /\ contadorFilas > cantidadFilas - 1
        /\ contadorFilas' = 0 /\ contadorColumnas' = cantidadColumnas - 1
        /\ cantidadFilas' = cantidadFilas
    BY <1>2 DEF MostrarMatriz, ColumnaInicial, dimensiones
  <2>2. t \in Nat /\ p = t /\ PasosQueFaltan = 2 * t + 2 - p
    BY <2>1, CargaHechos
  <2>3. cantidadFilas \in Nat /\ cantidadColumnas \in Nat
    BY <2>1, MaxLadoAssumption DEF IInv, TypeOK
  <2>4. (contadorColumnas' + 1) * cantidadFilas = t
    <3>1. contadorColumnas' + 1 = cantidadColumnas
      BY <2>1, <2>3
    <3>2. \A a, b \in Nat : a * b = b * a
      OBVIOUS
    <3> QED
      BY <2>3, <3>1, <3>2
  <2>5. PasosQueFaltan' = t + 1 - 0
    BY <2>1, <2>4 DEF PasosQueFaltan
  <2> HIDE DEF t, p
  <2> QED
    BY <2>2, <2>5
<1>3. CASE SalirDelPrograma
  <2> DEFINE e == (contadorColumnas + 1) * cantidadFilas
  <2>1. pc = "empiezaMuestra" /\ pc' = "fin"
    BY <1>3 DEF SalirDelPrograma
  <2>2. /\ e \in Nat /\ contadorFilas \in Nat /\ contadorFilas <= e
        /\ PasosQueFaltan = e + 1 - contadorFilas
    BY <2>1, MuestraHechos
  <2>3. PasosQueFaltan' = 0
    BY <2>1 DEF PasosQueFaltan
  <2> HIDE DEF e
  <2> QED
    BY <2>2, <2>3
<1> QED
  BY <1>1, <1>2, <1>3, EmpiezaMuestraPasos
     DEF Next, CorroborarFilas, CorroborarColumnas, Pedidos

LEMMA PasosNoNegativos == IInv => PasosQueFaltan >= 0
<1> SUFFICES ASSUME IInv PROVE PasosQueFaltan >= 0
    OBVIOUS
<1>1. CASE pc = "empieza"
  <2> DEFINE t == cantidadFilas * cantidadColumnas
             p == Posicion
  <2>1. t \in Nat /\ p \in Nat /\ p <= t /\ PasosQueFaltan = 2 * t + 2 - p
    BY <1>1, CargaHechos
  <2> HIDE DEF t, p
  <2> QED
    BY <2>1
<1>2. CASE pc = "empiezaMuestra"
  <2> DEFINE e == (contadorColumnas + 1) * cantidadFilas
  <2>1. /\ e \in Nat /\ contadorFilas \in Nat /\ contadorFilas <= e
        /\ PasosQueFaltan = e + 1 - contadorFilas
    BY <1>2, MuestraHechos
  <2> HIDE DEF e
  <2> QED
    BY <2>1
<1>3. CASE pc \notin {"empieza", "empiezaMuestra"}
  BY <1>3 DEF PasosQueFaltan
<1> QED
  BY <1>1, <1>2, <1>3

\* Once both dimensions are accepted, a matrix of h rows and n columns takes at
\* most 2 * h * n + 2 steps: each makes PasosQueFaltan smaller, whatever is
\* typed, and it never is negative.
THEOREM PasosAcotadosTheorem == Spec => PasosAcotados
<1> DEFINE NoNegativo == PasosQueFaltan >= 0
<1>1. IInv => NoNegativo
  BY PasosNoNegativos
<1>2. IInv /\ NoNegativo' /\ [Next]_vars =>
        [pc \notin Pedidos =>
           PasosQueFaltan' < PasosQueFaltan /\ PasosQueFaltan' >= 0]_vars
  BY PasosDecrecen
<1> HIDE DEF NoNegativo
<1> QED
  BY <1>1, <1>2, Inductivo, PTL DEF Spec, PasosAcotados
=============================================================================
