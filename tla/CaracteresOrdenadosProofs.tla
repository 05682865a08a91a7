---------------------- MODULE CaracteresOrdenadosProofs ----------------------
(* Proofs about program 5.  The inductive invariant IInv says what every    *)
(* control point knows of the array and of the stack; the invariants of     *)
(* CaracteresOrdenados and its refinement of CaracteresAbstracto follow.    *)
EXTENDS CaracteresOrdenados, TLAPS

\* f holds, from offset 0, the n characters of S in increasing order, and
\* zeros after them.
Contenido(f, n, S) ==
  /\ n \in 0..LargoArray
  /\ \A i \in 0..n - 1 : f[i] \in S
  /\ \A i \in n..LargoArray - 1 : f[i] = 0
  /\ \A i, j \in 0..n - 1 : i < j => f[i] < f[j]
  /\ \A c \in S : \E i \in 0..n - 1 : f[i] = c

\* The array as it will be once ubicarTodo has put every saved byte back.
Futuro == [j \in 0..LargoArray - 1 |->
             IF j >= ecx /\ j <= numero THEN pila[Len(pila) - (j - ecx)]
             ELSE arrayCaracteres[j]]

\* The array holds the n characters of S, and leidos is S and the character
\* in hand, which is among them or not.
EnMano(n, S) ==
  /\ caracter # 0
  /\ leidos = S \cup {caracter}
  /\ Contenido(arrayCaracteres, n, S)
  /\ n <= contadorCantCaract - 1
  /\ contadorRecorrer \in 0..n

\* The character in hand is new and goes at contadorRecorrer or later.
EnSuLugar(n, S) ==
  /\ EnMano(n, S)
  /\ caracter \notin S
  /\ \A i \in 0..contadorRecorrer - 1 : arrayCaracteres[i] < caracter

\* It goes exactly at contadorRecorrer, before a character already stored.
AEmpujar(n, S) ==
  /\ EnSuLugar(n, S)
  /\ contadorRecorrer < n
  /\ caracter < arrayCaracteres[contadorRecorrer]

EntreTurnos == pc \in {"llevarCuenta", "siguienteIteracion",
                       "armarArrayCaracteres", "terminar", "fin"}

InvControl ==
  /\ EntreTurnos => /\ contadorRecorrer = 0
                    /\ aceptados = contadorCantCaract - 1
  /\ pc \in Pcs /\ ~EntreTurnos /\ pc # "desbordada" =>
       aceptados = contadorCantCaract
  /\ pc \notin {"llevarCuenta", "terminar", "fin", "desbordada"} =>
       contadorCantCaract <= Limite
  /\ pc \in {"terminar", "fin"} => contadorCantCaract = Limite + 1
  /\ pc # "fin" => salida = <<>>
  /\ aceptados <= Limite

\* What the array holds at each control point.
Entero ==
  \E n \in 0..contadorCantCaract - 1 : Contenido(arrayCaracteres, n, leidos)

Buscando ==
  \E n \in 0..LargoArray : \E S \in SUBSET Letras :
    /\ EnMano(n, S)
    /\ \A i \in 0..contadorRecorrer - 1 : arrayCaracteres[i] # caracter

Colocando ==
  \E n \in 0..LargoArray : \E S \in SUBSET Letras : EnSuLugar(n, S)

BuscandoUltimo ==
  \E n \in 0..LargoArray : \E S \in SUBSET Letras :
    /\ AEmpujar(n, S)
    /\ ecx \in contadorRecorrer..n - 1

Guardando ==
  /\ \E S \in SUBSET Letras : AEmpujar(numero, S)
  /\ ecx \in contadorRecorrer..numero
  /\ \A j \in ecx..numero - 1 : pila[Len(pila) - (j - ecx)] = arrayCaracteres[j]

Ubicando ==
  /\ ecx \in 1..numero + 1
  /\ numero + 1 <= contadorCantCaract
  /\ Contenido(Futuro, numero + 1, leidos)

Colocado ==
  \E n \in 0..contadorCantCaract : Contenido(arrayCaracteres, n, leidos)

Abandonado ==
  \E n \in 0..LargoArray : \E S \in SUBSET Letras :
    /\ leidos \subseteq S \cup {caracter}
    /\ Contenido(arrayCaracteres, n, S)

InvArray ==
  /\ EntreTurnos => Entero
  /\ pc = "corroborarInexistencia" => Buscando
  /\ pc = "encontrarPosicionCorrespondiente" => Colocando
  /\ pc = "buscarUltimo" => BuscandoUltimo
  /\ pc = "guardarEnPila" => Guardando
  /\ pc = "ubicarTodo" => Ubicando
  /\ pc = "incrementarContadorCantCaract" => Colocado
  /\ pc = "desbordada" => Abandonado

IInv == TypeOK /\ PilaBalanceada /\ InvControl /\ InvArray
-----------------------------------------------------------------------------

LEMMA InitIInv == Init => IInv
<1> SUFFICES ASSUME Init PROVE IInv
    OBVIOUS
<1>1. TypeOK
  BY LimiteAssumption DEF Init, TypeOK, Pcs, Retorno
<1>2. PilaBalanceada
  BY DEF Init, PilaBalanceada, DatosEncima, Retorno
<1>3. InvControl
  BY LimiteAssumption DEF Init, InvControl, EntreTurnos
<1>4. InvArray
  BY LargoAssumption, LimiteAssumption DEF Init, InvArray, EntreTurnos, Entero, Contenido
<1> QED
  BY <1>1, <1>2, <1>3, <1>4 DEF IInv

\* A stack of return addresses alone is one still after one more push.
LEMMA ApilarRetorno ==
  ASSUME TypeOK, DatosEncima(0), NEW destino, Apilar(Retorno, destino)
  PROVE  /\ DatosEncima(0)'
         /\ pila' \in Seq(Letras \cup {Retorno})
         /\ pc' \in {destino, "desbordada"}
<1>1. pila \in Seq(Letras \cup {Retorno}) /\ \A i \in 1..Len(pila) : pila[i] = Retorno
  BY DEF TypeOK, DatosEncima
<1>2. CASE pila' = Append(pila, Retorno) /\ pc' = destino
  <2>1. /\ pila' \in Seq(Letras \cup {Retorno})
        /\ Len(pila') = Len(pila) + 1
        /\ \A i \in 1..Len(pila') : pila'[i] = Retorno
    BY <1>1, <1>2
  <2> QED
    BY <1>2, <2>1 DEF DatosEncima
<1>3. CASE pila' = pila /\ pc' = "desbordada"
  BY <1>1, <1>3 DEF DatosEncima
<1> QED
  BY <1>2, <1>3 DEF Apilar

\* A byte pushed on k saved bytes makes k + 1 of them.
LEMMA ApilarDato ==
  ASSUME TypeOK, NEW k \in Nat, DatosEncima(k), NEW d \in Letras,
         NEW destino, Apilar(d, destino), pc' # "desbordada"
  PROVE  /\ pc' = destino
         /\ pila' = Append(pila, d)
         /\ Len(pila') = Len(pila) + 1
         /\ pila' \in Seq(Letras \cup {Retorno})
         /\ DatosEncima(k + 1)'
<1>1. /\ pila \in Seq(Letras \cup {Retorno})
      /\ k \in 0..Len(pila)
      /\ \A i \in 1..Len(pila) : pila[i] = Retorno <=> i <= Len(pila) - k
  BY DEF TypeOK, DatosEncima
<1>2. pila' = Append(pila, d) /\ pc' = destino
  BY DEF Apilar
<1>3. Len(pila') = Len(pila) + 1 /\ pila' \in Seq(Letras \cup {Retorno})
  BY <1>1, <1>2
<1>4. ASSUME NEW i \in 1..Len(pila')
      PROVE  pila'[i] = Retorno <=> i <= Len(pila') - (k + 1)
  <2>1. d # Retorno
    BY LetrasAssumption DEF Retorno
  <2>2. CASE i = Len(pila) + 1
    BY <1>1, <1>2, <2>1, <2>2
  <2>3. CASE i \in 1..Len(pila)
    BY <1>1, <1>2, <1>3, <2>3
  <2> QED
    BY <1>1, <1>3, <2>2, <2>3
<1> QED
  BY <1>1, <1>2, <1>3, <1>4 DEF DatosEncima

\* An array that holds what has been read holds it too when the run dies.
LEMMA EnteroAbandonado ==
  ASSUME TypeOK, Entero, UNCHANGED <<arrayCaracteres, leidos, caracter>>
  PROVE  Abandonado'
<1>1. PICK n \in 0..contadorCantCaract - 1 : Contenido(arrayCaracteres, n, leidos)
  BY DEF Entero
<1>2. n \in 0..LargoArray /\ leidos \in SUBSET Letras
  BY <1>1 DEF Contenido, TypeOK
<1>3. /\ leidos' \subseteq leidos \cup {caracter'}
      /\ Contenido(arrayCaracteres', n, leidos)
  BY <1>1
<1> QED
  BY <1>2, <1>3 DEF Abandonado

LEMMA LlevarCuentaIInv == IInv /\ LlevarCuenta => IInv'
<1> SUFFICES ASSUME IInv, LlevarCuenta PROVE IInv'
    OBVIOUS
<1>0. TypeOK /\ PilaBalanceada /\ InvControl /\ InvArray
  BY DEF IInv
<1>1. /\ pc = "llevarCuenta"
      /\ UNCHANGED <<contadorCantCaract, contadorRecorrer, caracter, numero,
                     arrayCaracteres, cadena, ecx, entrada, salida, leidos,
                     aceptados, vacias>>
      /\ \/ contadorCantCaract > Limite /\ pc' = "terminar" /\ UNCHANGED pila
         \/ contadorCantCaract <= Limite /\ Apilar(Retorno, "siguienteIteracion")
  BY <1>0, LimiteAssumption DEF LlevarCuenta, historia, CuentaCompleta, TypeOK
<1>2. /\ DatosEncima(0)'
      /\ pila' \in Seq(Letras \cup {Retorno})
      /\ \/ contadorCantCaract > Limite /\ pc' = "terminar"
         \/ contadorCantCaract <= Limite
            /\ pc' \in {"siguienteIteracion", "desbordada"}
  <2>1. DatosEncima(0)
    BY <1>0, <1>1 DEF PilaBalanceada
  <2>2. CASE contadorCantCaract > Limite /\ pc' = "terminar" /\ UNCHANGED pila
    BY <1>0, <2>1, <2>2 DEF TypeOK, DatosEncima
  <2>3. CASE contadorCantCaract <= Limite /\ Apilar(Retorno, "siguienteIteracion")
    BY <1>0, <2>1, <2>3, ApilarRetorno
  <2> QED
    BY <1>1, <2>2, <2>3
<1>3. TypeOK'
  BY <1>0, <1>1, <1>2 DEF TypeOK, Pcs
<1>4. PilaBalanceada'
  BY <1>2 DEF PilaBalanceada
<1>5. InvControl'
  BY <1>0, <1>1, <1>2, LimiteAssumption DEF InvControl, EntreTurnos, TypeOK
<1>6. InvArray'
  <2>1. Entero
    BY <1>0, <1>1 DEF InvArray, EntreTurnos
  <2>2. Entero'
    BY <1>1, <2>1 DEF Entero
  <2>3. Abandonado'
    BY <1>0, <1>1, <2>1, EnteroAbandonado
  <2> QED
    BY <1>2, <2>2, <2>3 DEF InvArray, EntreTurnos
<1> QED
  BY <1>3, <1>4, <1>5, <1>6 DEF IInv

LEMMA SiguienteIteracionIInv == IInv /\ SiguienteIteracion => IInv'
<1> SUFFICES ASSUME IInv, SiguienteIteracion PROVE IInv'
    OBVIOUS
<1>0. TypeOK /\ PilaBalanceada /\ InvControl /\ InvArray
  BY DEF IInv
<1>1. /\ pc = "siguienteIteracion"
      /\ UNCHANGED <<contadorCantCaract, contadorRecorrer, caracter, numero,
                     arrayCaracteres, ecx, salida, leidos, aceptados, vacias>>
      /\ cadena' \in Letras \cup {0} /\ entrada' \in {"viva", "trabada"}
      /\ Apilar(Retorno, "armarArrayCaracteres")
  BY <1>0 DEF SiguienteIteracion, historia, LeerCadena, Gets, Lectura,
               TypeOK
<1>2. /\ DatosEncima(0)'
      /\ pila' \in Seq(Letras \cup {Retorno})
      /\ pc' \in {"armarArrayCaracteres", "desbordada"}
  <2>1. DatosEncima(0)
    BY <1>0, <1>1 DEF PilaBalanceada
  <2> QED
    BY <1>0, <1>1, <2>1, ApilarRetorno
<1>3. TypeOK'
  BY <1>0, <1>1, <1>2 DEF TypeOK, Pcs
<1>4. PilaBalanceada'
  BY <1>2 DEF PilaBalanceada
<1>5. InvControl'
  BY <1>0, <1>1, <1>2 DEF InvControl, EntreTurnos
<1>6. InvArray'
  <2>1. Entero
    BY <1>0, <1>1 DEF InvArray, EntreTurnos
  <2>2. Entero'
    BY <1>1, <2>1 DEF Entero
  <2>3. Abandonado'
    BY <1>0, <1>1, <2>1, EnteroAbandonado
  <2> QED
    BY <1>2, <2>2, <2>3 DEF InvArray, EntreTurnos
<1> QED
  BY <1>3, <1>4, <1>5, <1>6 DEF IInv

LEMMA ArmarArrayCaracteresIInv == IInv /\ ArmarArrayCaracteres => IInv'
<1> SUFFICES ASSUME IInv, ArmarArrayCaracteres PROVE IInv'
    OBVIOUS
<1>0. TypeOK /\ PilaBalanceada /\ InvControl /\ InvArray
  BY DEF IInv
<1>1. /\ pc = "armarArrayCaracteres"
      /\ UNCHANGED <<contadorCantCaract, contadorRecorrer, numero,
                     arrayCaracteres, cadena, ecx, entrada, salida>>
      /\ \/ /\ pc' = "siguienteIteracion" /\ vacias' = vacias + 1
            /\ UNCHANGED <<caracter, leidos, aceptados, pila>>
         \/ /\ cadena # 0 /\ caracter' = cadena
            /\ leidos' = leidos \cup {cadena} /\ aceptados' = aceptados + 1
            /\ Apilar(Retorno, "corroborarInexistencia")
            /\ UNCHANGED vacias
  BY DEF ArmarArrayCaracteres
<1>2. Entero /\ DatosEncima(0)
  BY <1>0, <1>1 DEF InvArray, EntreTurnos, PilaBalanceada
<1>3. CASE /\ pc' = "siguienteIteracion" /\ vacias' = vacias + 1
           /\ UNCHANGED <<caracter, leidos, aceptados, pila>>
  <2>1. TypeOK'
    BY <1>0, <1>1, <1>3 DEF TypeOK, Pcs
  <2>2. PilaBalanceada'
    BY <1>2, <1>3 DEF PilaBalanceada, DatosEncima
  <2>3. InvControl'
    BY <1>0, <1>1, <1>3 DEF InvControl, EntreTurnos
  <2>4. Entero'
    BY <1>1, <1>2, <1>3 DEF Entero
  <2> QED
    BY <1>3, <2>1, <2>2, <2>3, <2>4 DEF IInv, InvArray, EntreTurnos
<1>4. CASE /\ cadena # 0 /\ caracter' = cadena
           /\ leidos' = leidos \cup {cadena} /\ aceptados' = aceptados + 1
           /\ Apilar(Retorno, "corroborarInexistencia")
           /\ UNCHANGED vacias
  <2>1. /\ DatosEncima(0)'
        /\ pila' \in Seq(Letras \cup {Retorno})
        /\ pc' \in {"corroborarInexistencia", "desbordada"}
    BY <1>0, <1>2, <1>4, ApilarRetorno
  <2>2. cadena \in Letras /\ caracter' \in Letras /\ leidos' \subseteq Letras
    BY <1>0, <1>4 DEF TypeOK
  <2>3. TypeOK'
    BY <1>0, <1>1, <1>4, <2>1, <2>2 DEF TypeOK, Pcs
  <2>4. PilaBalanceada'
    BY <2>1 DEF PilaBalanceada
  <2>5. /\ contadorRecorrer = 0 /\ aceptados = contadorCantCaract - 1
        /\ contadorCantCaract \in 1..Limite /\ salida = <<>>
    BY <1>0, <1>1, LimiteAssumption DEF InvControl, EntreTurnos, TypeOK
  <2>6. InvControl'
    BY <1>1, <1>4, <2>1, <2>5 DEF InvControl, EntreTurnos
  <2>7. PICK n \in 0..contadorCantCaract - 1 :
               Contenido(arrayCaracteres, n, leidos)
    BY <1>2 DEF Entero
  <2>8. PICK S \in SUBSET Letras : S = leidos
    BY <1>0 DEF TypeOK
  <2>9. /\ n \in 0..LargoArray
        /\ leidos' = S \cup {caracter'}
        /\ caracter' # 0
        /\ Contenido(arrayCaracteres', n, S)
        /\ n <= contadorCantCaract' - 1
        /\ contadorRecorrer' = 0
    BY <1>1, <1>4, <2>5, <2>7, <2>8 DEF Contenido
  <2>10. EnMano(n, S)'
    BY <2>9 DEF EnMano
  <2>11. Buscando'
    BY <2>9, <2>10 DEF Buscando
  <2>12. Abandonado'
    BY <2>9 DEF Abandonado
  <2> QED
    BY <2>1, <2>3, <2>4, <2>6, <2>11, <2>12 DEF IInv, InvArray, EntreTurnos
<1> QED
  BY <1>1, <1>3, <1>4

\* The dword of zeros is met exactly at the end of the array.
LEMMA FinDelArrayExacto ==
  ASSUME TypeOK, NEW n \in 0..Limite - 1, NEW S \in SUBSET Letras,
         Contenido(arrayCaracteres, n, S), contadorRecorrer \in 0..n
  PROVE  /\ FinDelArray <=> contadorRecorrer = n
         /\ Byte(contadorRecorrer) = arrayCaracteres[contadorRecorrer]
         /\ contadorRecorrer < LargoArray
<1>1. n + 3 < LargoArray /\ LargoArray \in Nat /\ n \in Nat
  BY LargoAssumption, LimiteAssumption
<1>2. contadorRecorrer < LargoArray
  BY <1>1
<1>3. CASE contadorRecorrer = n
  <2>1. \A k \in 0..3 : Byte(contadorRecorrer + k) = 0
    BY <1>1, <1>3 DEF Byte, Contenido
  <2> QED
    BY <1>2, <1>3, <2>1 DEF FinDelArray, Byte
<1>4. CASE contadorRecorrer # n
  <2>1. arrayCaracteres[contadorRecorrer] \in S
    BY <1>4 DEF Contenido
  <2>2. arrayCaracteres[contadorRecorrer] # 0
    BY <2>1, LetrasAssumption
  <2>3. Byte(contadorRecorrer + 0) # 0
    BY <1>2, <2>2 DEF Byte
  <2> QED
    BY <1>2, <1>4, <2>3 DEF FinDelArray, Byte
<1> QED
  BY <1>3, <1>4

LEMMA CorroborarInexistenciaIInv == IInv /\ CorroborarInexistencia => IInv'
<1> SUFFICES ASSUME IInv, CorroborarInexistencia PROVE IInv'
    OBVIOUS
<1>0. TypeOK /\ PilaBalanceada /\ InvControl /\ InvArray
  BY DEF IInv
<1>1. /\ pc = "corroborarInexistencia"
      /\ UNCHANGED <<contadorCantCaract, caracter, numero, arrayCaracteres,
                     cadena, ecx, entrada, salida, leidos, aceptados, vacias>>
  BY DEF CorroborarInexistencia, historia
<1>2. PICK n \in 0..LargoArray, S \in SUBSET Letras :
        /\ EnMano(n, S)
        /\ \A i \in 0..contadorRecorrer - 1 : arrayCaracteres[i] # caracter
  BY <1>0, <1>1 DEF InvArray, Buscando
<1>3. /\ caracter # 0
      /\ leidos = S \cup {caracter}
      /\ Contenido(arrayCaracteres, n, S)
      /\ n <= contadorCantCaract - 1
      /\ contadorRecorrer \in 0..n
  BY <1>2 DEF EnMano
<1>4. /\ DatosEncima(0) /\ aceptados = contadorCantCaract
      /\ contadorCantCaract \in 1..Limite /\ salida = <<>>
      /\ aceptados <= Limite
  BY <1>0, <1>1, LimiteAssumption
  DEF PilaBalanceada, InvControl, EntreTurnos, TypeOK, Pcs
<1>5. n \in 0..Limite - 1
  BY <1>3, <1>4, LimiteAssumption
<1>6. /\ FinDelArray <=> contadorRecorrer = n
      /\ Byte(contadorRecorrer) = arrayCaracteres[contadorRecorrer]
  BY <1>0, <1>3, <1>5, FinDelArrayExacto
<1>7. CASE /\ FinDelArray /\ contadorRecorrer' = 0
           /\ Apilar(Retorno, "encontrarPosicionCorrespondiente")
  <2>1. /\ DatosEncima(0)'
        /\ pila' \in Seq(Letras \cup {Retorno})
        /\ pc' \in {"encontrarPosicionCorrespondiente", "desbordada"}
    BY <1>0, <1>4, <1>7, ApilarRetorno
  <2>2. TypeOK'
    BY <1>0, <1>1, <1>7, <2>1 DEF TypeOK, Pcs
  <2>3. PilaBalanceada'
    BY <2>1 DEF PilaBalanceada
  <2>4. InvControl'
    BY <1>1, <1>4, <2>1, LimiteAssumption DEF InvControl, EntreTurnos
  <2>5. caracter \notin S
    BY <1>2, <1>3, <1>6, <1>7 DEF Contenido
  <2>6. EnSuLugar(n, S)'
    BY <1>1, <1>3, <1>7, <2>5 DEF EnSuLugar, EnMano
  <2>7. Colocando'
    BY <2>6 DEF Colocando
  <2>8. leidos' \subseteq S \cup {caracter'} /\ Contenido(arrayCaracteres', n, S)
    BY <1>1, <1>3
  <2>9. Abandonado'
    BY <2>8 DEF Abandonado
  <2> QED
    BY <2>1, <2>2, <2>3, <2>4, <2>7, <2>9 DEF IInv, InvArray, EntreTurnos
<1>8. CASE /\ ~FinDelArray /\ Byte(contadorRecorrer) = caracter
           /\ pc' = "incrementarContadorCantCaract"
           /\ UNCHANGED <<contadorRecorrer, pila>>
  <2>1. TypeOK'
    BY <1>0, <1>1, <1>8 DEF TypeOK, Pcs
  <2>2. PilaBalanceada'
    BY <1>4, <1>8 DEF PilaBalanceada, DatosEncima
  <2>3. InvControl'
    BY <1>1, <1>4, <1>8, LimiteAssumption DEF InvControl, EntreTurnos
  <2>4. arrayCaracteres[contadorRecorrer] \in S
    <3>1. contadorRecorrer # n
      BY <1>6, <1>8
    <3>2. contadorRecorrer \in 0..n - 1
      BY <1>3, <1>5, <3>1, LimiteAssumption
    <3> QED
      BY <1>3, <3>2 DEF Contenido
  <2>5. leidos = S
    BY <1>3, <1>6, <1>8, <2>4
  <2>6. n \in 0..contadorCantCaract'
    BY <1>1, <1>3, <1>4, <1>5, LimiteAssumption
  <2>7. Contenido(arrayCaracteres', n, leidos')
    BY <1>1, <1>3, <2>5
  <2>8. Colocado'
    BY <2>6, <2>7 DEF Colocado
  <2> QED
    BY <1>8, <2>1, <2>2, <2>3, <2>8 DEF IInv, InvArray, EntreTurnos
<1>9. CASE /\ ~FinDelArray /\ Byte(contadorRecorrer) # caracter
           /\ contadorRecorrer' = contadorRecorrer + 1
           /\ UNCHANGED <<pc, pila>>
  <2>1. TypeOK'
    BY <1>0, <1>1, <1>9 DEF TypeOK
  <2>2. PilaBalanceada'
    BY <1>1, <1>4, <1>9 DEF PilaBalanceada, DatosEncima
  <2>3. InvControl'
    BY <1>1, <1>4, <1>9, LimiteAssumption DEF InvControl, EntreTurnos
  <2>4. /\ contadorRecorrer' \in 0..n
        /\ \A i \in 0..contadorRecorrer' - 1 :
             i \in 0..contadorRecorrer - 1 \/ i = contadorRecorrer
    BY <1>3, <1>6, <1>9
  <2>5. EnMano(n, S)'
    BY <1>1, <1>3, <2>4 DEF EnMano
  <2>6. \A i \in 0..contadorRecorrer' - 1 : arrayCaracteres'[i] # caracter'
    BY <1>1, <1>2, <1>6, <1>9, <2>4
  <2>7. Buscando'
    BY <2>5, <2>6 DEF Buscando
  <2> QED
    BY <1>1, <1>9, <2>1, <2>2, <2>3, <2>7 DEF IInv, InvArray, EntreTurnos
<1> QED
  BY <1>7, <1>8, <1>9 DEF CorroborarInexistencia, IncrementarContadorRecorrer

\* Putting a new character c at its place p of a sorted array, and every
\* later one a place further, leaves a sorted array.
LEMMA Insercion ==
  ASSUME NEW f, NEW n \in Nat, n < LargoArray, NEW S \in SUBSET Letras,
         Contenido(f, n, S),
         NEW p \in 0..n, NEW c \in Letras, c \notin S,
         \A i \in 0..p - 1 : f[i] < c,
         p < n => c < f[p],
         NEW g,
         \A j \in 0..p - 1 : g[j] = f[j],
         g[p] = c,
         \A j \in p + 1..n : g[j] = f[j - 1],
         \A j \in n + 1..LargoArray - 1 : g[j] = 0
  PROVE  Contenido(g, n + 1, S \cup {c})
<1>0. /\ LargoArray \in Nat /\ Letras \subseteq 1..255
      /\ \A i \in 0..n - 1 : f[i] \in S
      /\ \A i, j \in 0..n - 1 : i < j => f[i] < f[j]
      /\ \A x \in S : \E i \in 0..n - 1 : f[i] = x
  BY LargoAssumption, LetrasAssumption DEF Contenido
<1>1. \A i \in 0..n : g[i] \in S \cup {c}
  <2> SUFFICES ASSUME NEW i \in 0..n PROVE g[i] \in S \cup {c}
      OBVIOUS
  <2>1. CASE i < p
    BY <1>0, <2>1
  <2>2. CASE i = p
    BY <2>2
  <2>3. CASE i > p
    BY <1>0, <2>3
  <2> QED
    BY <2>1, <2>2, <2>3
<1>2. \A i \in p..n - 1 : c < f[i]
  <2> SUFFICES ASSUME NEW i \in p..n - 1 PROVE c < f[i]
      OBVIOUS
  <2>0. p \in 0..n - 1 /\ i \in 0..n - 1
    OBVIOUS
  <2>1. f[p] \in 1..255 /\ f[i] \in 1..255 /\ c \in 1..255
    BY <1>0, <2>0
  <2>2. p = i \/ f[p] < f[i]
    BY <1>0, <2>0
  <2>3. c < f[p]
    BY <2>0
  <2>4. CASE p = i
    BY <2>3, <2>4
  <2>5. CASE f[p] < f[i]
    <3>1. f[p] \in Int /\ f[i] \in Int /\ c \in Int
      BY ONLY <2>1
    <3> QED
      BY ONLY <3>1, <2>3, <2>5
  <2> QED
    BY <2>2, <2>4, <2>5
<1>3. ASSUME NEW i \in 0..n, NEW j \in 0..n, i < j PROVE g[i] < g[j]
  <2>1. CASE j < p
    BY <1>0, <1>3, <2>1
  <2>2. CASE j = p
    BY <1>3, <2>2
  <2>3. CASE i < p /\ j > p
    <3>1. i \in 0..n - 1 /\ j - 1 \in 0..n - 1 /\ i < j - 1
      BY <2>3
    <3>2. g[i] = f[i] /\ g[j] = f[j - 1]
      BY <2>3
    <3> QED
      BY <1>0, <3>1, <3>2
  <2>4. CASE i = p
    <3>1. j - 1 \in p..n - 1 /\ g[j] = f[j - 1]
      BY <1>3, <2>4
    <3> QED
      BY <1>2, <2>4, <3>1
  <2>5. CASE i > p
    <3>1. i - 1 \in 0..n - 1 /\ j - 1 \in 0..n - 1 /\ i - 1 < j - 1
      BY <1>3, <2>5
    <3>2. g[i] = f[i - 1] /\ g[j] = f[j - 1]
      BY <1>3, <2>5
    <3> QED
      BY <1>0, <3>1, <3>2
  <2> QED
    BY <1>3, <2>1, <2>2, <2>3, <2>4, <2>5
<1>4. ASSUME NEW x \in S \cup {c} PROVE \E i \in 0..n : g[i] = x
  <2>1. CASE x = c
    BY <2>1
  <2>2. CASE x \in S
    <3>1. PICK i \in 0..n - 1 : f[i] = x
      BY <1>0, <2>2
    <3>2. CASE i < p
      BY <3>1, <3>2
    <3>3. CASE i >= p
      <4>1. i + 1 \in p + 1..n /\ (i + 1) - 1 = i
        BY <3>3
      <4> QED
        BY <3>1, <4>1
    <3> QED
      BY <3>2, <3>3
  <2> QED
    BY <2>1, <2>2
<1> QED
  BY <1>0, <1>1, <1>3, <1>4 DEF Contenido

\* What is known wherever the place of a new character is looked for.
LEMMA EnSuLugarHechos ==
  ASSUME TypeOK, InvControl, NEW n \in 0..LargoArray, NEW S \in SUBSET Letras,
         EnSuLugar(n, S), pc \in Pcs, ~EntreTurnos, pc # "desbordada"
  PROVE  /\ leidos = S \cup {caracter}
         /\ Contenido(arrayCaracteres, n, S)
         /\ caracter \in Letras /\ caracter \notin S
         /\ contadorRecorrer \in 0..n
         /\ \A i \in 0..contadorRecorrer - 1 : arrayCaracteres[i] < caracter
         /\ n \in Nat /\ n <= contadorCantCaract - 1
         /\ contadorCantCaract \in 1..Limite /\ n \in 0..Limite - 1
         /\ n + 3 < LargoArray /\ LargoArray \in Nat
         /\ aceptados = contadorCantCaract /\ aceptados <= Limite
         /\ salida = <<>>
<1>1. /\ leidos = S \cup {caracter} /\ caracter # 0 /\ caracter \notin S
      /\ Contenido(arrayCaracteres, n, S)
      /\ contadorRecorrer \in 0..n /\ n <= contadorCantCaract - 1
      /\ \A i \in 0..contadorRecorrer - 1 : arrayCaracteres[i] < caracter
  BY DEF EnSuLugar, EnMano
<1>2. caracter \in Letras
  BY <1>1 DEF TypeOK
<1>3. /\ contadorCantCaract \in 1..Limite + 1 /\ contadorCantCaract <= Limite
      /\ aceptados = contadorCantCaract /\ aceptados <= Limite /\ salida = <<>>
  BY DEF TypeOK, InvControl, EntreTurnos
<1> QED
  BY <1>1, <1>2, <1>3, LargoAssumption, LimiteAssumption

LEMMA EncontrarIInv == IInv /\ EncontrarPosicionCorrespondiente => IInv'
<1> SUFFICES ASSUME IInv, EncontrarPosicionCorrespondiente PROVE IInv'
    OBVIOUS
<1>0. TypeOK /\ PilaBalanceada /\ InvControl /\ InvArray
  BY DEF IInv
<1>1. /\ pc = "encontrarPosicionCorrespondiente"
      /\ UNCHANGED <<contadorCantCaract, caracter, numero, cadena, entrada,
                     salida, leidos, aceptados, vacias>>
  BY DEF EncontrarPosicionCorrespondiente, historia
<1>2. PICK n \in 0..LargoArray, S \in SUBSET Letras : EnSuLugar(n, S)
  BY <1>0, <1>1 DEF InvArray, Colocando
<1>3. /\ leidos = S \cup {caracter}
      /\ Contenido(arrayCaracteres, n, S)
      /\ caracter \in Letras /\ caracter \notin S
      /\ contadorRecorrer \in 0..n
      /\ \A i \in 0..contadorRecorrer - 1 : arrayCaracteres[i] < caracter
      /\ n \in Nat /\ n <= contadorCantCaract - 1
      /\ contadorCantCaract \in 1..Limite /\ n \in 0..Limite - 1
      /\ n + 3 < LargoArray /\ LargoArray \in Nat
      /\ aceptados = contadorCantCaract /\ aceptados <= Limite
      /\ salida = <<>>
  <2>1. pc \in Pcs /\ ~EntreTurnos /\ pc # "desbordada"
    BY <1>1 DEF Pcs, EntreTurnos
  <2> QED
    BY <1>0, <1>2, <2>1, EnSuLugarHechos
<1>4. DatosEncima(0)
  BY <1>0, <1>1 DEF PilaBalanceada
<1>5. /\ Byte(contadorRecorrer) = arrayCaracteres[contadorRecorrer]
      /\ contadorRecorrer \in 0..LargoArray - 1
  BY <1>3 DEF Byte
<1>6. CASE /\ arrayCaracteres[contadorRecorrer] = 0
           /\ Ubicar
  <2>1. contadorRecorrer = n
    BY <1>3, <1>6, LetrasAssumption DEF Contenido
  <2>2. /\ pc' = "incrementarContadorCantCaract"
        /\ UNCHANGED <<contadorRecorrer, ecx, pila>>
        /\ arrayCaracteres' \in [0..LargoArray - 1 -> Letras \cup {0}]
        /\ \A i \in 0..n - 1 : arrayCaracteres'[i] = arrayCaracteres[i]
        /\ arrayCaracteres'[n] = caracter
        /\ \A i \in n + 1..LargoArray - 1 : arrayCaracteres'[i] = 0
    <3>1. /\ arrayCaracteres \in [0..LargoArray - 1 -> Letras \cup {0}]
          /\ \A i \in n..LargoArray - 1 : arrayCaracteres[i] = 0
      BY <1>0, <1>3 DEF TypeOK, Contenido
    <3> QED
      BY <1>3, <1>6, <2>1, <3>1 DEF Ubicar
  <2>3. TypeOK'
    BY <1>0, <1>1, <2>2 DEF TypeOK, Pcs
  <2>4. PilaBalanceada'
    BY <1>4, <2>2 DEF PilaBalanceada, DatosEncima
  <2>5. InvControl'
    BY <1>1, <1>3, <2>2, LimiteAssumption DEF InvControl, EntreTurnos
  <2>6. Contenido(arrayCaracteres', n + 1, S \cup {caracter})
    <3>1. n < LargoArray /\ contadorRecorrer = n
      BY <1>3, <2>1
    <3>2. \A j \in n + 1..n : arrayCaracteres'[j] = arrayCaracteres[j - 1]
      BY <1>3
    <3> QED
      BY <1>3, <2>2, <3>1, <3>2, Insercion
  <2>7. Colocado'
    BY <1>1, <1>3, <2>6, LimiteAssumption DEF Colocado
  <2> QED
    BY <2>2, <2>3, <2>4, <2>5, <2>7 DEF IInv, InvArray, EntreTurnos
<1>7. CASE /\ arrayCaracteres[contadorRecorrer] # 0
           /\ caracter < arrayCaracteres[contadorRecorrer]
           /\ pc' = "buscarUltimo" /\ ecx' = contadorRecorrer
           /\ UNCHANGED <<contadorRecorrer, arrayCaracteres, pila>>
  <2>1. contadorRecorrer \in 0..n - 1
    BY <1>3, <1>5, <1>7 DEF Contenido
  <2>2. TypeOK'
    BY <1>0, <1>1, <1>7 DEF TypeOK, Pcs
  <2>3. PilaBalanceada'
    BY <1>4, <1>7 DEF PilaBalanceada, DatosEncima
  <2>4. InvControl'
    BY <1>1, <1>3, <1>7, LimiteAssumption DEF InvControl, EntreTurnos
  <2>5. AEmpujar(n, S)'
    BY <1>1, <1>2, <1>3, <1>7, <2>1 DEF AEmpujar, EnSuLugar, EnMano
  <2>6. BuscandoUltimo'
    BY <1>7, <2>1, <2>5 DEF BuscandoUltimo
  <2> QED
    BY <1>7, <2>2, <2>3, <2>4, <2>6 DEF IInv, InvArray, EntreTurnos
<1>8. CASE /\ arrayCaracteres[contadorRecorrer] # 0
           /\ ~(caracter < arrayCaracteres[contadorRecorrer])
           /\ contadorRecorrer' = contadorRecorrer + 1
           /\ Apilar(Retorno, "encontrarPosicionCorrespondiente")
           /\ UNCHANGED <<arrayCaracteres, ecx>>
  <2>1. contadorRecorrer \in 0..n - 1
    BY <1>3, <1>5, <1>8 DEF Contenido
  <2>2. /\ DatosEncima(0)'
        /\ pila' \in Seq(Letras \cup {Retorno})
        /\ pc' \in {"encontrarPosicionCorrespondiente", "desbordada"}
    BY <1>0, <1>4, <1>8, ApilarRetorno
  <2>3. TypeOK'
    BY <1>0, <1>1, <1>8, <2>2 DEF TypeOK, Pcs
  <2>4. PilaBalanceada'
    BY <2>2 DEF PilaBalanceada
  <2>5. InvControl'
    BY <1>1, <1>3, <2>2, LimiteAssumption DEF InvControl, EntreTurnos
  <2>6. arrayCaracteres[contadorRecorrer] < caracter
    <3>1. arrayCaracteres[contadorRecorrer] \in S
      BY <1>3, <2>1 DEF Contenido
    <3>2. /\ arrayCaracteres[contadorRecorrer] \in 1..255 /\ caracter \in 1..255
          /\ arrayCaracteres[contadorRecorrer] # caracter
      BY <1>3, <3>1, LetrasAssumption
    <3> QED
      BY <1>8, <3>2
  <2>7. /\ contadorRecorrer' \in 0..n
        /\ \A i \in 0..contadorRecorrer' - 1 :
             i \in 0..contadorRecorrer - 1 \/ i = contadorRecorrer
    BY <1>3, <1>8, <2>1
  <2>8. \A i \in 0..contadorRecorrer' - 1 : arrayCaracteres'[i] < caracter'
    BY <1>1, <1>3, <1>8, <2>6, <2>7
  <2>9. EnMano(n, S)'
    BY <1>1, <1>2, <1>3, <1>8, <2>7 DEF EnSuLugar, EnMano
  <2>10. EnSuLugar(n, S)'
    BY <1>1, <1>3, <2>8, <2>9 DEF EnSuLugar
  <2>11. Colocando'
    BY <2>10 DEF Colocando
  <2>12. leidos' \subseteq S \cup {caracter'} /\ Contenido(arrayCaracteres', n, S)
    BY <1>1, <1>3, <1>8
  <2>13. Abandonado'
    BY <2>12 DEF Abandonado
  <2> QED
    BY <2>2, <2>3, <2>4, <2>5, <2>11, <2>13 DEF IInv, InvArray, EntreTurnos
<1> QED
  BY <1>5, <1>6, <1>7, <1>8 DEF EncontrarPosicionCorrespondiente, VaAntes

LEMMA BuscarUltimoIInv == IInv /\ BuscarUltimo => IInv'
<1> SUFFICES ASSUME IInv, BuscarUltimo PROVE IInv'
    OBVIOUS
<1>0. TypeOK /\ PilaBalanceada /\ InvControl /\ InvArray
  BY DEF IInv
<1>1. /\ pc = "buscarUltimo"
      /\ UNCHANGED <<contadorCantCaract, contadorRecorrer, caracter,
                     arrayCaracteres, cadena, pila, entrada, salida, leidos,
                     aceptados, vacias>>
      /\ ecx' = ecx + 1
  BY DEF BuscarUltimo, historia
<1>2. PICK n \in 0..LargoArray, S \in SUBSET Letras :
        AEmpujar(n, S) /\ ecx \in contadorRecorrer..n - 1
  BY <1>0, <1>1 DEF InvArray, BuscandoUltimo
<1>3. /\ Contenido(arrayCaracteres, n, S)
      /\ contadorRecorrer \in 0..n
      /\ n \in Nat /\ n <= contadorCantCaract - 1
      /\ contadorCantCaract \in 1..Limite /\ n \in 0..Limite - 1
      /\ n + 3 < LargoArray /\ LargoArray \in Nat
      /\ aceptados = contadorCantCaract /\ aceptados <= Limite
      /\ salida = <<>>
  <2>1. pc \in Pcs /\ ~EntreTurnos /\ pc # "desbordada"
    BY <1>1 DEF Pcs, EntreTurnos
  <2>2. EnSuLugar(n, S)
    BY <1>2 DEF AEmpujar
  <2> QED
    BY <1>0, <2>1, <2>2, EnSuLugarHechos
<1>4. AEmpujar(n, S)'
  BY <1>1, <1>2 DEF AEmpujar, EnSuLugar, EnMano
<1>5. /\ Byte(ecx + 1) = arrayCaracteres[ecx + 1]
      /\ arrayCaracteres[ecx + 1] = 0 <=> ecx + 1 = n
  <2>1. ecx + 1 \in 0..LargoArray - 1 /\ ecx + 1 <= n
    BY <1>2, <1>3
  <2>2. CASE ecx + 1 = n
    BY <1>3, <2>1, <2>2 DEF Contenido, Byte
  <2>3. CASE ecx + 1 # n
    <3>1. arrayCaracteres[ecx + 1] \in S
      BY <1>3, <2>1, <2>3 DEF Contenido
    <3> QED
      BY <1>3, <2>1, <2>3, <3>1, LetrasAssumption DEF Byte
  <2> QED
    BY <2>2, <2>3
<1>6. DatosEncima(0)
  BY <1>0, <1>1 DEF PilaBalanceada
<1>7. CASE arrayCaracteres[ecx + 1] # 0 /\ UNCHANGED <<pc, numero>>
  <2>1. TypeOK'
    BY <1>0, <1>1, <1>7 DEF TypeOK
  <2>2. PilaBalanceada'
    BY <1>1, <1>6, <1>7 DEF PilaBalanceada, DatosEncima
  <2>3. InvControl'
    BY <1>1, <1>3, <1>7, LimiteAssumption DEF InvControl, EntreTurnos
  <2>4. ecx' \in contadorRecorrer'..n - 1
    BY <1>1, <1>2, <1>3, <1>5, <1>7
  <2>5. BuscandoUltimo'
    BY <1>4, <2>4 DEF BuscandoUltimo
  <2> QED
    BY <1>1, <1>7, <2>1, <2>2, <2>3, <2>5 DEF IInv, InvArray, EntreTurnos
<1>8. CASE /\ arrayCaracteres[ecx + 1] = 0
           /\ numero' = ecx + 1 /\ pc' = "guardarEnPila"
  <2>1. numero' = n /\ ecx' = n
    BY <1>1, <1>5, <1>8
  <2>2. TypeOK'
    BY <1>0, <1>1, <1>8 DEF TypeOK, Pcs
  <2>3. PilaBalanceada'
    <3>1. numero' - ecx' = 0
      BY <1>3, <2>1
    <3>2. DatosEncima(0)'
      BY <1>1, <1>6 DEF DatosEncima
    <3> QED
      BY <1>8, <3>1, <3>2 DEF PilaBalanceada
  <2>4. InvControl'
    BY <1>1, <1>3, <1>8, LimiteAssumption DEF InvControl, EntreTurnos
  <2>5. Guardando'
    <3>1. \E T \in SUBSET Letras : AEmpujar(n, T)'
      BY <1>4
    <3>2. ecx' \in contadorRecorrer'..numero'
      BY <1>1, <1>3, <2>1
    <3>3. \A j \in ecx'..numero' - 1 : FALSE
      BY <1>3, <2>1
    <3> QED
      BY <2>1, <3>1, <3>2, <3>3 DEF Guardando
  <2> QED
    BY <1>8, <2>2, <2>3, <2>4, <2>5 DEF IInv, InvArray, EntreTurnos
<1> QED
  BY <1>5, <1>7, <1>8 DEF BuscarUltimo

\* What is known while the tail is being saved: the array still holds the
\* numero characters of S.
LEMMA GuardandoHechos ==
  ASSUME IInv, pc = "guardarEnPila", NEW S \in SUBSET Letras,
         AEmpujar(numero, S)
  PROVE  /\ leidos = S \cup {caracter}
         /\ Contenido(arrayCaracteres, numero, S)
         /\ caracter \in Letras /\ caracter \notin S
         /\ contadorRecorrer \in 0..numero - 1
         /\ \A i \in 0..contadorRecorrer - 1 : arrayCaracteres[i] < caracter
         /\ caracter < arrayCaracteres[contadorRecorrer]
         /\ numero \in Nat /\ numero <= contadorCantCaract - 1
         /\ contadorCantCaract \in 1..Limite
         /\ numero + 3 < LargoArray /\ LargoArray \in Nat
         /\ aceptados = contadorCantCaract /\ aceptados <= Limite
         /\ salida = <<>>
<1>1. TypeOK /\ InvControl
  BY DEF IInv
<1>2. /\ EnSuLugar(numero, S) /\ contadorRecorrer < numero
      /\ caracter < arrayCaracteres[contadorRecorrer]
  BY DEF AEmpujar
<1>3. numero \in 0..LargoArray
  BY <1>2 DEF EnSuLugar, EnMano, Contenido
<1>4. pc \in Pcs /\ ~EntreTurnos /\ pc # "desbordada"
  BY DEF Pcs, EntreTurnos
<1>5. /\ leidos = S \cup {caracter}
      /\ Contenido(arrayCaracteres, numero, S)
      /\ caracter \in Letras /\ caracter \notin S
      /\ contadorRecorrer \in 0..numero
      /\ \A i \in 0..contadorRecorrer - 1 : arrayCaracteres[i] < caracter
      /\ numero \in Nat /\ numero <= contadorCantCaract - 1
      /\ contadorCantCaract \in 1..Limite
      /\ numero + 3 < LargoArray /\ LargoArray \in Nat
      /\ aceptados = contadorCantCaract /\ aceptados <= Limite
      /\ salida = <<>>
  BY <1>1, <1>2, <1>3, <1>4, EnSuLugarHechos
<1> QED
  BY <1>2, <1>5

LEMMA GuardarEnPilaIInv == IInv /\ GuardarEnPila => IInv'
<1> SUFFICES ASSUME IInv, GuardarEnPila PROVE IInv'
    OBVIOUS
<1>0. TypeOK /\ PilaBalanceada /\ InvControl /\ InvArray
  BY DEF IInv
<1>1. /\ pc = "guardarEnPila" /\ ecx # contadorRecorrer
      /\ UNCHANGED <<contadorCantCaract, contadorRecorrer, caracter, numero,
                     arrayCaracteres, cadena, entrada, salida, leidos,
                     aceptados, vacias>>
      /\ ecx' = ecx - 1
      /\ Apilar(Byte(ecx - 1), "guardarEnPila")
  BY DEF GuardarEnPila, historia, ByteAGuardar
<1>2. Guardando /\ DatosEncima(numero - ecx)
  BY <1>0, <1>1 DEF InvArray, PilaBalanceada
<1>3. PICK S \in SUBSET Letras : AEmpujar(numero, S)
  BY <1>2 DEF Guardando
<1>4. /\ leidos = S \cup {caracter}
      /\ Contenido(arrayCaracteres, numero, S)
      /\ contadorRecorrer \in 0..numero - 1
      /\ numero \in Nat /\ numero <= contadorCantCaract - 1
      /\ contadorCantCaract \in 1..Limite
      /\ numero + 3 < LargoArray /\ LargoArray \in Nat
      /\ aceptados = contadorCantCaract /\ aceptados <= Limite
      /\ salida = <<>>
  BY <1>1, <1>3, GuardandoHechos
<1>5. /\ ecx \in contadorRecorrer + 1..numero
      /\ \A j \in ecx..numero - 1 :
           pila[Len(pila) - (j - ecx)] = arrayCaracteres[j]
  BY <1>1, <1>2, <1>4 DEF Guardando
<1>6. /\ Byte(ecx - 1) = arrayCaracteres[ecx - 1]
      /\ arrayCaracteres[ecx - 1] \in Letras
      /\ ecx - 1 \in Nat
  <2>1. ecx - 1 \in 0..numero - 1 /\ ecx - 1 < LargoArray
    BY <1>4, <1>5
  <2>2. arrayCaracteres[ecx - 1] \in S
    BY <1>4, <2>1 DEF Contenido
  <2> QED
    BY <2>1, <2>2 DEF Byte
<1>7. InvControl'
  <2>1. pc' \in {"guardarEnPila", "desbordada"}
    BY <1>1 DEF Apilar
  <2> QED
    BY <1>1, <1>4, <2>1, LimiteAssumption DEF InvControl, EntreTurnos
<1>8. CASE pc' = "desbordada" /\ pila' = pila
  <2>1. TypeOK'
    BY <1>0, <1>1, <1>6, <1>8 DEF TypeOK, Pcs
  <2>2. PilaBalanceada'
    BY <1>8 DEF PilaBalanceada
  <2>3. /\ leidos' \subseteq S \cup {caracter'}
        /\ Contenido(arrayCaracteres', numero, S)
        /\ numero \in 0..LargoArray
    BY <1>1, <1>4
  <2>4. Abandonado'
    <3>1. PICK m \in 0..LargoArray : m = numero
      BY <2>3
    <3>2. Contenido(arrayCaracteres', m, S)
      BY <2>3, <3>1
    <3> QED
      BY <2>3, <3>2 DEF Abandonado
  <2> QED
    BY <1>7, <1>8, <2>1, <2>2, <2>4 DEF IInv, InvArray, EntreTurnos
<1>9. CASE pc' # "desbordada"
  <2>1. numero - ecx \in Nat
    BY <1>4, <1>5
  <2>2. PICK k \in Nat : k = numero - ecx
    BY <2>1
  <2>3. PICK d \in Letras : d = arrayCaracteres[ecx - 1]
    BY <1>6
  <2>4. DatosEncima(k) /\ Apilar(d, "guardarEnPila")
    BY <1>1, <1>2, <1>6, <2>2, <2>3
  <2>5. /\ pc' = "guardarEnPila" /\ pila' = Append(pila, d)
        /\ Len(pila') = Len(pila) + 1
        /\ pila' \in Seq(Letras \cup {Retorno})
        /\ DatosEncima(k + 1)'
    BY <1>0, <1>9, <2>4, ApilarDato
  <2>6. numero' - ecx' = k + 1
    BY <1>1, <1>4, <1>5, <2>2
  <2>7. TypeOK'
    BY <1>0, <1>1, <1>6, <2>5 DEF TypeOK
  <2>8. PilaBalanceada'
    <3>1. DatosEncima(numero - ecx)'
      BY <2>5, <2>6 DEF DatosEncima
    <3> QED
      BY <2>5, <3>1 DEF PilaBalanceada
  <2>9. \A j \in ecx'..numero' - 1 :
          pila'[Len(pila') - (j - ecx')] = arrayCaracteres'[j]
    <3> SUFFICES ASSUME NEW j \in ecx'..numero' - 1
                 PROVE  pila'[Len(pila') - (j - ecx')] = arrayCaracteres'[j]
        OBVIOUS
    <3>0. /\ j \in ecx - 1..numero - 1 /\ arrayCaracteres' = arrayCaracteres
          /\ Len(pila') - (j - ecx') = Len(pila) + 1 - (j - (ecx - 1))
      BY <1>1, <2>5
    <3>1. pila \in Seq(Letras \cup {Retorno}) /\ k \in 0..Len(pila)
      BY <1>0, <2>4 DEF TypeOK, DatosEncima
    <3>2. CASE j = ecx - 1
      <4>1. Len(pila) + 1 - (j - (ecx - 1)) = Len(pila) + 1
        BY <1>4, <1>5, <3>1, <3>2
      <4>2. pila'[Len(pila) + 1] = d
        BY <2>5, <3>1
      <4> QED
        BY <2>3, <3>0, <3>2, <4>1, <4>2
    <3>3. CASE j \in ecx..numero - 1
      <4>1. /\ Len(pila) + 1 - (j - (ecx - 1)) = Len(pila) - (j - ecx)
            /\ Len(pila) - (j - ecx) \in 1..Len(pila)
        BY <1>4, <1>5, <2>2, <3>1, <3>3
      <4>2. pila'[Len(pila) - (j - ecx)] = pila[Len(pila) - (j - ecx)]
        BY <2>5, <3>1, <4>1
      <4> QED
        BY <1>5, <3>0, <3>3, <4>1, <4>2
    <3> QED
      BY <1>4, <1>5, <3>0, <3>2, <3>3
  <2>10. Guardando'
    <3>1. AEmpujar(numero, S)'
      BY <1>1, <1>3 DEF AEmpujar, EnSuLugar, EnMano
    <3>2. ecx' \in contadorRecorrer'..numero'
      BY <1>1, <1>4, <1>5
    <3> QED
      BY <2>9, <3>1, <3>2 DEF Guardando
  <2> QED
    BY <1>7, <2>5, <2>7, <2>8, <2>10 DEF IInv, InvArray, EntreTurnos
<1> QED
  BY <1>1, <1>8, <1>9 DEF Apilar

LEMMA PreUbicarIInv == IInv /\ PreUbicar => IInv'
<1> SUFFICES ASSUME IInv, PreUbicar PROVE IInv'
    OBVIOUS
<1>0. TypeOK /\ PilaBalanceada /\ InvControl /\ InvArray
  BY DEF IInv
<1>1. /\ pc = "guardarEnPila" /\ ecx = contadorRecorrer
      /\ UNCHANGED <<contadorCantCaract, contadorRecorrer, caracter, numero,
                     cadena, pila, entrada, salida, leidos, aceptados, vacias>>
      /\ arrayCaracteres' = [arrayCaracteres EXCEPT ![contadorRecorrer] = caracter]
      /\ ecx' = contadorRecorrer + 1
      /\ pc' = "ubicarTodo"
  BY DEF PreUbicar, historia
<1>2. Guardando /\ DatosEncima(numero - ecx)
  BY <1>0, <1>1 DEF InvArray, PilaBalanceada
<1>3. PICK S \in SUBSET Letras : AEmpujar(numero, S)
  BY <1>2 DEF Guardando
<1>4. /\ leidos = S \cup {caracter}
      /\ Contenido(arrayCaracteres, numero, S)
      /\ caracter \in Letras /\ caracter \notin S
      /\ contadorRecorrer \in 0..numero - 1
      /\ \A i \in 0..contadorRecorrer - 1 : arrayCaracteres[i] < caracter
      /\ caracter < arrayCaracteres[contadorRecorrer]
      /\ numero \in Nat /\ numero <= contadorCantCaract - 1
      /\ contadorCantCaract \in 1..Limite
      /\ numero + 3 < LargoArray /\ LargoArray \in Nat
      /\ aceptados = contadorCantCaract /\ aceptados <= Limite
      /\ salida = <<>>
  BY <1>1, <1>3, GuardandoHechos
<1>5. \A j \in contadorRecorrer..numero - 1 :
        pila[Len(pila) - (j - contadorRecorrer)] = arrayCaracteres[j]
  BY <1>1, <1>2 DEF Guardando
<1>6. TypeOK'
  BY <1>0, <1>1, <1>4 DEF TypeOK, Pcs
<1>7. InvControl'
  BY <1>1, <1>4, LimiteAssumption DEF InvControl, EntreTurnos
<1>8. PilaBalanceada'
  <2>1. numero' + 1 - ecx' = numero - ecx
    BY <1>1, <1>4
  <2>2. DatosEncima(numero + 1 - ecx)'
    BY <1>1, <1>2, <2>1 DEF DatosEncima
  <2> QED
    BY <1>1, <2>2 DEF PilaBalanceada
<1>9. Contenido(Futuro', numero + 1, S \cup {caracter})
  <2>1. /\ arrayCaracteres \in [0..LargoArray - 1 -> Letras \cup {0}]
        /\ \A i \in numero..LargoArray - 1 : arrayCaracteres[i] = 0
    BY <1>0, <1>4 DEF TypeOK, Contenido
  <2>2. \A j \in 0..LargoArray - 1 : Futuro'[j] =
          IF j >= contadorRecorrer + 1 /\ j <= numero
          THEN pila[Len(pila) - (j - (contadorRecorrer + 1))]
          ELSE IF j = contadorRecorrer THEN caracter ELSE arrayCaracteres[j]
    BY <1>1, <1>4, <2>1 DEF Futuro
  <2>3. \A j \in 0..contadorRecorrer - 1 : Futuro'[j] = arrayCaracteres[j]
    BY <1>4, <2>2
  <2>4. Futuro'[contadorRecorrer] = caracter
    BY <1>4, <2>2
  <2>5. ASSUME NEW j \in contadorRecorrer + 1..numero
        PROVE  Futuro'[j] = arrayCaracteres[j - 1]
    <3>1. j - 1 \in contadorRecorrer..numero - 1 /\ j \in 0..LargoArray - 1
      BY <1>4
    <3>2. j - (contadorRecorrer + 1) = (j - 1) - contadorRecorrer
      BY <1>4
    <3>3. Futuro'[j] = pila[Len(pila) - (j - (contadorRecorrer + 1))]
      BY <2>2, <3>1
    <3> QED
      BY <1>5, <3>1, <3>2, <3>3
  <2>6. \A j \in numero + 1..LargoArray - 1 : Futuro'[j] = 0
    BY <1>4, <2>1, <2>2
  <2> QED
    BY <1>4, <2>3, <2>4, <2>5, <2>6, Insercion
<1>10. Ubicando'
  <2>1. Contenido(Futuro, numero + 1, leidos)'
    BY <1>1, <1>4, <1>9
  <2>2. ecx' \in 1..numero' + 1 /\ numero' + 1 <= contadorCantCaract'
    BY <1>1, <1>4
  <2> QED
    BY <2>1, <2>2 DEF Ubicando
<1> QED
  BY <1>1, <1>6, <1>7, <1>8, <1>10 DEF IInv, InvArray, EntreTurnos

LEMMA UbicarTodoIInv == IInv /\ UbicarTodo => IInv'
<1> SUFFICES ASSUME IInv, UbicarTodo PROVE IInv'
    OBVIOUS
<1>0. TypeOK /\ PilaBalanceada /\ InvControl /\ InvArray
  BY DEF IInv
<1>1. /\ pc = "ubicarTodo"
      /\ UNCHANGED <<contadorCantCaract, contadorRecorrer, caracter, numero,
                     cadena, entrada, salida, leidos, aceptados, vacias>>
  BY DEF UbicarTodo, historia
<1>2. /\ ecx \in 1..numero + 1
      /\ numero + 1 <= contadorCantCaract
      /\ Contenido(Futuro, numero + 1, leidos)
      /\ DatosEncima(numero + 1 - ecx)
  BY <1>0, <1>1 DEF InvArray, PilaBalanceada, Ubicando
<1>3. /\ contadorCantCaract \in 1..Limite
      /\ aceptados = contadorCantCaract /\ aceptados <= Limite
      /\ salida = <<>> /\ numero \in Nat
  BY <1>0, <1>1, LimiteAssumption DEF InvControl, EntreTurnos, TypeOK, Pcs
<1>4. numero + 1 < LargoArray /\ LargoArray \in Nat
  BY <1>2, <1>3, LimiteAssumption, LargoAssumption
<1>5. arrayCaracteres \in [0..LargoArray - 1 -> Letras \cup {0}]
      /\ pila \in Seq(Letras \cup {Retorno})
  BY <1>0 DEF TypeOK
<1>6. InvControl'
  <2>1. pc' \in {"ubicarTodo", "incrementarContadorCantCaract"}
    BY <1>1 DEF UbicarTodo
  <2> QED
    BY <1>1, <1>3, <2>1, LimiteAssumption DEF InvControl, EntreTurnos
<1>7. CASE /\ ecx = numero + 1
           /\ pc' = "incrementarContadorCantCaract"
           /\ UNCHANGED <<arrayCaracteres, ecx, pila>>
  <2>1. TypeOK'
    BY <1>0, <1>1, <1>7 DEF TypeOK, Pcs
  <2>2. DatosEncima(0)
    BY <1>2, <1>3, <1>7
  <2>3. PilaBalanceada'
    BY <1>7, <2>2 DEF PilaBalanceada, DatosEncima
  <2>4. Futuro = arrayCaracteres
    BY <1>3, <1>5, <1>7 DEF Futuro
  <2>5. Contenido(arrayCaracteres', numero + 1, leidos')
        /\ numero + 1 \in 0..contadorCantCaract'
    BY <1>1, <1>2, <1>3, <1>7, <2>4
  <2>6. Colocado'
    BY <2>5 DEF Colocado
  <2> QED
    BY <1>6, <1>7, <2>1, <2>3, <2>6 DEF IInv, InvArray, EntreTurnos
<1>8. CASE /\ ecx # numero + 1
           /\ arrayCaracteres' = [arrayCaracteres EXCEPT ![ecx] = pila[Len(pila)]]
           /\ pila' = SubSeq(pila, 1, Len(pila) - 1)
           /\ ecx' = ecx + 1
           /\ UNCHANGED pc
  <2>1. PICK k \in Nat : numero + 1 - ecx = k + 1
    <3>1. numero - ecx \in Nat /\ numero + 1 - ecx = (numero - ecx) + 1
      BY <1>2, <1>3, <1>8
    <3> QED
      BY <3>1
  <2>2. /\ k + 1 \in 0..Len(pila)
        /\ \A i \in 1..Len(pila) : pila[i] = Retorno <=> i <= Len(pila) - (k + 1)
    BY <1>2, <2>1 DEF DatosEncima
  <2>3. Len(pila) \in Nat /\ Len(pila) >= 1
    BY <1>5, <2>2
  <2>4. pila[Len(pila)] \in Letras
    <3>1. pila[Len(pila)] \in Letras \cup {Retorno}
      BY <1>5, <2>3
    <3>2. pila[Len(pila)] # Retorno
      BY <2>2, <2>3
    <3> QED
      BY <3>1, <3>2
  <2>5. /\ pila' \in Seq(Letras \cup {Retorno})
        /\ Len(pila') = Len(pila) - 1
        /\ \A i \in 1..Len(pila) - 1 : pila'[i] = pila[i]
    <3>1. PICK m \in Nat : Len(pila) = m + 1
      <4>1. Len(pila) - 1 \in Nat /\ Len(pila) = (Len(pila) - 1) + 1
        BY <2>3
      <4> QED
        BY <4>1
    <3>2. pila' = SubSeq(pila, 1, m)
      BY <1>8, <3>1
    <3>3. /\ SubSeq(pila, 1, m) \in Seq(Letras \cup {Retorno})
          /\ Len(SubSeq(pila, 1, m)) = m
          /\ \A i \in 1..m : SubSeq(pila, 1, m)[i] = pila[i]
      BY <1>5, <3>1
    <3> QED
      BY <3>1, <3>2, <3>3
  <2>6. arrayCaracteres' \in [0..LargoArray - 1 -> Letras \cup {0}]
    BY <1>5, <1>8, <2>4
  <2>7. TypeOK'
    BY <1>0, <1>1, <1>8, <2>5, <2>6 DEF TypeOK
  <2>8. PilaBalanceada'
    <3>1. numero' + 1 - ecx' = k
      BY <1>1, <1>2, <1>3, <1>8, <2>1
    <3>2. \A i \in 1..Len(pila') : pila'[i] = Retorno <=> i <= Len(pila') - k
      BY <2>2, <2>3, <2>5
    <3>3. DatosEncima(numero + 1 - ecx)'
      BY <2>2, <2>3, <2>5, <3>1, <3>2 DEF DatosEncima
    <3> QED
      BY <1>1, <1>8, <3>3 DEF PilaBalanceada
  <2>9. Futuro' = Futuro
    <3>1. ASSUME NEW j \in 0..LargoArray - 1 PROVE Futuro'[j] = Futuro[j]
      <4>1. /\ Futuro[j] = IF j >= ecx /\ j <= numero
                           THEN pila[Len(pila) - (j - ecx)]
                           ELSE arrayCaracteres[j]
            /\ Futuro'[j] = IF j >= ecx + 1 /\ j <= numero
                            THEN pila'[Len(pila) - 1 - (j - (ecx + 1))]
                            ELSE arrayCaracteres'[j]
        <5>1. Futuro'[j] = IF j >= ecx' /\ j <= numero'
                           THEN pila'[Len(pila') - (j - ecx')]
                           ELSE arrayCaracteres'[j]
          BY DEF Futuro
        <5>2. Futuro[j] = IF j >= ecx /\ j <= numero
                          THEN pila[Len(pila) - (j - ecx)]
                          ELSE arrayCaracteres[j]
          BY DEF Futuro
        <5>3. /\ ecx' = ecx + 1 /\ numero' = numero
              /\ Len(pila') = Len(pila) - 1
          BY <1>1, <1>8, <2>5
        <5> QED
          BY <5>1, <5>2, <5>3, Zenon
      <4>2. CASE j >= ecx + 1 /\ j <= numero
        <5>1. Len(pila) - 1 - (j - (ecx + 1)) = Len(pila) - (j - ecx)
          BY <1>2, <1>3, <2>3
        <5>2. Len(pila) - (j - ecx) \in 1..Len(pila) - 1
          BY <1>2, <1>3, <2>1, <2>2, <2>3, <4>2
        <5> QED
          <6>0. j >= ecx /\ j <= numero
            BY <1>2, <1>3, <4>2
          <6>1. Futuro[j] = pila[Len(pila) - (j - ecx)]
            BY <4>1, <6>0
          <6>2. Futuro'[j] = pila'[Len(pila) - (j - ecx)]
            BY <4>1, <4>2, <5>1
          <6> QED
            BY <2>5, <5>2, <6>1, <6>2
      <4>3. CASE j = ecx
        BY <1>2, <1>3, <1>5, <1>8, <2>1, <2>3, <4>1, <4>3
      <4>4. CASE j < ecx \/ j > numero
        BY <1>2, <1>3, <1>5, <1>8, <4>1, <4>4
      <4> QED
        BY <1>2, <1>3, <4>2, <4>3, <4>4
    <3> QED
      BY <3>1 DEF Futuro
  <2>10. Ubicando'
    <3>1. Contenido(Futuro, numero + 1, leidos)'
      BY <1>1, <1>2, <2>9
    <3>2. ecx' \in 1..numero' + 1 /\ numero' + 1 <= contadorCantCaract'
      BY <1>1, <1>2, <1>3, <1>8
    <3> QED
      BY <3>1, <3>2 DEF Ubicando
  <2> QED
    BY <1>1, <1>6, <1>8, <2>7, <2>8, <2>10 DEF IInv, InvArray, EntreTurnos
<1> QED
  BY <1>7, <1>8 DEF UbicarTodo, PrimeroSinCorrer

LEMMA IncrementarIInv == IInv /\ IncrementarContadorCantCaract => IInv'
<1> SUFFICES ASSUME IInv, IncrementarContadorCantCaract PROVE IInv'
    OBVIOUS
<1>0. TypeOK /\ PilaBalanceada /\ InvControl /\ InvArray
  BY DEF IInv
<1>1. /\ pc = "incrementarContadorCantCaract"
      /\ contadorRecorrer' = 0
      /\ contadorCantCaract' = contadorCantCaract + 1
      /\ pc' = "llevarCuenta"
      /\ UNCHANGED <<caracter, numero, arrayCaracteres, cadena, ecx, pila,
                     entrada, salida, leidos, aceptados, vacias>>
  BY DEF IncrementarContadorCantCaract, historia
<1>2. /\ contadorCantCaract \in 1..Limite
      /\ aceptados = contadorCantCaract /\ aceptados <= Limite
      /\ salida = <<>>
  BY <1>0, <1>1, LimiteAssumption DEF InvControl, EntreTurnos, TypeOK, Pcs
<1>3. Colocado /\ DatosEncima(0)
  BY <1>0, <1>1 DEF InvArray, PilaBalanceada
<1>4. TypeOK'
  BY <1>0, <1>1, <1>2, LimiteAssumption DEF TypeOK, Pcs
<1>5. PilaBalanceada'
  BY <1>1, <1>3 DEF PilaBalanceada, DatosEncima
<1>6. InvControl'
  BY <1>1, <1>2, LimiteAssumption DEF InvControl, EntreTurnos
<1>7. Entero'
  <2>1. contadorCantCaract' - 1 = contadorCantCaract
    BY <1>1, <1>2
  <2> QED
    BY <1>1, <1>3, <2>1 DEF Colocado, Entero
<1> QED
  BY <1>1, <1>4, <1>5, <1>6, <1>7 DEF IInv, InvArray, EntreTurnos

\* What mostrarArrayCaracteres prints is the array up to its first zero.
LEMMA MostrarExacto ==
  ASSUME TypeOK, NEW n \in Nat, n < LargoArray, NEW S \in SUBSET Letras,
         Contenido(arrayCaracteres, n, S), MostrarArrayCaracteres
  PROVE  salida' = [i \in 1..n |-> arrayCaracteres[i - 1]]
<1> DEFINE Corta(k) == Byte(k) = 0 /\ \A i \in 0..k - 1 : Byte(i) # 0
           largo == CHOOSE k \in 0..LargoArray : Corta(k)
<1>0. LargoArray \in Nat /\ n \in 0..LargoArray
  BY LargoAssumption
<1>1. \A i \in 0..LargoArray - 1 : Byte(i) = arrayCaracteres[i]
  BY <1>0 DEF Byte
<1>2. Byte(n) = 0 /\ \A i \in 0..n - 1 : Byte(i) # 0
  <2>1. Byte(n) = 0
    BY <1>0, <1>1 DEF Contenido
  <2>2. ASSUME NEW i \in 0..n - 1 PROVE Byte(i) # 0
    <3>1. arrayCaracteres[i] \in S
      BY DEF Contenido
    <3> QED
      BY <1>0, <1>1, <3>1, LetrasAssumption
  <2> QED
    BY <2>1, <2>2
<1>3. Corta(n)
  BY <1>2
<1>4. largo \in 0..LargoArray /\ Corta(largo)
  BY <1>0, <1>3
<1>5. largo = n
  <2>1. ~(largo < n)
    BY <1>0, <1>2, <1>4
  <2>2. ~(n < largo)
    BY <1>0, <1>2, <1>4
  <2> QED
    BY <1>0, <1>4, <2>1, <2>2
<1>6. salida' = [i \in 1..largo |-> Byte(i - 1)]
  BY DEF MostrarArrayCaracteres
<1>7. \A i \in 1..n : Byte(i - 1) = arrayCaracteres[i - 1]
  BY <1>0, <1>1
<1> HIDE DEF largo
<1> QED
  BY <1>5, <1>6, <1>7

\* What is printed is the list of the characters read.
LEMMA TerminarHechos ==
  ASSUME IInv, Terminar
  PROVE  /\ aceptados = Limite
         /\ salida = <<>>
         /\ salida' \in Seq(Letras)
         /\ Abstracto!ListaOrdenada(salida', leidos)
<1>0. TypeOK /\ PilaBalanceada /\ InvControl /\ InvArray
  BY DEF IInv
<1>1. pc = "terminar" /\ MostrarArrayCaracteres
  BY DEF Terminar
<1>2. /\ aceptados = contadorCantCaract - 1 /\ contadorCantCaract = Limite + 1
      /\ salida = <<>> /\ leidos \in SUBSET Letras
  BY <1>0, <1>1 DEF InvControl, EntreTurnos, TypeOK
<1>3. PICK n \in 0..contadorCantCaract - 1 : Contenido(arrayCaracteres, n, leidos)
  BY <1>0, <1>1 DEF InvArray, EntreTurnos, Entero
<1>4. n \in Nat /\ n < LargoArray
  BY <1>2, <1>3, LimiteAssumption, LargoAssumption
<1>5. salida' = [i \in 1..n |-> arrayCaracteres[i - 1]]
  BY <1>0, <1>1, <1>2, <1>3, <1>4, MostrarExacto
<1>6. /\ \A i \in 0..n - 1 : arrayCaracteres[i] \in leidos
      /\ \A i, j \in 0..n - 1 : i < j => arrayCaracteres[i] < arrayCaracteres[j]
      /\ \A c \in leidos : \E i \in 0..n - 1 : arrayCaracteres[i] = c
  BY <1>3 DEF Contenido
<1>7. \A i \in 1..n : i - 1 \in 0..n - 1 /\ salida'[i] = arrayCaracteres[i - 1]
  BY <1>4, <1>5
<1>8. salida' \in Seq(Letras) /\ Len(salida') = n
  BY <1>2, <1>4, <1>5, <1>6, <1>7
<1>9. \A i, j \in 1..n : i < j => salida'[i] < salida'[j]
  <2> SUFFICES ASSUME NEW i \in 1..n, NEW j \in 1..n, i < j
               PROVE  salida'[i] < salida'[j]
      OBVIOUS
  <2>1. i - 1 < j - 1
    BY <1>4
  <2> QED
    BY <1>6, <1>7, <2>1
<1>10. {salida'[i] : i \in 1..n} = leidos
  <2>1. \A i \in 1..n : salida'[i] \in leidos
    BY <1>6, <1>7
  <2>2. ASSUME NEW c \in leidos PROVE \E i \in 1..n : salida'[i] = c
    <3>1. PICK i \in 0..n - 1 : arrayCaracteres[i] = c
      BY <1>6
    <3>2. i + 1 \in 1..n /\ (i + 1) - 1 = i
      BY <1>4
    <3> QED
      BY <1>7, <3>1, <3>2
  <2> QED
    BY <2>1, <2>2
<1>11. Abstracto!ListaOrdenada(salida', leidos)
  BY <1>8, <1>9, <1>10 DEF Abstracto!ListaOrdenada
<1> QED
  BY <1>2, <1>8, <1>11, LimiteAssumption

LEMMA TerminarIInv == IInv /\ Terminar => IInv'
<1> SUFFICES ASSUME IInv, Terminar PROVE IInv'
    OBVIOUS
<1>0. TypeOK /\ PilaBalanceada /\ InvControl /\ InvArray
  BY DEF IInv
<1>1. /\ pc = "terminar" /\ pc' = "fin"
      /\ UNCHANGED <<contadorCantCaract, contadorRecorrer, caracter, numero,
                     arrayCaracteres, cadena, ecx, pila, entrada, leidos,
                     aceptados, vacias>>
      /\ salida' \in Seq(Letras)
  BY TerminarHechos DEF Terminar, historia
<1>2. TypeOK'
  BY <1>0, <1>1 DEF TypeOK, Pcs
<1>3. PilaBalanceada'
  BY <1>0, <1>1 DEF PilaBalanceada, DatosEncima
<1>4. InvControl'
  BY <1>0, <1>1 DEF InvControl, EntreTurnos
<1>5. Entero'
  BY <1>0, <1>1 DEF InvArray, EntreTurnos, Entero
<1> QED
  BY <1>1, <1>2, <1>3, <1>4, <1>5 DEF IInv, InvArray, EntreTurnos

LEMMA QuietoIInv == IInv /\ UNCHANGED vars => IInv'
<1> SUFFICES ASSUME IInv, UNCHANGED vars PROVE IInv'
    OBVIOUS
<1>1. UNCHANGED <<pc, contadorCantCaract, contadorRecorrer, caracter, numero,
                  arrayCaracteres, cadena, ecx, pila, entrada, salida, leidos,
                  aceptados, vacias>>
  BY DEF vars, historia
<1>2. TypeOK' /\ PilaBalanceada'
  BY <1>1 DEF IInv, TypeOK, PilaBalanceada, DatosEncima
<1>3. InvControl'
  BY <1>1 DEF IInv, InvControl, EntreTurnos
<1>4. /\ (Entero' <=> Entero) /\ (Buscando' <=> Buscando)
      /\ (Colocando' <=> Colocando) /\ (BuscandoUltimo' <=> BuscandoUltimo)
      /\ (Guardando' <=> Guardando) /\ (Ubicando' <=> Ubicando)
      /\ (Colocado' <=> Colocado) /\ (Abandonado' <=> Abandonado)
  BY <1>1 DEF Entero, Buscando, Colocando, BuscandoUltimo, Guardando, Ubicando,
              Colocado, Abandonado, AEmpujar, EnSuLugar, EnMano, Futuro
<1> QED
  BY <1>1, <1>2, <1>3, <1>4 DEF IInv, InvArray, EntreTurnos

LEMMA NextIInv == IInv /\ [Next]_vars => IInv'
<1> SUFFICES ASSUME IInv, [Next]_vars PROVE IInv'
    OBVIOUS
<1>1. CASE LlevarCuenta
  BY <1>1, LlevarCuentaIInv
<1>2. CASE SiguienteIteracion
  BY <1>2, SiguienteIteracionIInv
<1>3. CASE ArmarArrayCaracteres
  BY <1>3, ArmarArrayCaracteresIInv
<1>4. CASE CorroborarInexistencia
  BY <1>4, CorroborarInexistenciaIInv
<1>5. CASE EncontrarPosicionCorrespondiente
  BY <1>5, EncontrarIInv
<1>6. CASE BuscarUltimo
  BY <1>6, BuscarUltimoIInv
<1>7. CASE GuardarEnPila
  BY <1>7, GuardarEnPilaIInv
<1>8. CASE PreUbicar
  BY <1>8, PreUbicarIInv
<1>9. CASE UbicarTodo
  BY <1>9, UbicarTodoIInv
<1>10. CASE IncrementarContadorCantCaract
  BY <1>10, IncrementarIInv
<1>11. CASE Terminar
  BY <1>11, TerminarIInv
<1>12. CASE Acabado \/ UNCHANGED vars
  BY <1>12, QuietoIInv DEF Acabado
<1> QED
  BY <1>1, <1>2, <1>3, <1>4, <1>5, <1>6, <1>7, <1>8, <1>9, <1>10, <1>11,
     <1>12 DEF Next

\* IInv holds in every reachable state, for every alphabet, limit, size of the
\* array with room for the limit, and size of the stack.
THEOREM Inductivo == Spec => []IInv
  BY InitIInv, NextIInv, PTL DEF Spec

\* Type correctness of program 5.
THEOREM TypeOKTheorem == Spec => []TypeOK
<1>1. IInv => TypeOK
  BY DEF IInv
<1> QED
  BY <1>1, Inductivo, PTL

\* PUSH and POP of the shift balance in every run.
THEOREM PilaTheorem == Spec => []PilaBalanceada
<1>1. IInv => PilaBalanceada
  BY DEF IInv
<1> QED
  BY <1>1, Inductivo, PTL

\* What is in the line buffer was accepted already, but for a line just read.
InvBuffer ==
  pc \notin {"armarArrayCaracteres", "desbordada"} => cadena \in leidos \cup {0}

LEMMA NextInvBuffer == InvBuffer /\ [Next]_vars => InvBuffer'
<1> SUFFICES ASSUME InvBuffer, [Next]_vars PROVE InvBuffer'
    OBVIOUS
<1>1. CASE SiguienteIteracion
  BY <1>1 DEF SiguienteIteracion, Apilar, InvBuffer
<1>2. CASE ArmarArrayCaracteres
  BY <1>2 DEF ArmarArrayCaracteres, InvBuffer
<1>3. CASE \/ LlevarCuenta \/ CorroborarInexistencia
           \/ EncontrarPosicionCorrespondiente \/ BuscarUltimo
           \/ GuardarEnPila \/ PreUbicar \/ UbicarTodo
           \/ IncrementarContadorCantCaract \/ Terminar \/ Acabado
           \/ UNCHANGED vars
  <2>1. UNCHANGED <<cadena, leidos>>
    BY <1>3 DEF LlevarCuenta, CorroborarInexistencia,
      EncontrarPosicionCorrespondiente, BuscarUltimo, GuardarEnPila, PreUbicar,
      UbicarTodo, IncrementarContadorCantCaract, Terminar, Acabado, vars, historia
  <2>2. \/ pc \notin {"armarArrayCaracteres", "desbordada"}
        \/ pc' = pc
    BY <1>3 DEF LlevarCuenta, CorroborarInexistencia,
      EncontrarPosicionCorrespondiente, BuscarUltimo, GuardarEnPila, PreUbicar,
      UbicarTodo, IncrementarContadorCantCaract, Terminar, Acabado, vars
  <2> QED
    BY <2>1, <2>2 DEF InvBuffer
<1> QED
  BY <1>1, <1>2, <1>3 DEF Next

\* Between two characters the array holds what has been read, sorted and once,
\* and a read that fails adds nothing to it.
THEOREM ArrayFielTheorem == Spec => []ArrayFiel
<1>0. Init => InvBuffer
  BY DEF Init, InvBuffer
<1>1. ASSUME IInv, InvBuffer PROVE ArrayFiel
  <2> SUFFICES ASSUME pc \in {"llevarCuenta", "terminar", "fin"}
               PROVE  \E n \in 0..LargoArray : Guarda(n, leidos)
      BY <1>1 DEF ArrayFiel, InvBuffer
  <2>1. PICK n \in 0..contadorCantCaract - 1 :
               Contenido(arrayCaracteres, n, leidos)
    BY <1>1 DEF IInv, InvArray, EntreTurnos, Entero
  <2>2. leidos \subseteq Letras
    BY <1>1 DEF IInv, TypeOK
  <2>3. /\ n \in 0..LargoArray
        /\ \A i \in 0..n - 1 : arrayCaracteres[i] \in leidos
        /\ \A i \in n..LargoArray - 1 : arrayCaracteres[i] = 0
        /\ \A i, j \in 0..n - 1 : i < j => arrayCaracteres[i] < arrayCaracteres[j]
        /\ \A c \in leidos : \E i \in 0..n - 1 : arrayCaracteres[i] = c
    BY <2>1 DEF Contenido
  <2>4. \A i \in 0..n - 1 : arrayCaracteres[i] # 0
    BY <2>2, <2>3, LetrasAssumption
  <2>5. {arrayCaracteres[i] : i \in 0..n - 1} = leidos
    BY <2>3
  <2>6. Guarda(n, leidos)
    BY <2>3, <2>4, <2>5 DEF Guarda
  <2> QED
    BY <2>3, <2>6
<1> QED
  BY <1>0, <1>1, NextInvBuffer, Inductivo, PTL DEF Spec

LEMMA IInvDentro == IInv => DentroDelArray
<1>1. ASSUME IInv PROVE DentroDelArray
  <2>0. TypeOK /\ InvControl /\ InvArray
    BY <1>1 DEF IInv
  <2>1. pc \in {"corroborarInexistencia", "encontrarPosicionCorrespondiente"} =>
          contadorRecorrer + 3 < LargoArray
    <3> SUFFICES ASSUME pc \in {"corroborarInexistencia",
                                "encontrarPosicionCorrespondiente"}
                 PROVE  contadorRecorrer + 3 < LargoArray
        OBVIOUS
    <3>1. \E n \in 0..LargoArray, S \in SUBSET Letras : EnMano(n, S)
      BY <2>0 DEF InvArray, Buscando, Colocando, EnSuLugar
    <3>2. PICK n \in 0..LargoArray, S \in SUBSET Letras : EnMano(n, S)
      BY <3>1
    <3>3. contadorRecorrer \in 0..n /\ n <= contadorCantCaract - 1
      BY <3>2 DEF EnMano
    <3>4. contadorCantCaract \in 1..Limite
      BY <2>0, LimiteAssumption DEF InvControl, TypeOK
    <3> QED
      BY <3>3, <3>4, LimiteAssumption, LargoAssumption
  <2>2. pc = "buscarUltimo" => ecx + 1 < LargoArray
    <3> SUFFICES ASSUME pc = "buscarUltimo" PROVE ecx + 1 < LargoArray
        OBVIOUS
    <3>1. PICK n \in 0..LargoArray, S \in SUBSET Letras :
            AEmpujar(n, S) /\ ecx \in contadorRecorrer..n - 1
      BY <2>0 DEF InvArray, BuscandoUltimo
    <3>2. contadorRecorrer \in 0..n /\ n <= contadorCantCaract - 1
      BY <3>1 DEF AEmpujar, EnSuLugar, EnMano
    <3>3. contadorCantCaract \in 1..Limite
      BY <2>0, LimiteAssumption DEF InvControl, TypeOK
    <3> QED
      BY <3>1, <3>2, <3>3, LimiteAssumption, LargoAssumption
  <2>3. pc = "guardarEnPila" => numero < LargoArray
    <3> SUFFICES ASSUME pc = "guardarEnPila" PROVE numero < LargoArray
        OBVIOUS
    <3>1. PICK S \in SUBSET Letras : AEmpujar(numero, S)
      BY <2>0 DEF InvArray, Guardando
    <3>2. numero \in Nat /\ LargoArray \in Nat /\ numero + 3 < LargoArray
      BY <1>1, <3>1, GuardandoHechos
    <3> QED
      BY <3>2
  <2>4. pc = "ubicarTodo" => numero < LargoArray
    BY <2>0, LimiteAssumption, LargoAssumption
    DEF InvArray, Ubicando, InvControl, TypeOK
  <2> QED
    BY <2>1, <2>2, <2>3, <2>4 DEF DentroDelArray
<1> QED
  BY <1>1

\* Every access of an insertion stays inside the array.
THEOREM DentroDelArrayTheorem == Spec => []DentroDelArray
  BY IInvDentro, Inductivo, PTL

\* Where the array holds all that is read but the character in hand, nothing
\* is lost.
LEMMA AbandonadoNoPierde ==
  ASSUME TypeOK, Abandonado
  PROVE  NadaSePierde
<1>1. PICK n \in 0..LargoArray, S \in SUBSET Letras :
        leidos \subseteq S \cup {caracter} /\ Contenido(arrayCaracteres, n, S)
  BY DEF Abandonado
<1>2. DOMAIN arrayCaracteres = 0..LargoArray - 1
  BY DEF TypeOK
<1>3. ASSUME NEW c \in S PROVE \E i \in DOMAIN arrayCaracteres : arrayCaracteres[i] = c
  <2>1. PICK i \in 0..n - 1 : arrayCaracteres[i] = c
    BY <1>1 DEF Contenido
  <2>2. i \in 0..LargoArray - 1
    BY LargoAssumption
  <2> QED
    BY <1>2, <2>1, <2>2
<1> QED
  BY <1>1, <1>3 DEF NadaSePierde

LEMMA EnteroNoPierde ==
  ASSUME TypeOK, Entero
  PROVE  NadaSePierde
<1>1. PICK n \in 0..contadorCantCaract - 1 : Contenido(arrayCaracteres, n, leidos)
  BY DEF Entero
<1>2. n \in 0..LargoArray /\ leidos \in SUBSET Letras
  BY <1>1 DEF Contenido, TypeOK
<1>3. Abandonado
  BY <1>1, <1>2 DEF Abandonado
<1> QED
  BY <1>3, AbandonadoNoPierde

\* No character is lost while the tail of the array is on the stack, nor when
\* the stack overflows half way.
THEOREM NadaSePierdeTheorem == Spec => []NadaSePierde
<1>1. ASSUME IInv PROVE NadaSePierde
  <2>0. TypeOK /\ PilaBalanceada /\ InvControl /\ InvArray
    BY <1>1 DEF IInv
  <2>1. CASE EntreTurnos \/ pc = "desbordada"
    <3>1. CASE EntreTurnos
      BY <2>0, <3>1, EnteroNoPierde DEF InvArray
    <3>2. CASE pc = "desbordada"
      BY <2>0, <3>2, AbandonadoNoPierde DEF InvArray
    <3> QED
      BY <2>1, <3>1, <3>2
  <2>2. CASE pc \in {"corroborarInexistencia", "encontrarPosicionCorrespondiente",
                     "buscarUltimo", "guardarEnPila"}
    <3>1. \E n \in 0..LargoArray, S \in SUBSET Letras : EnMano(n, S)
      <4>1. CASE pc # "guardarEnPila"
        BY <2>0, <2>2, <4>1
        DEF InvArray, Buscando, Colocando, BuscandoUltimo, AEmpujar, EnSuLugar
      <4>2. CASE pc = "guardarEnPila"
        <5>1. PICK S \in SUBSET Letras : EnMano(numero, S)
          BY <2>0, <4>2 DEF InvArray, Guardando, AEmpujar, EnSuLugar
        <5>2. numero \in 0..LargoArray
          BY <5>1 DEF EnMano, Contenido
        <5> QED
          BY <5>1, <5>2
      <4> QED
        BY <4>1, <4>2
    <3>2. Abandonado
      BY <3>1 DEF EnMano, Abandonado
    <3> QED
      BY <2>0, <3>2, AbandonadoNoPierde
  <2>3. CASE pc = "incrementarContadorCantCaract"
    <3>1. PICK n \in 0..contadorCantCaract : Contenido(arrayCaracteres, n, leidos)
      BY <2>0, <2>3 DEF InvArray, Colocado
    <3>2. n \in 0..LargoArray /\ leidos \in SUBSET Letras
      BY <2>0, <3>1 DEF Contenido, TypeOK
    <3>3. Abandonado
      BY <3>1, <3>2 DEF Abandonado
    <3> QED
      BY <2>0, <3>3, AbandonadoNoPierde
  <2>4. CASE pc = "ubicarTodo"
    <3>1. /\ ecx \in 1..numero + 1
          /\ numero + 1 <= contadorCantCaract
          /\ Contenido(Futuro, numero + 1, leidos)
          /\ numero + 1 - ecx \in 0..Len(pila)
      BY <2>0, <2>4 DEF InvArray, Ubicando, PilaBalanceada, DatosEncima
    <3>2. /\ numero \in Nat /\ numero < LargoArray /\ LargoArray \in Nat
          /\ DOMAIN arrayCaracteres = 0..LargoArray - 1
          /\ DOMAIN pila = 1..Len(pila) /\ Len(pila) \in Nat
      BY <2>0, <2>4, <3>1, LimiteAssumption, LargoAssumption
      DEF TypeOK, InvControl
    <3>3. ASSUME NEW c \in leidos
          PROVE  \/ \E i \in DOMAIN arrayCaracteres : arrayCaracteres[i] = c
                 \/ \E i \in DOMAIN pila : pila[i] = c
      <4>1. PICK j \in 0..numero : Futuro[j] = c
        BY <3>1, <3>2 DEF Contenido
      <4>2. j \in 0..LargoArray - 1
        BY <3>2
      <4>3. CASE j >= ecx
        <5>1. Len(pila) - (j - ecx) \in 1..Len(pila)
          BY <3>1, <3>2, <4>3
        <5>2. Futuro[j] = pila[Len(pila) - (j - ecx)]
          BY <4>2, <4>3 DEF Futuro
        <5> QED
          BY <3>2, <4>1, <5>1, <5>2
      <4>4. CASE ~(j >= ecx)
        <5>1. Futuro[j] = arrayCaracteres[j]
          BY <4>2, <4>4 DEF Futuro
        <5> QED
          BY <3>2, <4>1, <4>2, <5>1
      <4> QED
        BY <4>3, <4>4
    <3> QED
      BY <3>3 DEF NadaSePierde
  <2> QED
    BY <2>0, <2>1, <2>2, <2>3, <2>4 DEF TypeOK, Pcs, EntreTurnos
<1> QED
  BY <1>1, Inductivo, PTL

-----------------------------------------------------------------------------
(* How full the stack is.  IInv says what is on it, not how much, and so a   *)
(* bound for every control point is added: InvPila is inductive with IInv.   *)

\* What n characters alone can have left on the stack.
Cota(n) == 1 + 4 * n + (n * (n - 1)) \div 2

\* At most k entries are of the turn in course.
Ocupada(k) == Len(pila) <= Cota(contadorCantCaract - 1) + vacias + k

\* A turn pushes four return addresses, one more for each character that the
\* search for the place goes past, and the bytes after that place while they
\* are being shifted: never more than four and the characters stored.
InvPila ==
  /\ pc = "llevarCuenta" => Ocupada(0)
  /\ pc = "siguienteIteracion" => Ocupada(1)
  /\ pc = "armarArrayCaracteres" => Ocupada(2)
  /\ pc = "corroborarInexistencia" => Ocupada(3)
  /\ pc \in {"encontrarPosicionCorrespondiente", "buscarUltimo"} =>
       Ocupada(4 + contadorRecorrer)
  /\ pc = "guardarEnPila" => Ocupada(4 + contadorRecorrer + (numero - ecx))
  /\ pc \in {"ubicarTodo", "incrementarContadorCantCaract"} =>
       Ocupada(4 + (contadorCantCaract - 1))
  /\ DesbordeSoloPorVacias

LEMMA CotaHechos ==
  ASSUME NEW c \in Nat \ {0}
  PROVE  /\ Cota(c - 1) \in Nat /\ Cota(c) \in Nat
         /\ Cota(c) = Cota(c - 1) + 4 + (c - 1)
<1> DEFINE n == c - 1
           x == n * (n - 1)
<1>1. n \in Nat /\ c = n + 1
  OBVIOUS
<1> HIDE DEF n
<1>2. c * (c - 1) = x + 2 * n /\ x \in Nat
  <2>1. (n + 1) * (n + 1 - 1) = n * (n - 1) + 2 * n
    BY <1>1
  <2>2. n * (n - 1) \in Nat
    <3>1. CASE n = 0
      <4>1. 0 * (0 - 1) = 0
        OBVIOUS
      <4> QED
        BY <3>1, <4>1
    <3>2. CASE n - 1 \in Nat
      <4>1. \A a, b \in Nat : a * b \in Nat
        OBVIOUS
      <4> QED
        BY <1>1, <3>2, <4>1
    <3> QED
      BY <1>1, <3>1, <3>2
  <2> QED
    BY <1>1, <2>1, <2>2
<1> HIDE DEF x
<1> DEFINE y == c * (c - 1)
<1>3. y = x + 2 * n
  BY <1>2
<1> HIDE DEF y
<1>4. y \div 2 = x \div 2 + n /\ x \div 2 \in Nat
  BY <1>1, <1>2, <1>3
<1>5. Cota(c) = 1 + 4 * c + y \div 2 /\ Cota(n) = 1 + 4 * n + x \div 2
  BY DEF Cota, y, x
<1>6. /\ Cota(n) \in Nat /\ Cota(c) \in Nat
      /\ Cota(c) = Cota(n) + 4 + n
  BY <1>1, <1>4, <1>5
<1> QED
  BY <1>6 DEF n

LEMMA CotaMayor ==
  ASSUME NEW c \in 1..Limite
  PROVE  Cota(c) <= CotaPila /\ CotaPila \in Nat
<1> DEFINE d == Limite - c
           x == c * (c - 1)
           y == Limite * (Limite - 1)
           e == d * (d + 2 * c - 1)
<1>1. c \in Nat \ {0} /\ d \in Nat /\ Limite = c + d /\ Limite \in Nat
  BY LimiteAssumption
<1> HIDE DEF d
<1>2. (c + d) * (c + d - 1) = c * (c - 1) + d * (d + 2 * c - 1)
  BY <1>1
<1>3. e \in Nat /\ x \in Nat
  <2>1. \A a, b \in Nat : a * b \in Nat
    OBVIOUS
  <2>2. d + 2 * c - 1 \in Nat /\ c - 1 \in Nat /\ c \in Nat
    BY <1>1
  <2> QED
    BY <1>1, <2>1, <2>2
<1>4. y = x + e
  BY <1>1, <1>2
<1> HIDE DEF x, y, e
<1>5. x \div 2 <= y \div 2 /\ x \div 2 \in Nat /\ y \div 2 \in Nat
  BY <1>3, <1>4
<1>6. Cota(c) = 1 + 4 * c + x \div 2 /\ CotaPila = 1 + 4 * Limite + y \div 2
  BY DEF Cota, CotaPila, x, y
<1> QED
  BY <1>1, <1>5, <1>6

\* One more push leaves one more entry, or dies of a stack that is full of
\* what empty lines have left on it.
LEMMA ApilarOcupada ==
  ASSUME TypeOK, contadorCantCaract <= Limite,
         NEW k \in 0..contadorCantCaract + 2, Ocupada(k),
         NEW d, NEW destino, destino # "desbordada", Apilar(d, destino),
         UNCHANGED <<contadorCantCaract, vacias>>
  PROVE  /\ pc' \in {destino, "desbordada"}
         /\ pc' = destino =>
              Len(pila') <= Cota(contadorCantCaract' - 1) + vacias' + (k + 1)
         /\ DesbordeSoloPorVacias'
<1> DEFINE c == contadorCantCaract
           p == Len(pila)
           b == Cota(c - 1)
           t == Cota(c)
<1>1. c \in Nat \ {0} /\ c \in 1..Limite /\ p \in Nat /\ vacias \in Nat
  BY LimiteAssumption DEF TypeOK
<1>2. b \in Nat /\ t \in Nat /\ t = b + 4 + (c - 1)
  BY <1>1, CotaHechos
<1>3. t <= CotaPila /\ CotaPila \in Nat
  BY <1>1, CotaMayor
<1>4. p <= b + vacias + k
  BY DEF Ocupada
<1>5. CASE pila' = Append(pila, d) /\ pc' = destino
  <2>1. Len(pila') = p + 1
    BY <1>5 DEF TypeOK
  <2> HIDE DEF p, b
  <2>2. Len(pila') <= b + vacias + (k + 1)
    BY <1>1, <1>2, <1>4, <2>1
  <2>3. Cota(contadorCantCaract' - 1) = b /\ vacias' = vacias
    BY DEF b
  <2> QED
    BY <1>5, <2>2, <2>3 DEF DesbordeSoloPorVacias
<1>6. CASE p >= PilaMax /\ pc' = "desbordada"
  <2> HIDE DEF p, b, t
  <2>1. CotaPila + vacias > PilaMax
    BY <1>1, <1>2, <1>3, <1>4, <1>6, PilaAssumption
  <2>2. CotaPila' = CotaPila /\ vacias' = vacias
    BY DEF CotaPila
  <2> QED
    BY <1>6, <2>1, <2>2 DEF DesbordeSoloPorVacias
<1> QED
  BY <1>5, <1>6 DEF Apilar

LEMMA InitInvPila == Init => InvPila
<1> SUFFICES ASSUME Init PROVE InvPila
    OBVIOUS
<1>1. /\ pc = "llevarCuenta" /\ contadorCantCaract = 1 /\ vacias = 0
      /\ pila = <<Retorno>>
  BY DEF Init
<1>2. Len(pila) = 1
  BY <1>1
<1>3. Cota(1 - 1) = 1
  BY DEF Cota
<1> QED
  BY <1>1, <1>2, <1>3 DEF InvPila, Ocupada, DesbordeSoloPorVacias

LEMMA PilaHechos ==
  ASSUME IInv
  PROVE  /\ TypeOK /\ contadorCantCaract \in Nat \ {0} /\ vacias \in Nat
         /\ Len(pila) \in Nat /\ contadorRecorrer \in Nat
         /\ Cota(contadorCantCaract - 1) \in Nat
<1>1. TypeOK
  BY DEF IInv
<1>2. /\ contadorCantCaract \in Nat \ {0} /\ vacias \in Nat
      /\ Len(pila) \in Nat /\ contadorRecorrer \in Nat
  BY <1>1, LimiteAssumption DEF TypeOK
<1>3. Cota(contadorCantCaract - 1) \in Nat
  BY <1>2, CotaHechos
<1> QED
  BY <1>1, <1>2, <1>3

\* Before the array is looked at.
LEMMA LecturaInvPila ==
  IInv /\ InvPila /\ (LlevarCuenta \/ SiguienteIteracion \/ ArmarArrayCaracteres)
    => InvPila'
<1> SUFFICES ASSUME IInv, InvPila,
                    LlevarCuenta \/ SiguienteIteracion \/ ArmarArrayCaracteres
             PROVE  InvPila'
    OBVIOUS
<1>0. /\ TypeOK /\ contadorCantCaract \in Nat \ {0} /\ vacias \in Nat
      /\ Len(pila) \in Nat /\ Cota(contadorCantCaract - 1) \in Nat
  BY PilaHechos, Zenon
<1>1. CASE LlevarCuenta
  <2>1. pc = "llevarCuenta" /\ UNCHANGED <<contadorCantCaract, vacias>>
    BY <1>1 DEF LlevarCuenta, historia
  <2>2. CASE pc' = "terminar"
    BY <2>2 DEF InvPila, DesbordeSoloPorVacias
  <2>3. CASE /\ contadorCantCaract <= Limite
             /\ Apilar(Retorno, "siguienteIteracion")
    <3>1. Ocupada(0) /\ 0 \in 0..contadorCantCaract + 2
      BY <1>0, <2>1 DEF InvPila
    <3>2. /\ pc' \in {"siguienteIteracion", "desbordada"}
          /\ pc' = "siguienteIteracion" =>
               Len(pila') <= Cota(contadorCantCaract' - 1) + vacias' + (0 + 1)
          /\ DesbordeSoloPorVacias'
      BY <1>0, <2>1, <2>3, <3>1, ApilarOcupada
    <3> QED
      BY <3>2 DEF InvPila, Ocupada
  <2> QED
    BY <1>0, <1>1, <2>2, <2>3, LimiteAssumption DEF LlevarCuenta, CuentaCompleta
<1>2. CASE SiguienteIteracion
  <2>1. /\ pc = "siguienteIteracion" /\ UNCHANGED <<contadorCantCaract, vacias>>
        /\ Apilar(Retorno, "armarArrayCaracteres")
    BY <1>2 DEF SiguienteIteracion, historia
  <2>2. contadorCantCaract <= Limite
    BY <2>1 DEF IInv, InvControl
  <2>3. Ocupada(1) /\ 1 \in 0..contadorCantCaract + 2
    BY <1>0, <2>1 DEF InvPila
  <2>4. /\ pc' \in {"armarArrayCaracteres", "desbordada"}
        /\ pc' = "armarArrayCaracteres" =>
             Len(pila') <= Cota(contadorCantCaract' - 1) + vacias' + (1 + 1)
        /\ DesbordeSoloPorVacias'
    BY <1>0, <2>1, <2>2, <2>3, ApilarOcupada
  <2> QED
    BY <2>4 DEF InvPila, Ocupada
<1>3. CASE ArmarArrayCaracteres
  <2>1. /\ pc = "armarArrayCaracteres" /\ UNCHANGED contadorCantCaract
        /\ Ocupada(2)
    BY <1>3 DEF ArmarArrayCaracteres, InvPila
  <2>2. CASE pc' = "siguienteIteracion" /\ vacias' = vacias + 1 /\ UNCHANGED pila
    <3> DEFINE b == Cota(contadorCantCaract - 1)
    <3>1. Len(pila) <= b + vacias + 2
      BY <2>1 DEF Ocupada
    <3>2. Cota(contadorCantCaract' - 1) = b /\ b \in Nat
      BY <1>0, <2>1
    <3> HIDE DEF b
    <3>3. Len(pila') <= b + vacias' + 1
      BY <1>0, <2>2, <3>1, <3>2
    <3> QED
      BY <2>2, <3>2, <3>3 DEF InvPila, Ocupada, DesbordeSoloPorVacias
  <2>3. CASE /\ Apilar(Retorno, "corroborarInexistencia")
             /\ UNCHANGED vacias
    <3>1. contadorCantCaract <= Limite
      BY <2>1 DEF IInv, InvControl
    <3>2. 2 \in 0..contadorCantCaract + 2
      BY <1>0
    <3>3. /\ pc' \in {"corroborarInexistencia", "desbordada"}
          /\ pc' = "corroborarInexistencia" =>
               Len(pila') <= Cota(contadorCantCaract' - 1) + vacias' + (2 + 1)
          /\ DesbordeSoloPorVacias'
      BY <1>0, <2>1, <2>3, <3>1, <3>2, ApilarOcupada
    <3> QED
      BY <3>3 DEF InvPila, Ocupada
  <2> QED
    BY <1>3, <2>2, <2>3 DEF ArmarArrayCaracteres
<1> QED
  BY <1>1, <1>2, <1>3

\* Where the search for the place is, in a turn being served.
LEMMA RecorridoHechos ==
  ASSUME IInv,
         pc \in {"corroborarInexistencia", "encontrarPosicionCorrespondiente",
                 "buscarUltimo", "guardarEnPila", "ubicarTodo"}
  PROVE  /\ contadorCantCaract \in Nat \ {0} /\ contadorCantCaract <= Limite
         /\ pc = "encontrarPosicionCorrespondiente" =>
              /\ contadorRecorrer \in 0..contadorCantCaract - 1
              /\ Byte(contadorRecorrer) # 0 =>
                   contadorRecorrer + 1 <= contadorCantCaract - 1
         /\ pc = "buscarUltimo" => contadorRecorrer \in 0..contadorCantCaract - 1
         /\ pc = "guardarEnPila" =>
              /\ numero <= contadorCantCaract - 1 /\ numero \in Nat
              /\ contadorRecorrer \in Nat /\ ecx \in contadorRecorrer..numero
<1>0. TypeOK /\ InvControl /\ InvArray
  BY DEF IInv
<1>1. contadorCantCaract \in Nat \ {0} /\ contadorCantCaract <= Limite
  BY <1>0 DEF TypeOK, InvControl
<1>2. pc \in Pcs /\ ~EntreTurnos /\ pc # "desbordada"
  BY DEF Pcs, EntreTurnos
<1>3. ASSUME pc = "encontrarPosicionCorrespondiente"
      PROVE  /\ contadorRecorrer \in 0..contadorCantCaract - 1
             /\ Byte(contadorRecorrer) # 0 =>
                  contadorRecorrer + 1 <= contadorCantCaract - 1
  <2>1. PICK n \in 0..LargoArray, S \in SUBSET Letras : EnSuLugar(n, S)
    BY <1>0, <1>3 DEF InvArray, Colocando
  <2>2. /\ contadorRecorrer \in 0..n /\ n \in Nat
        /\ n <= contadorCantCaract - 1
        /\ Contenido(arrayCaracteres, n, S)
        /\ n + 3 < LargoArray /\ LargoArray \in Nat
    BY <1>0, <1>2, <2>1, EnSuLugarHechos
  <2>3. Byte(contadorRecorrer) # 0 => contadorRecorrer # n
    BY <2>2 DEF Byte, Contenido
  <2> QED
    BY <1>1, <2>2, <2>3
<1>4. ASSUME pc = "buscarUltimo"
      PROVE  contadorRecorrer \in 0..contadorCantCaract - 1
  <2>1. PICK n \in 0..LargoArray, S \in SUBSET Letras : AEmpujar(n, S)
    BY <1>0, <1>4 DEF InvArray, BuscandoUltimo
  <2>2. EnSuLugar(n, S)
    BY <2>1 DEF AEmpujar
  <2>3. /\ contadorRecorrer \in 0..n /\ n \in Nat
        /\ n <= contadorCantCaract - 1
    BY <1>0, <1>2, <2>2, EnSuLugarHechos
  <2> QED
    BY <1>1, <2>3
<1>5. ASSUME pc = "guardarEnPila"
      PROVE  /\ numero <= contadorCantCaract - 1 /\ numero \in Nat
             /\ contadorRecorrer \in Nat /\ ecx \in contadorRecorrer..numero
  <2>1. PICK S \in SUBSET Letras : AEmpujar(numero, S)
    BY <1>0, <1>5 DEF InvArray, Guardando
  <2>2. ecx \in contadorRecorrer..numero
    BY <1>0, <1>5 DEF InvArray, Guardando
  <2> QED
    BY <1>5, <2>1, <2>2, GuardandoHechos
<1> QED
  BY <1>1, <1>3, <1>4, <1>5

\* Looking for the character and for its place.
LEMMA BusquedaInvPila ==
  IInv /\ InvPila /\ (CorroborarInexistencia \/ EncontrarPosicionCorrespondiente
                        \/ BuscarUltimo)
    => InvPila'
<1> SUFFICES ASSUME IInv, InvPila,
                    CorroborarInexistencia \/ EncontrarPosicionCorrespondiente
                      \/ BuscarUltimo
             PROVE  InvPila'
    OBVIOUS
<1> DEFINE b == Cota(contadorCantCaract - 1)
<1>0. /\ TypeOK /\ contadorCantCaract \in Nat \ {0} /\ vacias \in Nat
      /\ Len(pila) \in Nat /\ contadorRecorrer \in Nat /\ b \in Nat
  BY PilaHechos, Zenon
<1>1. CASE CorroborarInexistencia
  <2>1. /\ pc = "corroborarInexistencia" /\ Ocupada(3)
        /\ UNCHANGED <<contadorCantCaract, vacias>>
    BY <1>1 DEF CorroborarInexistencia, historia, InvPila
  <2>2. contadorCantCaract <= Limite
    BY <2>1, RecorridoHechos
  <2>3. CASE /\ contadorRecorrer' = 0
             /\ Apilar(Retorno, "encontrarPosicionCorrespondiente")
    <3>1. 3 \in 0..contadorCantCaract + 2
      BY <1>0
    <3>2. /\ pc' \in {"encontrarPosicionCorrespondiente", "desbordada"}
          /\ pc' = "encontrarPosicionCorrespondiente" =>
               Len(pila') <= Cota(contadorCantCaract' - 1) + vacias' + (3 + 1)
          /\ DesbordeSoloPorVacias'
      BY <1>0, <2>1, <2>2, <2>3, <3>1, ApilarOcupada
    <3> QED
      BY <2>3, <3>2 DEF InvPila, Ocupada
  <2>4. CASE pc' = "incrementarContadorCantCaract" /\ UNCHANGED pila
    <3>1. Len(pila) <= b + vacias + 3
      BY <2>1 DEF Ocupada
    <3>2. Cota(contadorCantCaract' - 1) = b
      BY <2>1
    <3> HIDE DEF b
    <3>3. Len(pila') <= b + vacias' + (4 + (contadorCantCaract' - 1))
      BY <1>0, <2>1, <2>4, <3>1
    <3> QED
      BY <2>4, <3>2, <3>3 DEF InvPila, Ocupada, DesbordeSoloPorVacias
  <2>5. CASE UNCHANGED <<pc, pila>>
    BY <2>1, <2>5 DEF InvPila, Ocupada, DesbordeSoloPorVacias
  <2> QED
    BY <1>1, <2>3, <2>4, <2>5 DEF CorroborarInexistencia
<1>2. CASE EncontrarPosicionCorrespondiente
  <2>1. /\ pc = "encontrarPosicionCorrespondiente"
        /\ Ocupada(4 + contadorRecorrer)
        /\ UNCHANGED <<contadorCantCaract, vacias>>
    BY <1>2 DEF EncontrarPosicionCorrespondiente, historia, InvPila
  <2>2. /\ contadorCantCaract <= Limite
        /\ contadorRecorrer \in 0..contadorCantCaract - 1
        /\ Byte(contadorRecorrer) # 0 =>
             contadorRecorrer + 1 <= contadorCantCaract - 1
    BY <2>1, RecorridoHechos
  <2>3. CASE pc' = "incrementarContadorCantCaract" /\ UNCHANGED pila
    <3>1. Len(pila) <= b + vacias + (4 + contadorRecorrer)
      BY <2>1 DEF Ocupada
    <3>2. Cota(contadorCantCaract' - 1) = b
      BY <2>1
    <3> HIDE DEF b
    <3>3. Len(pila') <= b + vacias' + (4 + (contadorCantCaract' - 1))
      BY <1>0, <2>1, <2>2, <2>3, <3>1
    <3> QED
      BY <2>3, <3>2, <3>3 DEF InvPila, Ocupada, DesbordeSoloPorVacias
  <2>4. CASE pc' = "buscarUltimo" /\ UNCHANGED <<contadorRecorrer, pila>>
    BY <2>1, <2>4 DEF InvPila, Ocupada, DesbordeSoloPorVacias
  <2>5. CASE /\ Byte(contadorRecorrer) # 0
             /\ contadorRecorrer' = contadorRecorrer + 1
             /\ Apilar(Retorno, "encontrarPosicionCorrespondiente")
    <3> DEFINE k == 4 + contadorRecorrer
    <3>1. k \in 0..contadorCantCaract + 2 /\ Ocupada(k)
      BY <1>0, <2>1, <2>2, <2>5
    <3> HIDE DEF k
    <3>2. /\ pc' \in {"encontrarPosicionCorrespondiente", "desbordada"}
          /\ pc' = "encontrarPosicionCorrespondiente" =>
               Len(pila') <= Cota(contadorCantCaract' - 1) + vacias' + (k + 1)
          /\ DesbordeSoloPorVacias'
      BY <1>0, <2>1, <2>2, <2>5, <3>1, ApilarOcupada
    <3>3. k + 1 = 4 + contadorRecorrer'
      BY <1>0, <2>5 DEF k
    <3> QED
      BY <3>2, <3>3 DEF InvPila, Ocupada
  <2> QED
    BY <1>2, <2>3, <2>4, <2>5 DEF EncontrarPosicionCorrespondiente, Ubicar
<1>3. CASE BuscarUltimo
  <2>1. /\ pc = "buscarUltimo" /\ Ocupada(4 + contadorRecorrer)
        /\ UNCHANGED <<contadorCantCaract, vacias, contadorRecorrer, pila>>
    BY <1>3 DEF BuscarUltimo, historia, InvPila
  <2>2. CASE UNCHANGED pc
    BY <2>1, <2>2 DEF InvPila, Ocupada, DesbordeSoloPorVacias
  <2>3. CASE pc' = "guardarEnPila" /\ numero' = ecx + 1 /\ ecx' = ecx + 1
    <3>1. 4 + contadorRecorrer' + (numero' - ecx') = 4 + contadorRecorrer
      BY <1>0, <2>1, <2>3 DEF TypeOK
    <3> QED
      BY <2>1, <2>3, <3>1 DEF InvPila, Ocupada, DesbordeSoloPorVacias
  <2> QED
    BY <1>3, <2>2, <2>3 DEF BuscarUltimo
<1> QED
  BY <1>1, <1>2, <1>3

\* Shifting, and on to the next turn.
LEMMA EmpujeInvPila ==
  IInv /\ InvPila /\ (GuardarEnPila \/ PreUbicar \/ UbicarTodo
                        \/ IncrementarContadorCantCaract)
    => InvPila'
<1> SUFFICES ASSUME IInv, InvPila,
                    GuardarEnPila \/ PreUbicar \/ UbicarTodo
                      \/ IncrementarContadorCantCaract
             PROVE  InvPila'
    OBVIOUS
<1> DEFINE b == Cota(contadorCantCaract - 1)
<1>0. /\ TypeOK /\ contadorCantCaract \in Nat \ {0} /\ vacias \in Nat
      /\ Len(pila) \in Nat /\ b \in Nat
  BY PilaHechos, Zenon
<1>1. CASE GuardarEnPila
  <2> DEFINE k == 4 + contadorRecorrer + (numero - ecx)
  <2>1. /\ pc = "guardarEnPila" /\ Ocupada(k) /\ ecx # contadorRecorrer
        /\ ecx' = ecx - 1 /\ Apilar(ByteAGuardar, "guardarEnPila")
        /\ UNCHANGED <<contadorCantCaract, vacias, contadorRecorrer, numero>>
    BY <1>1 DEF GuardarEnPila, historia, InvPila
  <2>2. /\ contadorCantCaract <= Limite
        /\ numero <= contadorCantCaract - 1 /\ numero \in Nat
        /\ contadorRecorrer \in Nat /\ ecx \in contadorRecorrer..numero
    BY <2>1, RecorridoHechos
  <2>3. /\ k \in 0..contadorCantCaract + 2
        /\ 4 + contadorRecorrer' + (numero' - ecx') = k + 1
    BY <1>0, <2>1, <2>2
  <2> HIDE DEF k
  <2>4. /\ pc' \in {"guardarEnPila", "desbordada"}
        /\ pc' = "guardarEnPila" =>
             Len(pila') <= Cota(contadorCantCaract' - 1) + vacias' + (k + 1)
        /\ DesbordeSoloPorVacias'
    BY <1>0, <2>1, <2>2, <2>3, ApilarOcupada
  <2> QED
    BY <2>3, <2>4 DEF InvPila, Ocupada
<1>2. CASE PreUbicar
  <2>1. /\ pc = "guardarEnPila" /\ pc' = "ubicarTodo" /\ ecx = contadorRecorrer
        /\ Ocupada(4 + contadorRecorrer + (numero - ecx))
        /\ UNCHANGED <<contadorCantCaract, vacias, pila>>
    BY <1>2 DEF PreUbicar, historia, InvPila
  <2>2. /\ numero <= contadorCantCaract - 1 /\ numero \in Nat
        /\ contadorRecorrer \in Nat
    BY <2>1, RecorridoHechos
  <2>3. Len(pila) <= b + vacias + (4 + contadorRecorrer + (numero - ecx))
    BY <2>1 DEF Ocupada
  <2>4. Cota(contadorCantCaract' - 1) = b
    BY <2>1
  <2> HIDE DEF b
  <2>5. Len(pila') <= b + vacias' + (4 + (contadorCantCaract' - 1))
    BY <1>0, <2>1, <2>2, <2>3
  <2> QED
    BY <2>1, <2>4, <2>5 DEF InvPila, Ocupada, DesbordeSoloPorVacias
<1>3. CASE UbicarTodo
  <2>1. /\ pc = "ubicarTodo" /\ pc' \in {"ubicarTodo", "incrementarContadorCantCaract"}
        /\ Ocupada(4 + (contadorCantCaract - 1))
        /\ UNCHANGED <<contadorCantCaract, vacias>>
    BY <1>3 DEF UbicarTodo, historia, InvPila
  <2>2. Len(pila') <= Len(pila) /\ Len(pila') \in Nat
    <3>1. CASE UNCHANGED pila
      BY <1>0, <3>1
    <3>2. CASE pila' = SubSeq(pila, 1, Len(pila) - 1) /\ Len(pila) > 0
      BY <1>0, <3>2 DEF TypeOK
    <3>3. ecx # numero + 1 => Len(pila) > 0
      <4>1. DatosEncima(numero + 1 - ecx) /\ ecx \in 1..numero + 1
        BY <2>1 DEF IInv, PilaBalanceada, InvArray, Ubicando
      <4>2. numero \in Nat
        BY <1>0 DEF TypeOK
      <4> QED
        BY <1>0, <4>1, <4>2 DEF DatosEncima
    <3> QED
      BY <1>3, <3>1, <3>2, <3>3 DEF UbicarTodo, PrimeroSinCorrer
  <2>3. Len(pila) <= b + vacias + (4 + (contadorCantCaract - 1))
    BY <2>1 DEF Ocupada
  <2>4. Cota(contadorCantCaract' - 1) = b
    BY <2>1
  <2> HIDE DEF b
  <2>5. Len(pila') <= b + vacias' + (4 + (contadorCantCaract' - 1))
    BY <1>0, <2>1, <2>2, <2>3
  <2> QED
    BY <2>1, <2>4, <2>5 DEF InvPila, Ocupada, DesbordeSoloPorVacias
<1>4. CASE IncrementarContadorCantCaract
  <2>1. /\ pc = "incrementarContadorCantCaract" /\ pc' = "llevarCuenta"
        /\ contadorCantCaract' = contadorCantCaract + 1
        /\ UNCHANGED <<vacias, pila>>
        /\ Ocupada(4 + (contadorCantCaract - 1))
    BY <1>4 DEF IncrementarContadorCantCaract, historia, InvPila
  <2> DEFINE t == Cota(contadorCantCaract)
  <2>2. t = b + 4 + (contadorCantCaract - 1) /\ t \in Nat
    BY <1>0, CotaHechos
  <2>3. Len(pila) <= b + vacias + (4 + (contadorCantCaract - 1))
    BY <2>1 DEF Ocupada
  <2>4. Cota(contadorCantCaract' - 1) = t
    <3>1. contadorCantCaract' - 1 = contadorCantCaract
      BY <1>0, <2>1
    <3> QED
      BY <3>1
  <2> HIDE DEF b, t
  <2>5. Len(pila') <= t + vacias' + 0
    BY <1>0, <2>1, <2>2, <2>3
  <2> QED
    BY <2>1, <2>4, <2>5 DEF InvPila, Ocupada, DesbordeSoloPorVacias
<1> QED
  BY <1>1, <1>2, <1>3, <1>4

LEMMA NextInvPila == IInv /\ InvPila /\ [Next]_vars => InvPila'
<1> SUFFICES ASSUME IInv, InvPila, [Next]_vars PROVE InvPila'
    OBVIOUS
<1>1. CASE Terminar
  BY <1>1 DEF Terminar, InvPila, DesbordeSoloPorVacias
<1>2. CASE UNCHANGED vars
  BY <1>2 DEF vars, historia, InvPila, Ocupada, DesbordeSoloPorVacias
<1> QED
  BY <1>1, <1>2, LecturaInvPila, BusquedaInvPila, EmpujeInvPila
     DEF Next, Acabado

\* The routines that never return do not exhaust the stack without the help
\* of empty lines, whatever the sizes of the array and of the stack
\* (5.asm:160-163).
THEOREM DesbordeTheorem == Spec => []DesbordeSoloPorVacias
<1>1. InvPila => DesbordeSoloPorVacias
  BY DEF InvPila
<1> QED
  BY <1>1, InitInvPila, NextInvPila, Inductivo, PTL DEF Spec

-----------------------------------------------------------------------------
(* Refinement *)

LEMMA InitAbstracto == Init => Abstracto!Init
  BY DEF Init, Abstracto!Init

LEMMA NextAbstracto ==
  ASSUME IInv, [Next]_vars
  PROVE  [Abstracto!Next]_Abstracto!vars
<1>1. CASE ArmarArrayCaracteres
  <2>1. aceptados < Limite
    <3>1. /\ pc = "armarArrayCaracteres" /\ TypeOK /\ InvControl
      BY <1>1 DEF ArmarArrayCaracteres, IInv
    <3> QED
      BY <3>1, LimiteAssumption DEF InvControl, EntreTurnos, TypeOK
  <2>2. CASE UNCHANGED <<leidos, aceptados, salida>>
    BY <2>2 DEF Abstracto!vars
  <2>3. CASE /\ cadena # 0 /\ leidos' = leidos \cup {cadena}
             /\ aceptados' = aceptados + 1 /\ UNCHANGED salida
    <3>1. cadena \in Letras
      BY <2>3 DEF IInv, TypeOK
    <3> QED
      BY <2>1, <2>3, <3>1 DEF Abstracto!Next, Abstracto!Recibir
  <2> QED
    BY <1>1, <2>2, <2>3 DEF ArmarArrayCaracteres
<1>2. CASE Terminar
  <2>1. UNCHANGED <<leidos, aceptados>>
    BY <1>2 DEF Terminar, historia
  <2> QED
    BY <1>2, <2>1, TerminarHechos DEF Abstracto!Next, Abstracto!Mostrar
<1>3. CASE \/ LlevarCuenta \/ SiguienteIteracion \/ CorroborarInexistencia
           \/ EncontrarPosicionCorrespondiente \/ BuscarUltimo
           \/ GuardarEnPila \/ PreUbicar \/ UbicarTodo
           \/ IncrementarContadorCantCaract \/ Acabado \/ UNCHANGED vars
  <2>1. UNCHANGED <<leidos, aceptados, salida>>
    BY <1>3 DEF LlevarCuenta, SiguienteIteracion, CorroborarInexistencia,
      EncontrarPosicionCorrespondiente, BuscarUltimo, GuardarEnPila, PreUbicar,
      UbicarTodo, IncrementarContadorCantCaract, Acabado, vars, historia
  <2> QED
    BY <2>1 DEF Abstracto!vars
<1> QED
  BY <1>1, <1>2, <1>3 DEF Next

\* Program 5 does what its first line promises, with Limite in the place of
\* 100: Limite characters are entered and then shown in order, each one once.
THEOREM Refinamiento == Spec => ImplementaAbstracto
  BY InitAbstracto, NextAbstracto, Inductivo, PTL
  DEF Spec, ImplementaAbstracto, Abstracto!Spec

-----------------------------------------------------------------------------
(* The bound on the steps *)

\* The stack never has more entries than it has room for.
Cupo == Len(pila) <= PilaMax

\* What the turns to come allow for.
Turnos == 4 * LargoArray * (Limite + 1 - contadorCantCaract)

Muerto == pc \in {"fin", "desbordada"}

LEMMA InitCupo == Init => Cupo
  BY PilaAssumption DEF Init, Cupo

LEMMA ApilarCupo ==
  ASSUME TypeOK, Cupo, NEW d, NEW destino, Apilar(d, destino)
  PROVE  Cupo'
<1>1. Len(pila) \in Nat
  BY DEF TypeOK
<1>2. CASE Len(pila) < PilaMax /\ pila' = Append(pila, d)
  <2>1. Len(pila') = Len(pila) + 1
    BY <1>2 DEF TypeOK
  <2> QED
    BY <1>1, <1>2, <2>1, PilaAssumption DEF Cupo
<1>3. CASE pila' = pila
  BY <1>3 DEF Cupo
<1> QED
  BY <1>2, <1>3 DEF Apilar

LEMMA NextCupo == IInv /\ Cupo /\ [Next]_vars => Cupo'
<1> SUFFICES ASSUME IInv, Cupo, [Next]_vars PROVE Cupo'
    OBVIOUS
<1>0. TypeOK /\ Len(pila) \in Nat
  BY DEF IInv, TypeOK
<1>1. CASE UNCHANGED pila
  BY <1>1 DEF Cupo
<1>2. CASE \E d, destino : Apilar(d, destino)
  BY <1>0, <1>2, ApilarCupo
<1>3. CASE UbicarTodo
  <2>1. CASE UNCHANGED pila
    BY <2>1 DEF Cupo
  <2>2. CASE pila' = SubSeq(pila, 1, Len(pila) - 1) /\ ecx # numero + 1
    <3>1. DatosEncima(numero + 1 - ecx) /\ ecx \in 1..numero + 1 /\ numero \in Nat
      BY <1>3 DEF UbicarTodo, IInv, TypeOK, PilaBalanceada, InvArray, Ubicando
    <3>2. Len(pila) > 0
      BY <1>0, <2>2, <3>1 DEF DatosEncima
    <3>3. Len(pila') <= Len(pila) /\ Len(pila') \in Nat
      BY <1>0, <2>2, <3>2 DEF TypeOK
    <3> QED
      BY <1>0, <3>3, PilaAssumption DEF Cupo
  <2> QED
    BY <1>3, <2>1, <2>2 DEF UbicarTodo, PrimeroSinCorrer
<1> QED
  BY <1>1, <1>2, <1>3
     DEF Next, LlevarCuenta, SiguienteIteracion, ArmarArrayCaracteres,
         CorroborarInexistencia, EncontrarPosicionCorrespondiente, Ubicar,
         BuscarUltimo, GuardarEnPila, PreUbicar, IncrementarContadorCantCaract,
         Terminar, Acabado, vars

\* The ranges of what the count is made of.
LEMMA Rangos ==
  ASSUME IInv
  PROVE  /\ LargoArray \in Nat /\ LargoArray >= 4 /\ PilaMax \in Nat
         /\ Limite \in Nat
         /\ Len(pila) \in Nat /\ contadorCantCaract \in Nat
         /\ contadorRecorrer \in Nat /\ ecx \in Nat /\ numero \in Nat
         /\ contadorCantCaract <= Limite + 1
         /\ ~Muerto /\ pc \notin {"llevarCuenta", "terminar"} =>
              contadorCantCaract <= Limite
         /\ pc \in {"corroborarInexistencia", "encontrarPosicionCorrespondiente"}
              => contadorRecorrer + 3 < LargoArray
         /\ pc = "buscarUltimo" =>
              ecx + 1 < LargoArray /\ contadorRecorrer <= ecx
         /\ pc = "guardarEnPila" =>
              /\ contadorRecorrer <= ecx /\ ecx <= numero
              /\ numero < LargoArray /\ numero - ecx <= Len(pila)
         /\ pc = "ubicarTodo" =>
              /\ ecx <= numero + 1
              /\ numero < LargoArray /\ numero + 1 - ecx <= Len(pila)
<1>0. TypeOK /\ InvControl /\ InvArray /\ PilaBalanceada /\ DentroDelArray
  BY IInvDentro DEF IInv
<1>1. /\ LargoArray \in Nat /\ LargoArray >= 4 /\ PilaMax \in Nat
      /\ Limite \in Nat
      /\ Len(pila) \in Nat /\ contadorCantCaract \in Nat
      /\ contadorRecorrer \in Nat /\ ecx \in Nat /\ numero \in Nat
      /\ contadorCantCaract <= Limite + 1
  BY <1>0, LimiteAssumption, LargoAssumption, PilaAssumption DEF TypeOK
<1>2. ~Muerto /\ pc \notin {"llevarCuenta", "terminar"} =>
        contadorCantCaract <= Limite
  BY <1>0 DEF Muerto, InvControl
<1>3. pc = "buscarUltimo" => ecx + 1 < LargoArray /\ contadorRecorrer <= ecx
  BY <1>0, <1>1 DEF DentroDelArray, InvArray, BuscandoUltimo
<1>4. pc = "guardarEnPila" =>
        /\ contadorRecorrer <= ecx /\ ecx <= numero
        /\ numero < LargoArray /\ numero - ecx <= Len(pila)
  <2>1. pc = "guardarEnPila" =>
          ecx \in contadorRecorrer..numero /\ DatosEncima(numero - ecx)
            /\ numero < LargoArray
    BY <1>0 DEF DentroDelArray, InvArray, Guardando, PilaBalanceada
  <2> QED
    BY <1>1, <2>1 DEF DatosEncima
<1>5. pc = "ubicarTodo" =>
        /\ ecx <= numero + 1
        /\ numero < LargoArray /\ numero + 1 - ecx <= Len(pila)
  <2>1. pc = "ubicarTodo" =>
          ecx \in 1..numero + 1 /\ DatosEncima(numero + 1 - ecx)
            /\ numero < LargoArray
    BY <1>0 DEF DentroDelArray, InvArray, Ubicando, PilaBalanceada
  <2> QED
    BY <1>1, <2>1 DEF DatosEncima
<1>6. pc \in {"corroborarInexistencia", "encontrarPosicionCorrespondiente"}
        => contadorRecorrer + 3 < LargoArray
  BY <1>0 DEF DentroDelArray
<1> QED
  BY <1>1, <1>2, <1>3, <1>4, <1>5, <1>6

\* What the turns allow for covers the worst place in a turn.
LEMMA TurnosHechos ==
  ASSUME IInv
  PROVE  /\ Turnos \in Nat
         /\ contadorCantCaract <= Limite => Turnos >= 4 * LargoArray
<1>1. \A l, k \in Nat : /\ 4 * l * k \in Nat
                        /\ k >= 1 => 4 * l * k >= 4 * l
  OBVIOUS
<1>2. /\ LargoArray \in Nat /\ Limite + 1 - contadorCantCaract \in Nat
      /\ contadorCantCaract <= Limite => Limite + 1 - contadorCantCaract >= 1
  BY Rangos
<1> QED
  BY <1>1, <1>2 DEF Turnos

\* The place in the turn, label by label.
LEMMA Lugares ==
  ASSUME IInv
  PROVE  /\ PasosDelTurno \in Int
         /\ pc \in {"llevarCuenta", "terminar"} => PasosDelTurno >= 1
         /\ ~Muerto => PasosDelTurno >= 10 - 4 * LargoArray
<1>0. /\ LargoArray \in Nat /\ LargoArray >= 4
      /\ contadorRecorrer \in Nat /\ ecx \in Nat /\ numero \in Nat
  BY Rangos
<1>1. CASE pc = "corroborarInexistencia"
  <2>1. PasosDelTurno = 5 - contadorRecorrer
    BY <1>1 DEF PasosDelTurno
  <2> QED
    BY <1>0, <1>1, <2>1, Rangos
<1>2. CASE pc = "encontrarPosicionCorrespondiente"
  <2>1. PasosDelTurno = 10 - LargoArray
    BY <1>2 DEF PasosDelTurno
  <2> QED
    BY <1>0, <1>2, <2>1
<1>3. CASE pc = "buscarUltimo"
  <2>1. PasosDelTurno = 9 - LargoArray - ecx
    BY <1>3 DEF PasosDelTurno
  <2> QED
    BY <1>0, <1>3, <2>1, Rangos
<1>4. CASE pc = "guardarEnPila"
  <2>1. PasosDelTurno = 11 - 3 * LargoArray + ecx
    BY <1>4 DEF PasosDelTurno
  <2> QED
    BY <1>0, <1>4, <2>1
<1>5. CASE pc = "ubicarTodo"
  <2>1. PasosDelTurno = 11 - 3 * LargoArray - ecx
    BY <1>5 DEF PasosDelTurno
  <2> QED
    BY <1>0, <1>5, <2>1, Rangos
<1>6. CASE pc = "incrementarContadorCantCaract"
  <2>1. PasosDelTurno = 10 - 4 * LargoArray
    BY <1>6 DEF PasosDelTurno
  <2> QED
    BY <1>0, <1>6, <2>1
<1>7. CASE pc \notin {"corroborarInexistencia",
                      "encontrarPosicionCorrespondiente", "buscarUltimo",
                      "guardarEnPila", "ubicarTodo",
                      "incrementarContadorCantCaract"}
  <2>1. PasosDelTurno \in 1..4
    BY <1>7 DEF PasosDelTurno
  <2> QED
    BY <1>0, <2>1
<1> QED
  BY <1>1, <1>2, <1>3, <1>4, <1>5, <1>6, <1>7

LEMMA CuentaHechos ==
  ASSUME IInv, Cupo
  PROVE  /\ Retornos \in Int /\ Retornos <= PilaMax
         /\ PasosDelTurno \in Int
         /\ ~Muerto => /\ PasosQueFaltan =
                            Turnos + 2 * (PilaMax - Retornos) + PasosDelTurno
                       /\ PasosQueFaltan > 0
         /\ Muerto => PasosQueFaltan = 0
<1>1. /\ PilaMax \in Nat /\ LargoArray \in Nat /\ LargoArray >= 4
      /\ Turnos \in Nat
  BY Rangos, TurnosHechos
<1>2. Retornos \in Int /\ Retornos <= PilaMax
  <2>1. CASE pc = "guardarEnPila"
    BY <2>1, Rangos DEF Retornos, Cupo
  <2>2. CASE pc = "ubicarTodo"
    BY <2>2, Rangos DEF Retornos, Cupo
  <2>3. CASE pc \notin {"guardarEnPila", "ubicarTodo"}
    BY <2>3, Rangos DEF Retornos, Cupo
  <2> QED
    BY <2>1, <2>2, <2>3
<1>3. PasosDelTurno \in Int
  BY Lugares
<1>4. ~Muerto => PasosQueFaltan =
                   Turnos + 2 * (PilaMax - Retornos) + PasosDelTurno
  BY DEF Muerto, PasosQueFaltan, Turnos
<1>5. ASSUME ~Muerto PROVE Turnos + PasosDelTurno > 0
  <2>1. CASE pc \in {"llevarCuenta", "terminar"}
    BY <1>1, <1>3, <2>1, Lugares
  <2>2. CASE pc \notin {"llevarCuenta", "terminar"}
    <3>1. Turnos >= 4 * LargoArray
      BY <1>5, <2>2, Rangos, TurnosHechos
    <3>2. PasosDelTurno >= 10 - 4 * LargoArray
      BY <1>5, Lugares
    <3> QED
      BY <1>1, <1>3, <3>1, <3>2
  <2> QED
    BY <2>1, <2>2
<1>6. Muerto => PasosQueFaltan = 0
  BY DEF Muerto, PasosQueFaltan
<1> QED
  BY <1>1, <1>2, <1>3, <1>4, <1>5, <1>6

\* A step within a turn: what its place in the turn loses is more than twice
\* what the return addresses lose.
LEMMA PasoDelTurno ==
  ASSUME IInv, Cupo, ~Muerto, ~Muerto', UNCHANGED contadorCantCaract,
         NEW r \in Int, NEW d \in Int,
         Retornos' = r, PasosDelTurno' = d,
         d - 2 * r < PasosDelTurno - 2 * Retornos
  PROVE  PasosQueFaltan' < PasosQueFaltan
<1>1. /\ PilaMax \in Int /\ Turnos \in Int /\ Retornos \in Int
      /\ PasosDelTurno \in Int
      /\ PasosQueFaltan = Turnos + 2 * (PilaMax - Retornos) + PasosDelTurno
  BY CuentaHechos, TurnosHechos, Rangos
<1>2. PasosQueFaltan' = Turnos + 2 * (PilaMax - r) + d
  BY DEF Muerto, PasosQueFaltan, Turnos
<1> QED
  BY <1>1, <1>2

\* The end, of either kind.
LEMMA PasoFinal ==
  ASSUME IInv, Cupo, ~Muerto, Muerto'
  PROVE  PasosQueFaltan' < PasosQueFaltan
<1>1. PasosQueFaltan' = 0
  BY DEF Muerto, PasosQueFaltan
<1> QED
  BY <1>1, CuentaHechos

\* A call that does not return.
LEMMA ApilarPasos ==
  ASSUME IInv, Cupo, ~Muerto, pc \notin {"guardarEnPila", "ubicarTodo"},
         NEW destino,
         destino \notin {"guardarEnPila", "ubicarTodo", "fin", "desbordada"},
         Apilar(Retorno, destino), UNCHANGED contadorCantCaract,
         NEW d \in Int, pc' = destino => PasosDelTurno' = d,
         d <= PasosDelTurno + 1
  PROVE  PasosQueFaltan' < PasosQueFaltan
<1>1. CASE pc' = "desbordada"
  BY <1>1, PasoFinal DEF Muerto
<1>2. CASE pila' = Append(pila, Retorno) /\ pc' = destino
  <2>1. Len(pila') = Len(pila) + 1 /\ Len(pila) \in Nat
    BY <1>2 DEF IInv, TypeOK
  <2>2. Retornos = Len(pila) /\ Retornos' = Len(pila) + 1
    BY <1>2, <2>1 DEF Retornos
  <2>3. ~Muerto' /\ PasosDelTurno \in Int
    BY <1>2, CuentaHechos DEF Muerto
  <2>4. Len(pila) + 1 \in Int
        /\ d - 2 * (Len(pila) + 1) < PasosDelTurno - 2 * Len(pila)
    BY <2>1, <2>3
  <2> QED
    BY <1>2, <2>2, <2>3, <2>4, PasoDelTurno
<1> QED
  BY <1>1, <1>2 DEF Apilar

LEMMA LlevarCuentaPasos ==
  IInv /\ Cupo /\ LlevarCuenta => PasosQueFaltan' < PasosQueFaltan
<1> SUFFICES ASSUME IInv, Cupo, LlevarCuenta
             PROVE  PasosQueFaltan' < PasosQueFaltan
    OBVIOUS
<1>1. pc = "llevarCuenta" /\ ~Muerto /\ UNCHANGED contadorCantCaract
  BY DEF LlevarCuenta, Muerto
<1>2. PasosDelTurno = 2
  BY <1>1 DEF PasosDelTurno
<1>3. CASE pc' = "terminar" /\ UNCHANGED pila
  <2>1. PasosDelTurno' = 1 /\ ~Muerto'
    BY <1>3 DEF PasosDelTurno, Muerto
  <2>2. Retornos' = Retornos /\ Retornos \in Int
    BY <1>1, <1>3, CuentaHechos DEF Retornos
  <2>3. 1 - 2 * Retornos < PasosDelTurno - 2 * Retornos
    BY <1>2, <2>2
  <2> QED
    BY <1>1, <2>1, <2>2, <2>3, PasoDelTurno
<1>4. CASE Apilar(Retorno, "siguienteIteracion")
  <2>1. pc' = "siguienteIteracion" => PasosDelTurno' = 3
    BY DEF PasosDelTurno
  <2> QED
    BY <1>1, <1>2, <1>4, <2>1, ApilarPasos
<1> QED
  BY <1>3, <1>4 DEF LlevarCuenta

LEMMA SiguienteIteracionPasos ==
  IInv /\ Cupo /\ SiguienteIteracion => PasosQueFaltan' < PasosQueFaltan
<1> SUFFICES ASSUME IInv, Cupo, SiguienteIteracion
             PROVE  PasosQueFaltan' < PasosQueFaltan
    OBVIOUS
<1>1. /\ pc = "siguienteIteracion" /\ ~Muerto /\ UNCHANGED contadorCantCaract
      /\ Apilar(Retorno, "armarArrayCaracteres")
  BY DEF SiguienteIteracion, Muerto
<1>2. PasosDelTurno = 3
  BY <1>1 DEF PasosDelTurno
<1>3. pc' = "armarArrayCaracteres" => PasosDelTurno' = 4
  BY DEF PasosDelTurno
<1> QED
  BY <1>1, <1>2, <1>3, ApilarPasos

LEMMA ArmarArrayCaracteresPasos ==
  IInv /\ Cupo /\ ArmarArrayCaracteres => PasosQueFaltan' < PasosQueFaltan
<1> SUFFICES ASSUME IInv, Cupo, ArmarArrayCaracteres
             PROVE  PasosQueFaltan' < PasosQueFaltan
    OBVIOUS
<1>1. /\ pc = "armarArrayCaracteres" /\ ~Muerto
      /\ UNCHANGED <<contadorCantCaract, contadorRecorrer>>
  BY DEF ArmarArrayCaracteres, Muerto
<1>2. PasosDelTurno = 4
  BY <1>1 DEF PasosDelTurno
<1>3. CASE pc' = "siguienteIteracion" /\ UNCHANGED pila
  <2>1. PasosDelTurno' = 3 /\ ~Muerto'
    BY <1>3 DEF PasosDelTurno, Muerto
  <2>2. Retornos' = Retornos /\ Retornos \in Int
    BY <1>1, <1>3, CuentaHechos DEF Retornos
  <2>3. 3 - 2 * Retornos < PasosDelTurno - 2 * Retornos
    BY <1>2, <2>2
  <2> QED
    BY <1>1, <2>1, <2>2, <2>3, PasoDelTurno
<1>4. CASE Apilar(Retorno, "corroborarInexistencia")
  <2>1. 5 - contadorRecorrer \in Int /\ 5 - contadorRecorrer <= PasosDelTurno + 1
    BY <1>2, Rangos
  <2>2. pc' = "corroborarInexistencia" => PasosDelTurno' = 5 - contadorRecorrer
    BY <1>1 DEF PasosDelTurno
  <2> QED
    BY <1>1, <1>4, <2>1, <2>2, ApilarPasos
<1> QED
  BY <1>3, <1>4 DEF ArmarArrayCaracteres

LEMMA CorroborarInexistenciaPasos ==
  IInv /\ Cupo /\ CorroborarInexistencia => PasosQueFaltan' < PasosQueFaltan
<1> SUFFICES ASSUME IInv, Cupo, CorroborarInexistencia
             PROVE  PasosQueFaltan' < PasosQueFaltan
    OBVIOUS
<1>1. /\ pc = "corroborarInexistencia" /\ ~Muerto
      /\ UNCHANGED contadorCantCaract
  BY DEF CorroborarInexistencia, Muerto
<1>2. PasosDelTurno = 5 - contadorRecorrer
  BY <1>1 DEF PasosDelTurno
<1>3. /\ contadorRecorrer \in Nat /\ LargoArray \in Nat /\ LargoArray >= 4
      /\ contadorRecorrer + 3 < LargoArray
  BY <1>1, Rangos
<1>4. CASE Apilar(Retorno, "encontrarPosicionCorrespondiente")
  <2>1. 10 - LargoArray \in Int /\ 10 - LargoArray <= PasosDelTurno + 1
    BY <1>2, <1>3
  <2>2. pc' = "encontrarPosicionCorrespondiente" =>
          PasosDelTurno' = 10 - LargoArray
    BY DEF PasosDelTurno
  <2> QED
    BY <1>1, <1>4, <2>1, <2>2, ApilarPasos
<1>5. CASE pc' = "incrementarContadorCantCaract" /\ UNCHANGED pila
  <2>1. PasosDelTurno' = 10 - 4 * LargoArray /\ ~Muerto'
    BY <1>5 DEF PasosDelTurno, Muerto
  <2>2. Retornos' = Retornos /\ Retornos \in Int
    BY <1>1, <1>5, CuentaHechos DEF Retornos
  <2>3. /\ 10 - 4 * LargoArray \in Int
        /\ 10 - 4 * LargoArray - 2 * Retornos < PasosDelTurno - 2 * Retornos
    BY <1>2, <1>3, <2>2
  <2> QED
    BY <1>1, <2>1, <2>2, <2>3, PasoDelTurno
<1>6. CASE /\ contadorRecorrer' = contadorRecorrer + 1
           /\ UNCHANGED <<pc, pila>>
  <2>1. PasosDelTurno' = 5 - (contadorRecorrer + 1) /\ ~Muerto'
    BY <1>1, <1>6 DEF PasosDelTurno, Muerto
  <2>2. Retornos' = Retornos /\ Retornos \in Int
    BY <1>1, <1>6, CuentaHechos DEF Retornos
  <2>3. /\ 5 - (contadorRecorrer + 1) \in Int
        /\ 5 - (contadorRecorrer + 1) - 2 * Retornos
             < PasosDelTurno - 2 * Retornos
    BY <1>2, <1>3, <2>2
  <2> QED
    BY <1>1, <2>1, <2>2, <2>3, PasoDelTurno
<1> QED
  BY <1>4, <1>5, <1>6 DEF CorroborarInexistencia, IncrementarContadorRecorrer

LEMMA EncontrarPasos ==
  IInv /\ Cupo /\ EncontrarPosicionCorrespondiente =>
    PasosQueFaltan' < PasosQueFaltan
<1> SUFFICES ASSUME IInv, Cupo, EncontrarPosicionCorrespondiente
             PROVE  PasosQueFaltan' < PasosQueFaltan
    OBVIOUS
<1>1. /\ pc = "encontrarPosicionCorrespondiente" /\ ~Muerto
      /\ UNCHANGED contadorCantCaract
  BY DEF EncontrarPosicionCorrespondiente, Muerto
<1>2. PasosDelTurno = 10 - LargoArray
  BY <1>1 DEF PasosDelTurno
<1>3. contadorRecorrer \in Nat /\ LargoArray \in Nat /\ LargoArray >= 4
  BY Rangos
<1>4. CASE pc' = "incrementarContadorCantCaract" /\ UNCHANGED pila
  <2>1. PasosDelTurno' = 10 - 4 * LargoArray /\ ~Muerto'
    BY <1>4 DEF PasosDelTurno, Muerto
  <2>2. Retornos' = Retornos /\ Retornos \in Int
    BY <1>1, <1>4, CuentaHechos DEF Retornos
  <2>3. /\ 10 - 4 * LargoArray \in Int
        /\ 10 - 4 * LargoArray - 2 * Retornos < PasosDelTurno - 2 * Retornos
    BY <1>2, <1>3, <2>2
  <2> QED
    BY <1>1, <2>1, <2>2, <2>3, PasoDelTurno
<1>5. CASE /\ pc' = "buscarUltimo" /\ ecx' = contadorRecorrer
           /\ UNCHANGED pila
  <2>1. PasosDelTurno' = 9 - LargoArray - contadorRecorrer /\ ~Muerto'
    BY <1>5 DEF PasosDelTurno, Muerto
  <2>2. Retornos' = Retornos /\ Retornos \in Int
    BY <1>1, <1>5, CuentaHechos DEF Retornos
  <2>3. /\ 9 - LargoArray - contadorRecorrer \in Int
        /\ 9 - LargoArray - contadorRecorrer - 2 * Retornos
             < PasosDelTurno - 2 * Retornos
    BY <1>2, <1>3, <2>2
  <2> QED
    BY <1>1, <2>1, <2>2, <2>3, PasoDelTurno
<1>6. CASE Apilar(Retorno, "encontrarPosicionCorrespondiente")
  <2>1. 10 - LargoArray \in Int /\ 10 - LargoArray <= PasosDelTurno + 1
    BY <1>2, <1>3
  <2>2. pc' = "encontrarPosicionCorrespondiente" =>
          PasosDelTurno' = 10 - LargoArray
    BY DEF PasosDelTurno
  <2> QED
    BY <1>1, <1>6, <2>1, <2>2, ApilarPasos
<1> QED
  BY <1>4, <1>5, <1>6 DEF EncontrarPosicionCorrespondiente, Ubicar

LEMMA BuscarUltimoPasos ==
  IInv /\ Cupo /\ BuscarUltimo => PasosQueFaltan' < PasosQueFaltan
<1> SUFFICES ASSUME IInv, Cupo, BuscarUltimo
             PROVE  PasosQueFaltan' < PasosQueFaltan
    OBVIOUS
<1>1. /\ pc = "buscarUltimo" /\ ~Muerto /\ ecx' = ecx + 1
      /\ UNCHANGED <<contadorCantCaract, pila>>
  BY DEF BuscarUltimo, Muerto
<1>2. PasosDelTurno = 9 - LargoArray - ecx
  BY <1>1 DEF PasosDelTurno
<1>3. ecx \in Nat /\ LargoArray \in Nat /\ ecx + 1 < LargoArray
  BY <1>1, Rangos
<1>4. Retornos = Len(pila) /\ Len(pila) \in Int
  BY <1>1, Rangos DEF Retornos
<1>5. CASE UNCHANGED pc
  <2>1. PasosDelTurno' = 9 - LargoArray - (ecx + 1) /\ ~Muerto'
    BY <1>1, <1>5 DEF PasosDelTurno, Muerto
  <2>2. Retornos' = Len(pila)
    BY <1>1, <1>5 DEF Retornos
  <2>3. /\ 9 - LargoArray - (ecx + 1) \in Int
        /\ 9 - LargoArray - (ecx + 1) - 2 * Len(pila)
             < PasosDelTurno - 2 * Retornos
    BY <1>2, <1>3, <1>4
  <2> QED
    BY <1>1, <1>4, <2>1, <2>2, <2>3, PasoDelTurno
<1>6. CASE pc' = "guardarEnPila" /\ numero' = ecx + 1
  <2> DEFINE despues == 11 - 3 * LargoArray + (ecx + 1)
  <2>1. PasosDelTurno' = despues /\ ~Muerto'
    BY <1>1, <1>6 DEF PasosDelTurno, Muerto
  <2>2. Retornos' = Len(pila)
    <3>1. Retornos' = Len(pila) - ((ecx + 1) - (ecx + 1))
      BY <1>1, <1>6 DEF Retornos
    <3> QED
      BY <1>3, <1>4, <3>1
  <2>3. /\ despues \in Int
        /\ despues - 2 * Len(pila) < PasosDelTurno - 2 * Retornos
    BY <1>2, <1>3, <1>4
  <2> HIDE DEF despues
  <2> QED
    BY <1>1, <1>4, <2>1, <2>2, <2>3, PasoDelTurno
<1> QED
  BY <1>5, <1>6 DEF BuscarUltimo

LEMMA GuardarEnPilaPasos ==
  IInv /\ Cupo /\ GuardarEnPila => PasosQueFaltan' < PasosQueFaltan
<1> SUFFICES ASSUME IInv, Cupo, GuardarEnPila
             PROVE  PasosQueFaltan' < PasosQueFaltan
    OBVIOUS
<1>1. /\ pc = "guardarEnPila" /\ ~Muerto /\ ecx' = ecx - 1
      /\ Apilar(ByteAGuardar, "guardarEnPila")
      /\ UNCHANGED <<contadorCantCaract, numero>>
  BY DEF GuardarEnPila, Muerto
<1>2. CASE pc' = "desbordada"
  BY <1>1, <1>2, PasoFinal DEF Muerto
<1>3. CASE pila' = Append(pila, ByteAGuardar) /\ pc' = "guardarEnPila"
  <2>1. /\ ecx \in Nat /\ numero \in Nat /\ LargoArray \in Nat
        /\ Len(pila) \in Nat
    BY Rangos
  <2>2. Len(pila') = Len(pila) + 1
    BY <1>3 DEF IInv, TypeOK
  <2>3. Retornos = Len(pila) - (numero - ecx) /\ Retornos \in Int
    BY <1>1, <2>1 DEF Retornos
  <2>4. Retornos' = Retornos
    <3>1. Retornos' = (Len(pila) + 1) - (numero - (ecx - 1))
      BY <1>1, <1>3, <2>2 DEF Retornos
    <3> QED
      BY <2>1, <2>3, <3>1
  <2> DEFINE despues == 11 - 3 * LargoArray + (ecx - 1)
  <2>5. /\ PasosDelTurno = 11 - 3 * LargoArray + ecx
        /\ PasosDelTurno' = despues /\ ~Muerto'
    BY <1>1, <1>3 DEF PasosDelTurno, Muerto
  <2>6. /\ despues \in Int
        /\ despues - 2 * Retornos < PasosDelTurno - 2 * Retornos
    BY <2>1, <2>3, <2>5
  <2> HIDE DEF despues
  <2> QED
    BY <1>1, <2>3, <2>4, <2>5, <2>6, PasoDelTurno
<1> QED
  BY <1>1, <1>2, <1>3 DEF Apilar

LEMMA PreUbicarPasos ==
  IInv /\ Cupo /\ PreUbicar => PasosQueFaltan' < PasosQueFaltan
<1> SUFFICES ASSUME IInv, Cupo, PreUbicar
             PROVE  PasosQueFaltan' < PasosQueFaltan
    OBVIOUS
<1>1. /\ pc = "guardarEnPila" /\ pc' = "ubicarTodo" /\ ~Muerto /\ ~Muerto'
      /\ ecx = contadorRecorrer /\ ecx' = ecx + 1
      /\ UNCHANGED <<contadorCantCaract, numero, pila>>
  BY DEF PreUbicar, Muerto
<1>2. ecx \in Nat /\ numero \in Nat /\ LargoArray \in Nat /\ Len(pila) \in Nat
  BY Rangos
<1>3. Retornos = Len(pila) - (numero - ecx) /\ Retornos \in Int
  BY <1>1, <1>2 DEF Retornos
<1>4. Retornos' = Retornos
  <2>1. Retornos' = Len(pila) - (numero + 1 - (ecx + 1))
    BY <1>1 DEF Retornos
  <2> QED
    BY <1>2, <1>3, <2>1
<1>5. /\ PasosDelTurno = 11 - 3 * LargoArray + ecx
      /\ PasosDelTurno' = 11 - 3 * LargoArray - (ecx + 1)
  BY <1>1 DEF PasosDelTurno
<1>6. /\ 11 - 3 * LargoArray - (ecx + 1) \in Int
      /\ 11 - 3 * LargoArray - (ecx + 1) - 2 * Retornos
           < PasosDelTurno - 2 * Retornos
  BY <1>2, <1>3, <1>5
<1> QED
  BY <1>1, <1>3, <1>4, <1>5, <1>6, PasoDelTurno

LEMMA UbicarTodoPasos ==
  IInv /\ Cupo /\ UbicarTodo => PasosQueFaltan' < PasosQueFaltan
<1> SUFFICES ASSUME IInv, Cupo, UbicarTodo
             PROVE  PasosQueFaltan' < PasosQueFaltan
    OBVIOUS
<1>1. /\ pc = "ubicarTodo" /\ ~Muerto
      /\ UNCHANGED <<contadorCantCaract, numero>>
  BY DEF UbicarTodo, Muerto
<1>2. /\ ecx \in Nat /\ numero \in Nat /\ LargoArray \in Nat
      /\ Len(pila) \in Nat /\ numero < LargoArray
      /\ ecx <= numero + 1 /\ numero + 1 - ecx <= Len(pila)
  BY <1>1, Rangos
<1>3. Retornos = Len(pila) - (numero + 1 - ecx) /\ Retornos \in Int
  BY <1>1, <1>2 DEF Retornos
<1>4. PasosDelTurno = 11 - 3 * LargoArray - ecx
  BY <1>1 DEF PasosDelTurno
<1>5. CASE /\ ecx = numero + 1 /\ pc' = "incrementarContadorCantCaract"
           /\ UNCHANGED pila
  <2>1. Retornos' = Len(pila) /\ ~Muerto'
    BY <1>5 DEF Retornos, Muerto
  <2>2. Retornos = Len(pila)
    BY <1>2, <1>3, <1>5
  <2>3. PasosDelTurno' = 10 - 4 * LargoArray
    BY <1>5 DEF PasosDelTurno
  <2>4. /\ 10 - 4 * LargoArray \in Int
        /\ 10 - 4 * LargoArray - 2 * Len(pila) < PasosDelTurno - 2 * Retornos
    BY <1>2, <1>4, <1>5, <2>2
  <2> QED
    BY <1>1, <1>2, <2>1, <2>3, <2>4, PasoDelTurno
<1>6. CASE /\ ecx # numero + 1 /\ UNCHANGED pc /\ ecx' = ecx + 1
           /\ pila' = SubSeq(pila, 1, Len(pila) - 1)
  <2>1. Len(pila') = Len(pila) - 1
    <3> DEFINE m == Len(pila) - 1
    <3>1. m \in Nat /\ m <= Len(pila) /\ pila \in Seq(Letras \cup {Retorno})
      BY <1>2, <1>6 DEF IInv, TypeOK
    <3> HIDE DEF m
    <3>2. Len(SubSeq(pila, 1, m)) = m
      BY <1>2, <3>1
    <3> QED
      BY <1>6, <3>2 DEF m
  <2>2. Retornos' = Retornos
    <3>1. Retornos' = (Len(pila) - 1) - (numero + 1 - (ecx + 1))
      BY <1>1, <1>6, <2>1 DEF Retornos
    <3> QED
      BY <1>2, <1>3, <3>1
  <2>3. PasosDelTurno' = 11 - 3 * LargoArray - (ecx + 1) /\ ~Muerto'
    BY <1>1, <1>6 DEF PasosDelTurno, Muerto
  <2>4. /\ 11 - 3 * LargoArray - (ecx + 1) \in Int
        /\ 11 - 3 * LargoArray - (ecx + 1) - 2 * Retornos
             < PasosDelTurno - 2 * Retornos
    BY <1>2, <1>3, <1>4
  <2> QED
    BY <1>1, <1>3, <2>2, <2>3, <2>4, PasoDelTurno
<1> QED
  BY <1>5, <1>6 DEF UbicarTodo, PrimeroSinCorrer

LEMMA IncrementarPasos ==
  IInv /\ Cupo /\ IncrementarContadorCantCaract =>
    PasosQueFaltan' < PasosQueFaltan
<1> SUFFICES ASSUME IInv, Cupo, IncrementarContadorCantCaract
             PROVE  PasosQueFaltan' < PasosQueFaltan
    OBVIOUS
<1>1. /\ pc = "incrementarContadorCantCaract" /\ pc' = "llevarCuenta"
      /\ ~Muerto /\ ~Muerto'
      /\ contadorCantCaract' = contadorCantCaract + 1 /\ UNCHANGED pila
  BY DEF IncrementarContadorCantCaract, Muerto
<1>2. /\ LargoArray \in Nat /\ Limite \in Nat /\ contadorCantCaract \in Nat
      /\ PilaMax \in Nat /\ Len(pila) \in Nat /\ Turnos \in Int
  BY Rangos, TurnosHechos
<1>3. Turnos' = Turnos - 4 * LargoArray
  <2>1. \A l, c, m \in Int : 4 * l * (m + 1 - (c + 1)) = 4 * l * (m + 1 - c) - 4 * l
    OBVIOUS
  <2> QED
    BY <1>1, <1>2, <2>1 DEF Turnos
<1>4. PasosDelTurno = 10 - 4 * LargoArray /\ PasosDelTurno' = 2
  BY <1>1 DEF PasosDelTurno
<1>5. Retornos = Len(pila) /\ Retornos' = Len(pila)
  BY <1>1 DEF Retornos
<1>6. /\ PasosQueFaltan =
           Turnos + 2 * (PilaMax - Len(pila)) + (10 - 4 * LargoArray)
      /\ PasosQueFaltan' =
           (Turnos - 4 * LargoArray) + 2 * (PilaMax - Len(pila)) + 2
  <2>1. PasosQueFaltan' = Turnos' + 2 * (PilaMax - Retornos') + PasosDelTurno'
    BY <1>1 DEF PasosQueFaltan, Muerto, Turnos
  <2> QED
    BY <1>1, <1>3, <1>4, <1>5, <2>1, CuentaHechos
<1> QED
  BY <1>2, <1>6

LEMMA PasosDecrecen ==
  IInv /\ Cupo /\ [Next]_vars => [PasosQueFaltan' < PasosQueFaltan]_vars
<1>1. IInv /\ Cupo /\ Terminar => PasosQueFaltan' < PasosQueFaltan
  BY PasoFinal DEF Terminar, Muerto
<1> QED
  BY <1>1, LlevarCuentaPasos, SiguienteIteracionPasos,
     ArmarArrayCaracteresPasos, CorroborarInexistenciaPasos, EncontrarPasos,
     BuscarUltimoPasos, GuardarEnPilaPasos, PreUbicarPasos, UbicarTodoPasos,
     IncrementarPasos DEF Next, Acabado

\* No execution takes more steps than 4 * LargoArray per turn and two per
\* dword of the stack: every step makes PasosQueFaltan smaller, whatever lines
\* come, and it never is negative.
THEOREM PasosAcotadosTheorem == Spec => PasosAcotados
<1> DEFINE NoNegativo == PasosQueFaltan >= 0
<1>1. IInv /\ Cupo => NoNegativo
  <2> SUFFICES ASSUME IInv, Cupo PROVE PasosQueFaltan >= 0
    OBVIOUS
  <2>1. CASE Muerto
    BY <2>1 DEF Muerto, PasosQueFaltan
  <2>2. CASE ~Muerto
    <3>1. PasosQueFaltan \in Int
      <4>1. /\ PilaMax \in Int /\ Turnos \in Int
            /\ Retornos \in Int /\ PasosDelTurno \in Int
        BY CuentaHechos, TurnosHechos, Rangos
      <4>2. PasosQueFaltan =
              Turnos + 2 * (PilaMax - Retornos) + PasosDelTurno
        BY <2>2, CuentaHechos
      <4> QED
        BY <4>1, <4>2
    <3>2. PasosQueFaltan > 0
      BY <2>2, CuentaHechos
    <3> QED
      BY <3>1, <3>2
  <2> QED
    BY <2>1, <2>2
<1>2. IInv /\ Cupo /\ NoNegativo' /\ [Next]_vars =>
        [PasosQueFaltan' < PasosQueFaltan /\ PasosQueFaltan' >= 0]_vars
  BY PasosDecrecen
<1> HIDE DEF NoNegativo
<1>3. Spec => []Cupo
  BY InitCupo, NextCupo, Inductivo, PTL DEF Spec
<1> QED
  BY <1>1, <1>2, <1>3, Inductivo, PTL DEF Spec, PasosAcotados
=============================================================================
