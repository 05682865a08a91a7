----------------------- MODULE ProgramasBrevesProofs -----------------------
(* Proofs about the three shortest programs: the second version of program 5 *)
(* (which this module extends), program 3 (Anio) and program 2 (Linea).  They *)
(* have nothing to do with each other: a variable whose name several of them *)
(* use is that of the program whose specification the theorem is about.      *)
EXTENDS CaracteresSinRepetir, Dword, TLAPS

VARIABLE numero         \* of program 3

Anio == INSTANCE Bisiesto

CONSTANT LargoCadena    \* of program 2
VARIABLE edi

Linea == INSTANCE ParesImpares

-----------------------------------------------------------------------------
(* Program 5, second version.  The inductive invariant IInv says what the    *)
(* array holds also while a character is looked for in it.                   *)
\* The array is the first contador characters of orden, and zeros.
Guardado ==
  /\ contador \in 0..Len(orden)
  /\ \A i \in 0..contador - 1 : arrayCaracteres[i] = orden[i + 1]
  /\ \A i \in contador..LargoArray - 1 : arrayCaracteres[i] = 0

\* The character in hand is the last one of orden and not stored yet.
PorGuardar ==
  /\ contador = Len(orden) - 1
  /\ caracter = orden[Len(orden)]
  /\ \A i \in 0..contador - 1 : arrayCaracteres[i] # caracter

\* The character in hand is none, or is stored already.
YaGuardado ==
  /\ contador = Len(orden)
  /\ caracter = 0 \/ \E i \in 0..contador - 1 : arrayCaracteres[i] = caracter

InvArray ==
  /\ Guardado
  /\ pc \in {"recorridoDeCien", "fin"} => contador = Len(orden)
  /\ pc = "recorridoRepetidos" =>
       /\ indice < Limite
       /\ PorGuardar \/ YaGuardado
       /\ \A i \in 0..indice2 - 1 : arrayCaracteres[i] # caracter
  /\ pc = "fin" => salida = orden

IInv == TypeOK /\ InvArray

-----------------------------------------------------------------------------

LEMMA InitIInv == Init => IInv
<1> SUFFICES ASSUME Init PROVE IInv
    OBVIOUS
<1>1. TypeOK
  BY LargoAssumption DEF Init, TypeOK
<1>2. InvArray
  BY LargoAssumption DEF Init, InvArray, Guardado
<1> QED
  BY <1>1, <1>2 DEF IInv

\* printf finds the first zero byte right after the characters stored.
LEMMA MostrarExacto ==
  ASSUME TypeOK, Guardado, contador = Len(orden), MostrarArrayCaracteres
  PROVE  salida' = orden
<1> DEFINE EsLargo(n) == /\ arrayCaracteres[n] = 0
                         /\ \A i \in 0..n - 1 : arrayCaracteres[i] # 0
           largo == CHOOSE n \in DOMAIN arrayCaracteres : EsLargo(n)
<1>1. /\ DOMAIN arrayCaracteres = 0..LargoArray - 1
      /\ LargoArray \in Nat /\ contador \in 0..LargoArray - 1
      /\ orden \in Seq(Letras) /\ Len(orden) \in Nat
      /\ \A i \in 0..contador - 1 : arrayCaracteres[i] = orden[i + 1]
      /\ arrayCaracteres[contador] = 0
  BY LargoAssumption DEF TypeOK, Guardado
<1>2. ASSUME NEW i \in 0..contador - 1 PROVE arrayCaracteres[i] # 0
  <2>1. i + 1 \in 1..Len(orden)
    BY <1>1
  <2>2. orden[i + 1] \in Letras
    BY <1>1, <2>1
  <2> QED
    BY <1>1, <2>2, LetrasAssumption
<1>3. EsLargo(contador)
  BY <1>1, <1>2
<1>4. largo \in 0..LargoArray - 1 /\ EsLargo(largo)
  BY <1>1, <1>3
<1>5. largo = contador
  <2>1. ~(largo < contador)
    BY <1>1, <1>2, <1>4
  <2>2. ~(contador < largo)
    BY <1>1, <1>4
  <2> QED
    BY <1>1, <1>4, <2>1, <2>2
<1>6. salida' = [i \in 1..largo |-> arrayCaracteres[i - 1]]
  BY DEF MostrarArrayCaracteres
<1> HIDE DEF largo
<1>7. salida' = [i \in 1..Len(orden) |-> orden[i]]
  BY <1>1, <1>5, <1>6
<1>8. orden = [i \in 1..Len(orden) |-> orden[i]]
  BY <1>1
<1> QED
  BY <1>7, <1>8

LEMMA RecorridoDeCienIInv == IInv /\ RecorridoDeCien => IInv'
<1> SUFFICES ASSUME IInv, RecorridoDeCien PROVE IInv'
    OBVIOUS
<1>1. salida' = orden
  BY MostrarExacto DEF IInv, InvArray, RecorridoDeCien
<1>2. TypeOK'
  BY <1>1 DEF IInv, TypeOK, RecorridoDeCien
<1>3. InvArray'
  BY <1>1 DEF IInv, InvArray, Guardado, RecorridoDeCien
<1> QED
  BY <1>2, <1>3 DEF IInv

LEMMA SigueIInv == IInv /\ Sigue => IInv'
<1> SUFFICES ASSUME IInv, Sigue PROVE IInv'
    OBVIOUS
<1>0. TypeOK /\ InvArray
  BY DEF IInv
<1>1. /\ pc = "recorridoDeCien" /\ pc' = "recorridoRepetidos"
      /\ indice # Limite
      /\ UNCHANGED <<indice, contador, arrayCaracteres, salida>>
      /\ caracter' = cadena' /\ indice2' = 0
      /\ cadena' \in Letras \cup {0} /\ entrada' \in {"viva", "trabada"}
  BY <1>0 DEF Sigue, LeerCadena, Gets, Lectura, Indice2Inicial, TypeOK
<1>2. /\ contador = Len(orden) /\ Guardado
      /\ orden \in Seq(Letras) /\ Len(orden) \in Nat
      /\ indice \in 0..Limite /\ indice < Limite
      /\ contador \in 0..indice
  BY <1>0, <1>1, LargoAssumption DEF InvArray, TypeOK
<1>3. CASE \/ cadena' = 0
           \/ \E i \in DOMAIN orden : orden[i] = cadena'
  <2>1. UNCHANGED orden
    BY <1>3 DEF Sigue
  <2>2. TypeOK'
    BY <1>0, <1>1, <1>2, <2>1, LargoAssumption DEF TypeOK
  <2>3. caracter' = 0 \/ \E i \in 0..contador - 1 : arrayCaracteres[i] = caracter'
    <3>1. CASE cadena' = 0
      BY <1>1, <3>1
    <3>2. CASE \E i \in DOMAIN orden : orden[i] = cadena'
      <4>1. PICK i \in 1..Len(orden) : orden[i] = cadena'
        BY <1>2, <3>2
      <4>2. i - 1 \in 0..contador - 1 /\ arrayCaracteres[i - 1] = cadena'
        BY <1>2, <4>1 DEF Guardado
      <4> QED
        BY <1>1, <4>2
    <3> QED
      BY <1>3, <3>1, <3>2
  <2>4. YaGuardado'
    BY <1>1, <1>2, <2>1, <2>3 DEF YaGuardado
  <2>5. Guardado'
    BY <1>1, <1>2, <2>1 DEF Guardado
  <2>6. InvArray'
    BY <1>1, <1>2, <2>4, <2>5 DEF InvArray
  <2> QED
    BY <2>2, <2>6 DEF IInv
<1>4. CASE /\ cadena' # 0
           /\ \A i \in DOMAIN orden : orden[i] # cadena'
  <2>1. orden' = Append(orden, cadena') /\ cadena' \in Letras
    BY <1>1, <1>4 DEF Sigue
  <2>2. /\ orden' \in Seq(Letras) /\ Len(orden') = Len(orden) + 1
        /\ \A i \in 1..Len(orden) : orden'[i] = orden[i]
        /\ orden'[Len(orden')] = cadena'
    BY <1>2, <2>1
  <2>3. TypeOK'
    BY <1>0, <1>1, <1>2, <2>2, LargoAssumption DEF TypeOK
  <2>4. Guardado'
    BY <1>1, <1>2, <2>2 DEF Guardado
  <2>5. \A i \in 0..contador - 1 : arrayCaracteres[i] # cadena'
    BY <1>2, <1>4 DEF Guardado
  <2>6. PorGuardar'
    BY <1>1, <1>2, <2>2, <2>5 DEF PorGuardar
  <2>7. InvArray'
    BY <1>1, <1>2, <2>4, <2>6 DEF InvArray
  <2> QED
    BY <2>3, <2>7 DEF IInv
<1> QED
  BY <1>3, <1>4

\* What is known while a character is looked for.
LEMMA BuscandoHechos ==
  ASSUME TypeOK, InvArray, pc = "recorridoRepetidos"
  PROVE  /\ Guardado
         /\ PorGuardar \/ YaGuardado
         /\ \A i \in 0..indice2 - 1 : arrayCaracteres[i] # caracter
         /\ orden \in Seq(Letras) /\ Len(orden) \in Nat
         /\ indice \in Nat /\ indice < Limite /\ indice2 \in 0..indice + 1
         /\ contador \in 0..indice
         /\ Limite \in Nat /\ LargoArray \in Nat /\ Limite < LargoArray
  BY LargoAssumption DEF TypeOK, InvArray

LEMMA NoGuardarIInv == IInv /\ NoGuardar => IInv'
<1> SUFFICES ASSUME IInv, NoGuardar PROVE IInv'
    OBVIOUS
<1>0. TypeOK /\ InvArray
  BY DEF IInv
<1>1. /\ pc = "recorridoRepetidos" /\ pc' = "recorridoDeCien"
      /\ ~(indice2 > indice) /\ arrayCaracteres[indice2] = caracter
      /\ indice' = indice + 1
      /\ UNCHANGED <<indice2, contador, caracter, arrayCaracteres, cadena,
                     entrada, salida, orden>>
  BY DEF NoGuardar, RecorridoAgotado, TurnoContado
<1>2. /\ Guardado
      /\ PorGuardar \/ YaGuardado
      /\ orden \in Seq(Letras) /\ Len(orden) \in Nat
      /\ indice \in Nat /\ indice < Limite /\ indice2 \in 0..indice + 1
      /\ contador \in 0..indice
      /\ Limite \in Nat /\ LargoArray \in Nat /\ Limite < LargoArray
  BY <1>0, <1>1, BuscandoHechos
<1>3. TypeOK'
  BY <1>0, <1>1, <1>2 DEF TypeOK
<1>4. ~PorGuardar
  <2> SUFFICES ASSUME PorGuardar PROVE FALSE
      OBVIOUS
  <2>1. caracter # 0 /\ \A i \in 0..contador - 1 : arrayCaracteres[i] # caracter
    <3>1. Len(orden) \in 1..Len(orden) /\ caracter = orden[Len(orden)]
      BY <1>2 DEF PorGuardar
    <3>2. caracter \in Letras
      BY <1>2, <3>1
    <3> QED
      BY <3>2, LetrasAssumption DEF PorGuardar
  <2>2. indice2 \in contador..LargoArray - 1
    BY <1>1, <1>2, <2>1
  <2> QED
    BY <1>1, <1>2, <2>1, <2>2 DEF Guardado
<1>5. InvArray'
  BY <1>1, <1>2, <1>4 DEF InvArray, Guardado, YaGuardado
<1> QED
  BY <1>3, <1>5 DEF IInv

LEMMA RecorridoRepetidosIInv == IInv /\ RecorridoRepetidos => IInv'
<1> SUFFICES ASSUME IInv, RecorridoRepetidos PROVE IInv'
    OBVIOUS
<1>0. TypeOK /\ InvArray
  BY DEF IInv
<1>1. /\ pc = "recorridoRepetidos"
      /\ ~(indice2 > indice) /\ arrayCaracteres[indice2] # caracter
      /\ indice2' = indice2 + 1
      /\ UNCHANGED <<pc, indice, contador, caracter, arrayCaracteres, cadena,
                     entrada, salida, orden>>
  BY DEF RecorridoRepetidos, RecorridoAgotado
<1>2. /\ Guardado
      /\ PorGuardar \/ YaGuardado
      /\ \A i \in 0..indice2 - 1 : arrayCaracteres[i] # caracter
      /\ indice \in Nat /\ indice < Limite /\ indice2 \in 0..indice + 1
  BY <1>0, <1>1, BuscandoHechos
<1>3. TypeOK'
  BY <1>0, <1>1, <1>2 DEF TypeOK
<1>4. \A i \in 0..indice2' - 1 : arrayCaracteres[i] # caracter
  BY <1>1, <1>2
<1>5. Guardado' /\ (PorGuardar \/ YaGuardado)'
  BY <1>1, <1>2 DEF Guardado, PorGuardar, YaGuardado
<1>6. InvArray'
  BY <1>1, <1>2, <1>4, <1>5 DEF InvArray
<1> QED
  BY <1>3, <1>6 DEF IInv

LEMMA GuardarIInv == IInv /\ Guardar => IInv'
<1> SUFFICES ASSUME IInv, Guardar PROVE IInv'
    OBVIOUS
<1>0. TypeOK /\ InvArray
  BY DEF IInv
<1>1. /\ pc = "recorridoRepetidos" /\ pc' = "recorridoDeCien"
      /\ indice2 > indice
      /\ arrayCaracteres' = [arrayCaracteres EXCEPT ![contador] = caracter]
      /\ contador' = contador + 1 /\ indice' = indice + 1
      /\ UNCHANGED <<indice2, caracter, cadena, entrada, salida, orden>>
  BY DEF Guardar, RecorridoAgotado
<1>2. /\ Guardado
      /\ PorGuardar \/ YaGuardado
      /\ \A i \in 0..indice2 - 1 : arrayCaracteres[i] # caracter
      /\ orden \in Seq(Letras) /\ Len(orden) \in Nat
      /\ indice \in Nat /\ indice < Limite /\ indice2 \in 0..indice + 1
      /\ contador \in 0..indice
      /\ Limite \in Nat /\ LargoArray \in Nat /\ Limite < LargoArray
  BY <1>0, <1>1, BuscandoHechos
<1>3. /\ arrayCaracteres \in [0..LargoArray - 1 -> Letras \cup {0}]
      /\ caracter \in Letras \cup {0}
      /\ contador \in 0..LargoArray - 1
  BY <1>0, <1>2 DEF TypeOK
<1>4. TypeOK'
  BY <1>0, <1>1, <1>2, <1>3 DEF TypeOK
<1>5. ~YaGuardado
  <2>1. \A i \in 0..indice : arrayCaracteres[i] # caracter
    BY <1>1, <1>2
  <2>2. contador \in 0..indice /\ arrayCaracteres[contador] = 0
    BY <1>2, <1>3 DEF Guardado
  <2>3. caracter # 0
    BY <2>1, <2>2
  <2>4. \A i \in 0..contador - 1 : arrayCaracteres[i] # caracter
    BY <1>2, <2>1
  <2> QED
    BY <2>3, <2>4 DEF YaGuardado
<1>6. contador + 1 = Len(orden) /\ caracter = orden[contador + 1]
  BY <1>2, <1>5 DEF PorGuardar
<1>7. Guardado'
  <2>1. \A i \in 0..LargoArray - 1 :
          arrayCaracteres'[i] = IF i = contador THEN caracter ELSE arrayCaracteres[i]
    BY <1>1, <1>3
  <2> QED
    BY <1>1, <1>2, <1>3, <1>6, <2>1 DEF Guardado
<1>8. InvArray'
  BY <1>1, <1>6, <1>7 DEF InvArray
<1> QED
  BY <1>4, <1>8 DEF IInv

LEMMA QuietoIInv == IInv /\ UNCHANGED vars => IInv'
  BY DEF IInv, TypeOK, InvArray, Guardado, PorGuardar, YaGuardado, vars

LEMMA NextIInv == IInv /\ [Next]_vars => IInv'
  BY RecorridoDeCienIInv, SigueIInv, NoGuardarIInv, RecorridoRepetidosIInv,
     GuardarIInv, QuietoIInv DEF Next, Acabado

\* IInv holds in every reachable state, for every alphabet of nonzero bytes,
\* every number of turns and every array with a byte more than that.
THEOREM Inductivo == Spec => []IInv
  BY InitIInv, NextIInv, PTL DEF Spec

\* Type correctness of the second version of program 5; the search stays
\* within the bytes that the turns so far can have filled and one more.
THEOREM TypeOKTheorem == Spec => []TypeOK
<1>1. IInv => TypeOK
  BY DEF IInv
<1> QED
  BY <1>1, Inductivo, PTL

\* What is in the line buffer was taken already.
InvBuffer == cadena = 0 \/ \E i \in DOMAIN orden : orden[i] = cadena

LEMMA NextInvBuffer == IInv /\ InvBuffer /\ [Next]_vars => InvBuffer'
<1> SUFFICES ASSUME IInv, InvBuffer, [Next]_vars PROVE InvBuffer'
    OBVIOUS
<1>1. CASE Sigue
  <2>1. orden \in Seq(Letras) /\ Len(orden) \in Nat
    BY DEF IInv, TypeOK
  <2>2. CASE cadena' = 0 \/ \E i \in DOMAIN orden : orden[i] = cadena'
    <3>1. UNCHANGED orden
      BY <1>1, <2>2 DEF Sigue
    <3> QED
      BY <2>2, <3>1 DEF InvBuffer
  <2>3. CASE cadena' # 0 /\ \A i \in DOMAIN orden : orden[i] # cadena'
    <3>1. orden' = Append(orden, cadena') /\ cadena' \in Letras
      BY <1>1, <2>3 DEF Sigue, LeerCadena, Gets, Lectura, IInv, TypeOK
    <3>2. /\ Len(orden) + 1 \in DOMAIN orden'
          /\ orden'[Len(orden) + 1] = cadena'
      BY <2>1, <3>1
    <3> QED
      BY <3>2 DEF InvBuffer
  <2> QED
    BY <2>2, <2>3
<1>2. CASE UNCHANGED <<cadena, orden>>
  BY <1>2 DEF InvBuffer
<1> QED
  BY <1>1, <1>2 DEF Next, RecorridoDeCien, NoGuardar, RecorridoRepetidos, Guardar,
                    Acabado, vars

\* The array and the output are the distinct characters entered, in order of
\* appearance, and a read that fails adds none.
THEOREM OrdenDeAparicionTheorem == Spec => []OrdenDeAparicion
<1>0. Init => InvBuffer
  BY DEF Init, InvBuffer
<1>1. ASSUME IInv, InvBuffer PROVE OrdenDeAparicion
  <2>1. arrayCaracteres \in [0..LargoArray - 1 -> Letras \cup {0}]
    BY <1>1 DEF IInv, TypeOK
  <2>2. /\ contador \in Nat
        /\ \A i \in 0..contador - 1 : arrayCaracteres[i] = orden[i + 1]
        /\ \A i \in contador..LargoArray - 1 : arrayCaracteres[i] = 0
    BY <1>1, LargoAssumption DEF IInv, TypeOK, InvArray, Guardado
  <2>3. \A i \in DOMAIN arrayCaracteres :
          arrayCaracteres[i] = IF i < contador THEN orden[i + 1] ELSE 0
    BY <2>1, <2>2, LargoAssumption
  <2> QED
    BY <1>1, <2>3 DEF IInv, InvArray, InvBuffer, OrdenDeAparicion
<1> QED
  BY <1>0, <1>1, NextInvBuffer, Inductivo, PTL DEF Spec

\* The cost of the turns still to come, and of one turn less.
Turnos == (Limite - indice) * (Limite + 2)

LEMMA TurnosHechos ==
  ASSUME IInv
  PROVE  /\ Limite \in Nat /\ indice \in 0..Limite /\ Turnos \in Nat
         /\ indice < Limite => /\ Turnos >= Limite + 2
                               /\ (Limite - (indice + 1)) * (Limite + 2) =
                                    Turnos - (Limite + 2)
<1>1. Limite \in Nat /\ indice \in 0..Limite
  BY LargoAssumption DEF IInv, TypeOK
<1>2. \A l \in Nat : \A k \in 0..l :
        /\ (l - k) * (l + 2) \in Nat
        /\ k < l => /\ (l - k) * (l + 2) >= l + 2
                    /\ (l - (k + 1)) * (l + 2) = (l - k) * (l + 2) - (l + 2)
  <2> SUFFICES ASSUME NEW l \in Nat, NEW k \in 0..l
               PROVE  /\ (l - k) * (l + 2) \in Nat
                      /\ k < l => /\ (l - k) * (l + 2) >= l + 2
                                  /\ (l - (k + 1)) * (l + 2) =
                                       (l - k) * (l + 2) - (l + 2)
    OBVIOUS
  <2>1. \A d, e \in Nat : d * e \in Nat
    OBVIOUS
  <2>2. l - k \in Nat /\ l + 2 \in Nat
    OBVIOUS
  <2>3. (l - k) * (l + 2) \in Nat
    BY <2>1, <2>2
  <2>4. ASSUME k < l
        PROVE  /\ (l - k) * (l + 2) >= l + 2
               /\ (l - (k + 1)) * (l + 2) = (l - k) * (l + 2) - (l + 2)
    <3> DEFINE d == l - (k + 1)
    <3>1. d \in Nat /\ l - k = d + 1
      BY <2>4
    <3> HIDE DEF d
    <3>2. \A e \in Nat : /\ (d + 1) * e = d * e + e
                         /\ d * e \in Nat
      BY <3>1
    <3>3. (l - k) * (l + 2) = d * (l + 2) + (l + 2) /\ d * (l + 2) \in Nat
      BY <2>2, <3>1, <3>2
    <3> QED
      BY <2>2, <3>3 DEF d
  <2> QED
    BY <2>3, <2>4
<1> QED
  BY <1>1, <1>2 DEF Turnos

LEMMA PasosDecrecen ==
  IInv /\ [Next]_vars => [PasosQueFaltan' < PasosQueFaltan]_vars
<1> SUFFICES ASSUME IInv, Next, ~Acabado
             PROVE  PasosQueFaltan' < PasosQueFaltan
    BY DEF Acabado, Next
<1>0. /\ Limite \in Nat /\ indice \in 0..Limite /\ Turnos \in Nat
      /\ indice2 \in 0..indice + 1
  BY TurnosHechos DEF IInv, TypeOK
<1>1. CASE RecorridoDeCien
  <2>1. PasosQueFaltan = Turnos + 1 /\ PasosQueFaltan' = 0
    BY <1>1 DEF RecorridoDeCien, PasosQueFaltan, Turnos
  <2> QED
    BY <1>0, <2>1
<1>2. CASE Sigue
  <2>1. PasosQueFaltan = Turnos + 1
    BY <1>2 DEF Sigue, PasosQueFaltan, Turnos
  <2>2. PasosQueFaltan' = Turnos - 0
    BY <1>2 DEF Sigue, Indice2Inicial, PasosQueFaltan, Turnos
  <2> QED
    BY <1>0, <2>1, <2>2
<1>3. CASE RecorridoRepetidos
  <2>1. /\ PasosQueFaltan = Turnos - indice2
        /\ PasosQueFaltan' = Turnos - (indice2 + 1)
    BY <1>3 DEF RecorridoRepetidos, PasosQueFaltan, Turnos
  <2> QED
    BY <1>0, <2>1
<1>4. CASE NoGuardar \/ Guardar
  <2>1. /\ pc = "recorridoRepetidos" /\ pc' = "recorridoDeCien"
        /\ indice' = indice + 1
    BY <1>4 DEF NoGuardar, Guardar, TurnoContado
  <2>2. indice < Limite
    BY <2>1 DEF IInv, InvArray
  <2>3. PasosQueFaltan = Turnos - indice2
    BY <2>1 DEF PasosQueFaltan, Turnos
  <2>4. PasosQueFaltan' = (Limite - (indice + 1)) * (Limite + 2) + 1
    BY <2>1 DEF PasosQueFaltan
  <2>5. PasosQueFaltan' = Turnos - (Limite + 2) + 1
    BY <2>2, <2>4, TurnosHechos
  <2> QED
    BY <1>0, <2>2, <2>3, <2>5
<1> QED
  BY <1>1, <1>2, <1>3, <1>4 DEF Next

LEMMA PasosNoNegativos == IInv => PasosQueFaltan >= 0
<1> SUFFICES ASSUME IInv PROVE PasosQueFaltan >= 0
    OBVIOUS
<1>0. /\ Limite \in Nat /\ indice \in 0..Limite /\ Turnos \in Nat
      /\ indice2 \in 0..indice + 1
      /\ pc \in {"recorridoDeCien", "recorridoRepetidos", "fin"}
  BY TurnosHechos DEF IInv, TypeOK
<1>1. CASE pc = "recorridoDeCien"
  BY <1>0, <1>1 DEF PasosQueFaltan, Turnos
<1>2. CASE pc = "recorridoRepetidos"
  <2>1. Turnos >= Limite + 2
    BY <1>2, TurnosHechos DEF IInv, InvArray
  <2>2. PasosQueFaltan = Turnos - indice2
    BY <1>2 DEF PasosQueFaltan, Turnos
  <2> QED
    BY <1>0, <2>1, <2>2
<1>3. CASE pc = "fin"
  BY <1>3 DEF PasosQueFaltan
<1> QED
  BY <1>0, <1>1, <1>2, <1>3

\* No execution of the second version of program 5 has more than
\* Limite * (Limite + 2) + 1 steps: every step makes PasosQueFaltan smaller,
\* whatever lines come, and it never is negative.
THEOREM PasosAcotadosTheorem == Spec => PasosAcotados
<1> DEFINE NoNegativo == PasosQueFaltan >= 0
<1>1. IInv => NoNegativo
  BY PasosNoNegativos
<1>2. IInv /\ NoNegativo' /\ [Next]_vars =>
        [PasosQueFaltan' < PasosQueFaltan /\ PasosQueFaltan' >= 0]_vars
  BY PasosDecrecen
<1> HIDE DEF NoNegativo
<1> QED
  BY <1>1, <1>2, Inductivo, PTL DEF Spec, PasosAcotados

-----------------------------------------------------------------------------
(* Program 3.  The divisions decide one after another; the inductive         *)
(* invariant says at each label what the remainders seen so far imply.       *)

\* What the three remainders say of a year.
EsBisiesto(a) == a % 4 = 0 /\ (a % 100 # 0 \/ a % 400 = 0)

InvDivisiones ==
  /\ pc = "dividir100" => numero % 4 = 0
  /\ pc = "salirMal" => numero % 4 # 0 \/ numero % 100 = 0
  /\ pc = "salirBien" => EsBisiesto(numero)
  /\ pc = "fin" => (salida[1] = "si" <=> EsBisiesto(numero))

IInvAnio == Anio!TypeOK /\ InvDivisiones

\* Remainders and the calendar: a year has 366 days when the remainders say so.
LEMMA DiasDelAnio ==
  ASSUME NEW a \in Int
  PROVE  Anio!TieneDia366(a) <=> EsBisiesto(a)
  BY DEF Anio!TieneDia366, Anio!Dias, EsBisiesto

\* A multiple of 100 is one of 4, and one of 400 is both.
LEMMA RestosEncajados ==
  ASSUME NEW a \in Int
  PROVE  /\ a % 100 = 0 => a % 4 = 0
         /\ a % 400 = 0 => a % 100 = 0 /\ a % 4 = 0
  OBVIOUS

\* A negative year is seen as the year plus WordSize, which is 96 modulo 400.
LEMMA AnioNegativo ==
  ASSUME WordSize % 400 = 96, NEW n \in Nat, (n - WordSize) % 100 \notin {0, 4}
  PROVE  EsBisiesto(n) <=> EsBisiesto(n - WordSize)
  BY WordSizeAssumption DEF EsBisiesto

LEMMA InitAnio == Anio!Init => IInvAnio
  BY WordSizeAssumption
  DEF Anio!Init, IInvAnio, Anio!TypeOK, InvDivisiones, Anio!Words

LEMMA NextAnio == IInvAnio /\ [Anio!Next]_(Anio!vars) => IInvAnio'
<1> SUFFICES ASSUME IInvAnio, [Anio!Next]_(Anio!vars) PROVE IInvAnio'
    OBVIOUS
<1>0. Anio!TypeOK /\ InvDivisiones /\ numero \in Nat
  BY WordSizeAssumption DEF IInvAnio, Anio!TypeOK, Anio!Words
<1>1. CASE Anio!LeerNumero
  <2>1. /\ pc' = "dividir4" /\ UNCHANGED salida
        /\ numero' \in Anio!Words /\ entrada' \in {"viva", "trabada"}
    BY <1>0, <1>1 DEF Anio!LeerNumero, Anio!Scanf, Anio!Lectura, Anio!TypeOK
  <2> QED
    BY <1>0, <1>1, <2>1
    DEF IInvAnio, Anio!TypeOK, InvDivisiones, Anio!LeerNumero
<1>2. CASE Anio!Dividir4
  BY <1>0, <1>2 DEF IInvAnio, Anio!TypeOK, InvDivisiones, Anio!Dividir4
<1>3. CASE Anio!Dividir100
  BY <1>0, <1>3
  DEF IInvAnio, Anio!TypeOK, InvDivisiones, Anio!Dividir100, Anio!EsSiglo,
      EsBisiesto
<1>4. CASE Anio!SalirBien
  <2>1. /\ salida' \in Seq({"si", "no"}) /\ Len(salida') = 1
        /\ salida'[1] = "si"
    BY <1>0, <1>4 DEF Anio!TypeOK, Anio!SalirBien
  <2> QED
    BY <1>0, <1>4, <2>1
    DEF IInvAnio, Anio!TypeOK, InvDivisiones, Anio!SalirBien, EsBisiesto
<1>5. CASE Anio!SalirMal
  <2>0. /\ pc = "salirMal" /\ UNCHANGED <<numero, entrada>>
        /\ salida \in Seq({"si", "no"}) /\ Len(salida) = 0
        /\ numero % 4 # 0 \/ numero % 100 = 0
    BY <1>0, <1>5 DEF Anio!TypeOK, InvDivisiones, Anio!SalirMal
  <2>1. CASE numero % 400 = 0
    <3>1. pc' = "salirBien" /\ UNCHANGED salida
      BY <1>5, <2>1 DEF Anio!SalirMal
    <3>2. EsBisiesto(numero)
      BY <1>0, <2>1, RestosEncajados DEF EsBisiesto
    <3>3. Anio!TypeOK'
      BY <1>0, <2>0, <3>1 DEF Anio!TypeOK
    <3>4. InvDivisiones'
      BY <2>0, <3>1, <3>2 DEF InvDivisiones, EsBisiesto
    <3> QED
      BY <3>3, <3>4 DEF IInvAnio
  <2>2. CASE numero % 400 # 0
    <3>1. pc' = "fin" /\ salida' = Append(salida, "no")
      BY <1>5, <2>2 DEF Anio!SalirMal
    <3>2. /\ salida' \in Seq({"si", "no"}) /\ Len(salida') = 1
          /\ salida'[1] = "no"
      BY <2>0, <3>1
    <3>3. ~EsBisiesto(numero)
      BY <2>0, <2>2 DEF EsBisiesto
    <3>4. Anio!TypeOK'
      BY <1>0, <2>0, <3>1, <3>2 DEF Anio!TypeOK
    <3>5. InvDivisiones'
      BY <2>0, <3>1, <3>2, <3>3 DEF InvDivisiones, EsBisiesto
    <3> QED
      BY <3>4, <3>5 DEF IInvAnio
  <2> QED
    BY <2>1, <2>2
<1>6. CASE Anio!Acabado \/ UNCHANGED Anio!vars
  BY <1>0, <1>6
  DEF IInvAnio, Anio!TypeOK, InvDivisiones, Anio!Acabado, Anio!vars
<1> QED
  BY <1>1, <1>2, <1>3, <1>4, <1>5, <1>6 DEF Anio!Next

THEOREM InductivoAnio == Anio!Spec => []IInvAnio
  BY InitAnio, NextAnio, PTL DEF Anio!Spec

\* One answer and only one on every path through the divisions.
THEOREM AnioTypeOKTheorem == Anio!Spec => []Anio!TypeOK
<1>1. IInvAnio => Anio!TypeOK
  BY DEF IInvAnio
<1> QED
  BY <1>1, InductivoAnio, PTL

\* The answer is that of the calendar, for every size of a dword that has the
\* remainder of 2^32 (the assumption of Bisiesto), negative years included but
\* for those the wrapped division can get wrong.
THEOREM CalendarioGregorianoTheorem ==
  ASSUME WordSize % 400 = 96
  PROVE  Anio!Spec => []Anio!CalendarioGregoriano
<1>1. ASSUME IInvAnio PROVE Anio!CalendarioGregoriano
  <2> DEFINE a == Anio!Signed(numero)
  <2> SUFFICES ASSUME a >= 0 \/ a % 100 \notin {0, 4}, pc = "fin"
               PROVE  salida[1] = "si" <=> Anio!TieneDia366(a)
      BY DEF Anio!CalendarioGregoriano, Anio!Acierta
  <2>1. /\ numero \in Nat /\ a \in Int
        /\ salida[1] = "si" <=> EsBisiesto(numero)
    BY <1>1, WordSizeAssumption
    DEF IInvAnio, Anio!TypeOK, InvDivisiones, Anio!Words, Anio!Signed
  <2>2. a = numero \/ a = numero - WordSize
    BY DEF Anio!Signed
  <2>3. a >= 0 => a = numero
    BY <1>1, <2>1, WordSizeAssumption
    DEF IInvAnio, Anio!TypeOK, Anio!Words, Anio!Signed
  <2> HIDE DEF a
  <2>4. EsBisiesto(numero) <=> EsBisiesto(a)
    BY <2>1, <2>2, <2>3, AnioNegativo
  <2> QED
    BY <2>1, <2>4, DiasDelAnio
<1> QED
  BY <1>1, InductivoAnio, PTL

-----------------------------------------------------------------------------
(* Program 2.  The inductive invariant relates the offset of each round with *)
(* how many characters have been printed; a line that just fills the buffer  *)
(* makes the first round one character longer.                               *)

\* What ParesImpares assumes of the size of the buffer.
LargoPar == LargoCadena \in Nat /\ LargoCadena > 1 /\ LargoCadena % 2 = 0

\* The characters of the first round, without the zero byte that ends it.
Primera(n) ==
  (n + 1) \div 2 + (IF n = LargoCadena - 1 THEN 1 ELSE 0)

\* The k-th character printed of a line of length n.
Impreso(n, k) ==
  IF n < LargoCadena - 1 THEN Linea!Esperado(n, k)
  ELSE IF k <= LargoCadena \div 2 THEN 2 * k - 1
  ELSE IF k = LargoCadena \div 2 + 1 THEN n
  ELSE Linea!Esperado(n, k - 1)

\* The buffer holds a line of length n, and what has been printed of it.
Recorrida(n) ==
  /\ cadena = [i \in 0..LargoCadena - 1 |-> IF i < n THEN i + 1 ELSE 0]
  /\ \A k \in 1..Len(salida) : salida[k] = Impreso(n, k)
  /\ Len(salida) > 0 => caracter = salida[Len(salida)]
  /\ pc = "leerCadena" => n = 0 /\ Len(salida) = 0
  /\ pc = "for" /\ edi % 2 = 0 =>
       edi = 2 * Len(salida) /\ Len(salida) <= Primera(n)
  /\ pc = "for" /\ edi % 2 # 0 =>
       /\ edi = 2 * (Len(salida) - Primera(n)) - 1
       /\ Primera(n) < Len(salida) /\ edi <= n + 1
  /\ pc = "fin" => Len(salida) = Primera(n) + n \div 2 + 2

IInvLinea ==
  Linea!TypeOK /\ \E n \in 0..LargoCadena - 1 : Recorrida(n)

LEMMA InitLinea ==
  ASSUME LargoPar, Linea!Init PROVE IInvLinea
<1>1. Linea!TypeOK
  BY DEF LargoPar, Linea!Init, Linea!TypeOK
<1>2. Recorrida(0)
  BY DEF LargoPar, Linea!Init, Recorrida
<1> QED
  BY <1>1, <1>2 DEF LargoPar, IInvLinea

\* Halves of the lengths.
LEMMA Mitades ==
  ASSUME LargoPar, NEW n \in 0..LargoCadena - 1
  PROVE  /\ (n + 1) \div 2 \in Nat /\ n \div 2 \in Nat /\ LargoCadena \div 2 \in Nat
         /\ 2 * (LargoCadena \div 2) = LargoCadena
         /\ (n + 1) \div 2 + n \div 2 = n
         /\ 2 * ((n + 1) \div 2) \in n..n + 1
         /\ 2 * (n \div 2) \in n - 1..n
         /\ Primera(n) \in Nat /\ 2 * Primera(n) <= LargoCadena + 2
         /\ n < LargoCadena - 1 => Primera(n) = (n + 1) \div 2
         /\ n = LargoCadena - 1 =>
              /\ Primera(n) = LargoCadena \div 2 + 1
              /\ n \div 2 = LargoCadena \div 2 - 1
              /\ (n + 1) \div 2 = LargoCadena \div 2
  BY DEF LargoPar, Primera

\* The characters that each round prints, in order, and their zero bytes.
LEMMA ImpresoPrimera ==
  ASSUME LargoPar, NEW n \in 0..LargoCadena - 1, NEW k \in 1..Primera(n) + 1
  PROVE  Impreso(n, k) = IF k <= (n + 1) \div 2 THEN 2 * k - 1
                         ELSE IF k = Primera(n) + 1 THEN 0 ELSE n
<1> DEFINE a == (n + 1) \div 2
           b == LargoCadena \div 2
           h == n \div 2
<1>1. /\ a \in Nat /\ b \in Nat /\ h \in Nat /\ a + h = n /\ Primera(n) \in Nat
      /\ n \in Nat /\ LargoCadena \in Nat
      /\ n < LargoCadena - 1 => Primera(n) = a
      /\ n = LargoCadena - 1 => Primera(n) = b + 1 /\ a = b
  BY Mitades DEF LargoPar
<1>2. ASSUME NEW i \in Nat
      PROVE  Linea!Esperado(n, i) = IF i <= a THEN 2 * i - 1
                                    ELSE IF i = a + 1 \/ i = n + 2 THEN 0
                                    ELSE 2 * (i - a - 1)
  BY DEF Linea!Esperado
<1>3. Impreso(n, k) = IF n < LargoCadena - 1 THEN Linea!Esperado(n, k)
                      ELSE IF k <= b THEN 2 * k - 1
                      ELSE IF k = b + 1 THEN n
                      ELSE Linea!Esperado(n, k - 1)
  BY DEF Impreso
<1> HIDE DEF a, b, h
<1>4. Impreso(n, k) = IF k <= a THEN 2 * k - 1
                      ELSE IF k = Primera(n) + 1 THEN 0 ELSE n
  BY <1>1, <1>2, <1>3
<1> QED
  BY <1>4 DEF a

LEMMA ImpresoSegunda ==
  ASSUME LargoPar, NEW n \in 0..LargoCadena - 1, NEW j \in 1..n \div 2 + 1
  PROVE  Impreso(n, Primera(n) + 1 + j) = IF j <= n \div 2 THEN 2 * j ELSE 0
<1> DEFINE a == (n + 1) \div 2
           b == LargoCadena \div 2
           h == n \div 2
           k == Primera(n) + 1 + j
<1>1. /\ a \in Nat /\ b \in Nat /\ h \in Nat /\ a + h = n /\ Primera(n) \in Nat
      /\ n \in Nat /\ LargoCadena \in Nat /\ j \in 1..h + 1
      /\ n < LargoCadena - 1 => Primera(n) = a
      /\ n = LargoCadena - 1 => Primera(n) = b + 1 /\ a = b
  BY Mitades DEF LargoPar
<1>2. ASSUME NEW i \in Nat
      PROVE  Linea!Esperado(n, i) = IF i <= a THEN 2 * i - 1
                                    ELSE IF i = a + 1 \/ i = n + 2 THEN 0
                                    ELSE 2 * (i - a - 1)
  BY DEF Linea!Esperado
<1>3. Impreso(n, k) = IF n < LargoCadena - 1 THEN Linea!Esperado(n, k)
                      ELSE IF k <= b THEN 2 * k - 1
                      ELSE IF k = b + 1 THEN n
                      ELSE Linea!Esperado(n, k - 1)
  BY DEF Impreso
<1> HIDE DEF a, b, h
<1>4. Impreso(n, k) = IF j <= h THEN 2 * j ELSE 0
  BY <1>1, <1>2, <1>3
<1> QED
  BY <1>4 DEF h

\* The byte at edi is the one that has to be printed next, and it is zero when
\* the round is complete and not before.
LEMMA BytePrimera ==
  ASSUME LargoPar, Linea!TypeOK, NEW n \in 0..LargoCadena - 1, Recorrida(n),
         pc = "for", edi % 2 = 0
  PROVE  /\ Linea!Byte(edi) = Impreso(n, Len(salida) + 1)
         /\ Linea!Byte(edi) = 0 <=> Len(salida) = Primera(n)
<1> DEFINE k == Len(salida)
           m == (n + 1) \div 2
           L == LargoCadena
<1>1. /\ k \in Nat /\ m \in Nat /\ L \in Nat /\ n \in Nat /\ n < L
      /\ edi = 2 * k /\ k <= Primera(n)
      /\ cadena = [i \in 0..L - 1 |-> IF i < n THEN i + 1 ELSE 0]
      /\ k > 0 => caracter = Impreso(n, k)
      /\ 2 * m \in n..n + 1 /\ Primera(n) \in Nat
      /\ Primera(n) = IF n = L - 1 THEN m + 1 ELSE m
      /\ n = L - 1 => 2 * m = L
  <2>1. /\ k \in Nat /\ L \in Nat /\ n \in Nat /\ n < L
        /\ k > 0 => caracter = salida[k] /\ salida[k] = Impreso(n, k)
    BY DEF Linea!TypeOK, Recorrida, LargoPar
  <2>2. /\ edi = 2 * k /\ k <= Primera(n)
        /\ cadena = [i \in 0..L - 1 |-> IF i < n THEN i + 1 ELSE 0]
    BY DEF Recorrida
  <2>3. /\ m \in Nat /\ 2 * m \in n..n + 1 /\ Primera(n) \in Nat
        /\ Primera(n) = IF n = L - 1 THEN m + 1 ELSE m
        /\ n = L - 1 => 2 * m = L
    BY Mitades DEF LargoPar, Primera
  <2> QED
    BY <2>1, <2>2, <2>3
<1>2. Impreso(n, k + 1) = IF k + 1 <= m THEN 2 * (k + 1) - 1
                          ELSE IF k = Primera(n) THEN 0 ELSE n
  BY <1>1, ImpresoPrimera
<1>3. Linea!Byte(edi) = IF 2 * k < L THEN (IF 2 * k < n THEN 2 * k + 1 ELSE 0)
                        ELSE IF 2 * k = L THEN caracter ELSE 0
  BY <1>1 DEF Linea!Byte
<1>4. ASSUME 2 * k = L, n = L - 1 PROVE caracter = n
  <2>1. k \in 1..Primera(n) + 1 /\ k = m
    BY <1>1, <1>4 DEF LargoPar
  <2>2. Impreso(n, k) = 2 * k - 1
    BY <2>1, ImpresoPrimera
  <2> QED
    BY <1>1, <1>4, <2>1, <2>2
<1> HIDE DEF k, m, L
<1>5. Linea!Byte(edi) = Impreso(n, k + 1)
  BY <1>1, <1>2, <1>3, <1>4
<1>6. Linea!Byte(edi) = 0 <=> k = Primera(n)
  BY <1>1, <1>2, <1>5
<1> QED
  BY <1>5, <1>6 DEF k

LEMMA ByteSegunda ==
  ASSUME LargoPar, Linea!TypeOK, NEW n \in 0..LargoCadena - 1, Recorrida(n),
         pc = "for", edi % 2 # 0
  PROVE  /\ Linea!Byte(edi) = Impreso(n, Len(salida) + 1)
         /\ Linea!Byte(edi) = 0 <=> Len(salida) = Primera(n) + n \div 2 + 1
         /\ Linea!Byte(edi) # 0 => edi < n
<1> DEFINE j == Len(salida) - Primera(n)
           h == n \div 2
           b == LargoCadena \div 2
<1>1. /\ Len(salida) \in Nat /\ LargoCadena \in Nat /\ n \in Nat
      /\ n < LargoCadena
  BY DEF Linea!TypeOK, LargoPar
<1>2. /\ edi = 2 * j - 1 /\ Primera(n) < Len(salida) /\ edi <= n + 1
      /\ cadena = [i \in 0..LargoCadena - 1 |-> IF i < n THEN i + 1 ELSE 0]
  BY DEF Recorrida
<1>3. /\ h \in Nat /\ 2 * h \in n - 1..n /\ Primera(n) \in Nat
      /\ b \in Nat /\ LargoCadena = 2 * b
  BY Mitades
<1>4. j \in Nat \ {0} /\ Len(salida) = Primera(n) + j
  BY <1>1, <1>2, <1>3
<1>5. j \in 1..h + 1 => Impreso(n, Primera(n) + 1 + j) = IF j <= h THEN 2 * j ELSE 0
  BY ImpresoSegunda
<1> HIDE DEF j, h, b
<1>6. j \in 1..h + 1
  BY <1>1, <1>2, <1>3, <1>4
<1>7. edi \in 0..LargoCadena - 1
  BY <1>1, <1>2, <1>3, <1>4
<1>8. Linea!Byte(edi) = IF edi < n THEN edi + 1 ELSE 0
  <2>1. edi < LargoCadena /\ cadena[edi] = IF edi < n THEN edi + 1 ELSE 0
    BY <1>1, <1>2, <1>7
  <2> QED
    BY <2>1 DEF Linea!Byte
<1>9. edi < n <=> j <= h
  BY <1>1, <1>2, <1>3, <1>4, <1>6
<1>10. Len(salida) + 1 = Primera(n) + 1 + j
  BY <1>3, <1>4
<1>11. Linea!Byte(edi) = Impreso(n, Len(salida) + 1)
  <2>1. Impreso(n, Len(salida) + 1) = IF j <= h THEN 2 * j ELSE 0
    BY <1>5, <1>6, <1>10
  <2> QED
    BY <1>2, <1>4, <1>8, <1>9, <2>1
<1>12. Linea!Byte(edi) = 0 <=> Len(salida) = Primera(n) + h + 1
  BY <1>1, <1>2, <1>3, <1>4, <1>6, <1>8, <1>9
<1>13. Linea!Byte(edi) # 0 => edi < n
  BY <1>8
<1> QED
  BY <1>11, <1>12, <1>13 DEF h

LEMMA LeerCadenaLinea ==
  ASSUME LargoPar, IInvLinea, Linea!LeerCadena PROVE IInvLinea'
<1>0. Linea!TypeOK /\ pc = "leerCadena"
  BY DEF IInvLinea, Linea!LeerCadena
<1>1. /\ cadena = [i \in 0..LargoCadena - 1 |-> 0]
      /\ Len(salida) = 0
  BY <1>0 DEF IInvLinea, Recorrida
<1>2. PICK n \in 0..LargoCadena - 1 :
        cadena' = [i \in DOMAIN cadena |-> IF i < n THEN i + 1 ELSE cadena[i]]
  BY DEF Linea!LeerCadena
<1>3. cadena' = [i \in 0..LargoCadena - 1 |-> IF i < n THEN i + 1 ELSE 0]
  BY <1>1, <1>2
<1>4. /\ edi' = 0 /\ pc' = "for" /\ UNCHANGED <<caracter, salida>>
  BY DEF Linea!LeerCadena
<1>5. cadena' \in [0..LargoCadena - 1 -> 0..LargoCadena - 1]
  <2>1. \A i \in 0..LargoCadena - 1 :
          (IF i < n THEN i + 1 ELSE 0) \in 0..LargoCadena - 1
    BY DEF LargoPar
  <2> QED
    BY <1>3, <2>1
<1>6. Linea!TypeOK'
  <2>1. edi' \in 0..LargoCadena + 2
    BY <1>4 DEF LargoPar
  <2> QED
    BY <1>0, <1>4, <1>5, <2>1 DEF Linea!TypeOK
<1>7. Recorrida(n)'
  BY <1>1, <1>3, <1>4, Mitades DEF Recorrida
<1> QED
  BY <1>6, <1>7 DEF IInvLinea

\* One more character is printed, the one that has to.
LEMMA MostrarCaracterLinea ==
  ASSUME LargoPar, Linea!TypeOK, NEW n \in 0..LargoCadena - 1, Recorrida(n),
         pc = "for", Linea!MostrarCaracter
  PROVE  /\ salida' \in Seq(0..LargoCadena - 1)
         /\ caracter' \in 0..LargoCadena - 1
         /\ Len(salida') = Len(salida) + 1
         /\ \A k \in 1..Len(salida') : salida'[k] = Impreso(n, k)
         /\ caracter' = salida'[Len(salida')]
<1> DEFINE b == Linea!Byte(edi)
<1>1. b \in 0..LargoCadena - 1
  <2>1. edi \in Nat /\ LargoCadena \in Nat /\ 0 \in 0..LargoCadena - 1
    BY DEF LargoPar, Linea!TypeOK
  <2>2. edi < LargoCadena => cadena[edi] \in 0..LargoCadena - 1
    BY <2>1 DEF Linea!TypeOK
  <2> QED
    BY <2>1, <2>2 DEF Linea!Byte, Linea!TypeOK
<1>2. b = Impreso(n, Len(salida) + 1)
  BY BytePrimera, ByteSegunda
<1>3. /\ caracter' = b /\ salida' = Append(salida, b)
      /\ salida \in Seq(0..LargoCadena - 1)
      /\ \A k \in 1..Len(salida) : salida[k] = Impreso(n, k)
  BY DEF Linea!MostrarCaracter, Linea!TypeOK, Recorrida
<1> HIDE DEF b
<1> QED
  BY <1>1, <1>2, <1>3

LEMMA SiguienteIteracionLinea ==
  ASSUME LargoPar, IInvLinea, Linea!SiguienteIteracion PROVE IInvLinea'
<1>0. PICK n \in 0..LargoCadena - 1 : Recorrida(n)
  BY DEF IInvLinea
<1>1. /\ Linea!TypeOK /\ pc = "for" /\ pc' = "for" /\ UNCHANGED cadena
      /\ Linea!Byte(edi) # 0 /\ Linea!MostrarCaracter /\ edi' = edi + 2
  BY DEF IInvLinea, Linea!SiguienteIteracion, Linea!FinDeCadena, Linea!Paso
<1>2. /\ salida' \in Seq(0..LargoCadena - 1)
      /\ caracter' \in 0..LargoCadena - 1
      /\ Len(salida') = Len(salida) + 1
      /\ \A k \in 1..Len(salida') : salida'[k] = Impreso(n, k)
      /\ caracter' = salida'[Len(salida')]
  BY <1>0, <1>1, MostrarCaracterLinea
<1>3. Len(salida) \in Nat /\ edi \in Nat
  BY <1>1 DEF LargoPar, Linea!TypeOK
<1>4. edi' % 2 = edi % 2
  BY <1>1, <1>3
<1>5. /\ edi % 2 = 0 => edi' = 2 * Len(salida') /\ Len(salida') <= Primera(n)
      /\ edi % 2 # 0 =>
           /\ edi' = 2 * (Len(salida') - Primera(n)) - 1
           /\ Primera(n) < Len(salida') /\ edi' <= n + 1
  <2>1. CASE edi % 2 = 0
    <3>1. /\ edi = 2 * Len(salida) /\ Len(salida) <= Primera(n)
          /\ Len(salida) # Primera(n)
      BY <1>0, <1>1, <2>1, BytePrimera DEF Recorrida
    <3> QED
      BY <1>1, <1>2, <1>3, <2>1, <3>1, Mitades
  <2>2. CASE edi % 2 # 0
    <3>1. /\ edi = 2 * (Len(salida) - Primera(n)) - 1
          /\ Primera(n) < Len(salida)
      BY <1>0, <1>1, <2>2 DEF Recorrida
    <3>2. edi < n
      BY <1>0, <1>1, <2>2, ByteSegunda
    <3>3. n \in Nat /\ Primera(n) \in Nat
      BY Mitades DEF LargoPar
    <3> DEFINE k == Len(salida)
               p == Primera(n)
    <3>4. /\ k \in Nat /\ edi \in Nat /\ p \in Nat /\ n \in Nat
          /\ edi' = edi + 2 /\ Len(salida') = k + 1
          /\ edi = 2 * (k - p) - 1 /\ p < k /\ edi < n
      BY <1>1, <1>2, <1>3, <3>1, <3>2, <3>3
    <3> HIDE DEF k, p
    <3>5. edi' = 2 * (Len(salida') - p) - 1 /\ p < Len(salida') /\ edi' <= n + 1
      BY <3>4
    <3> QED
      BY <2>2, <3>5 DEF p
  <2> QED
    BY <2>1, <2>2
<1>6. edi' \in 0..LargoCadena + 2
  <2>1. /\ LargoCadena \in Nat /\ n \in Nat /\ n < LargoCadena
        /\ Primera(n) \in Nat /\ 2 * Primera(n) <= LargoCadena + 2
        /\ Len(salida') \in Nat /\ edi' \in Nat
    BY <1>1, <1>2, <1>3, Mitades DEF LargoPar
  <2> QED
    BY <1>5, <2>1
<1>7. Linea!TypeOK'
  BY <1>1, <1>2, <1>6 DEF Linea!TypeOK
<1>8. Recorrida(n)'
  BY <1>0, <1>1, <1>2, <1>4, <1>5 DEF Recorrida
<1> QED
  BY <1>7, <1>8 DEF IInvLinea

LEMMA SiguienteCadenaLinea ==
  ASSUME LargoPar, IInvLinea, Linea!SiguienteCadena PROVE IInvLinea'
<1>0. PICK n \in 0..LargoCadena - 1 : Recorrida(n)
  BY DEF IInvLinea
<1>1. /\ Linea!TypeOK /\ pc = "for" /\ UNCHANGED cadena
      /\ Linea!Byte(edi) = 0 /\ Linea!MostrarCaracter
      /\ \/ edi % 2 = 0 /\ edi' = 1 /\ pc' = "for"
         \/ edi % 2 # 0 /\ UNCHANGED edi /\ pc' = "fin"
  BY DEF IInvLinea, Linea!SiguienteCadena, Linea!FinDeCadena,
         Linea!InicioImpares
<1>2. /\ salida' \in Seq(0..LargoCadena - 1)
      /\ caracter' \in 0..LargoCadena - 1
      /\ Len(salida') = Len(salida) + 1
      /\ \A k \in 1..Len(salida') : salida'[k] = Impreso(n, k)
      /\ caracter' = salida'[Len(salida')]
  BY <1>0, <1>1, MostrarCaracterLinea
<1>3. Linea!TypeOK'
  <2>1. edi' \in 0..LargoCadena + 2
    BY <1>1 DEF LargoPar, Linea!TypeOK
  <2> QED
    BY <1>1, <1>2, <2>1 DEF Linea!TypeOK
<1>4. Recorrida(n)'
  <2>1. CASE edi % 2 = 0
    <3>1. Len(salida) = Primera(n) /\ edi' = 1 /\ pc' = "for"
      BY <1>0, <1>1, <2>1, BytePrimera
    <3>2. /\ Primera(n) \in Nat /\ n \in Nat
          /\ edi' % 2 # 0 /\ edi' <= n + 1
          /\ edi' = 2 * (Len(salida') - Primera(n)) - 1
          /\ Primera(n) < Len(salida')
      <4>1. Primera(n) \in Nat /\ n \in Nat
        BY Mitades DEF LargoPar
      <4>2. Len(salida') = Primera(n) + 1
        BY <1>2, <3>1
      <4> QED
        BY <3>1, <4>1, <4>2
    <3> QED
      BY <1>0, <1>1, <1>2, <3>1, <3>2 DEF Recorrida
  <2>2. CASE edi % 2 # 0
    <3>1. Len(salida) = Primera(n) + n \div 2 + 1 /\ pc' = "fin"
      BY <1>0, <1>1, <2>2, ByteSegunda
    <3>2. Len(salida') = Primera(n) + n \div 2 + 2
      BY <1>2, <3>1, Mitades
    <3> QED
      BY <1>0, <1>1, <1>2, <3>1, <3>2 DEF Recorrida
  <2> QED
    BY <2>1, <2>2
<1> QED
  BY <1>3, <1>4 DEF IInvLinea

LEMMA QuietoLinea ==
  ASSUME IInvLinea, UNCHANGED Linea!vars PROVE IInvLinea'
  BY DEF IInvLinea, Linea!vars, Linea!TypeOK, Recorrida

LEMMA NextLinea ==
  ASSUME LargoPar, IInvLinea, [Linea!Next]_(Linea!vars) PROVE IInvLinea'
  BY LeerCadenaLinea, SiguienteIteracionLinea, SiguienteCadenaLinea, QuietoLinea
  DEF Linea!Next, Linea!Acabado

\* The rounds of program 2 keep in step with the line, for every size of the
\* buffer that ParesImpares assumes and every line that fits.
THEOREM InductivoLinea ==
  ASSUME LargoPar PROVE Linea!Spec => []IInvLinea
  BY InitLinea, NextLinea, PTL DEF Linea!Spec

\* Types; the byte that a round uses is one of cadena, caracter or the first two
\* of its padding.  What is loaded with it is the matter of CargaAcotadaTheorem.
THEOREM LineaTypeOKTheorem ==
  ASSUME LargoPar PROVE Linea!Spec => []Linea!TypeOK
<1>1. IInvLinea => Linea!TypeOK
  BY DEF IInvLinea
<1> QED
  BY <1>1, InductivoLinea, PTL

\* The length that the properties speak of is that of the line.
LEMMA LargoDeLinea ==
  ASSUME LargoPar, NEW n \in 0..LargoCadena - 1, Recorrida(n)
  PROVE  Linea!Largo = n
<1> DEFINE EsLargo(m) == cadena[m] = 0 /\ \A i \in 0..m - 1 : cadena[i] # 0
           largo == CHOOSE m \in DOMAIN cadena : EsLargo(m)
<1>1. /\ DOMAIN cadena = 0..LargoCadena - 1
      /\ \A i \in 0..LargoCadena - 1 :
           cadena[i] = IF i < n THEN i + 1 ELSE 0
      /\ LargoCadena \in Nat
  BY DEF LargoPar, Recorrida
<1>2. EsLargo(n)
  BY <1>1
<1>3. largo \in 0..LargoCadena - 1 /\ EsLargo(largo)
  BY <1>1, <1>2
<1>4. Linea!Largo = largo
  BY DEF Linea!Largo
<1> HIDE DEF largo
<1>5. ~(largo < n) /\ ~(n < largo)
  BY <1>1, <1>2, <1>3
<1> QED
  BY <1>3, <1>4, <1>5

\* The dword that a round loads ends within the padding of caracter, but for one
\* load, of a line that just fits, which ends two bytes after it.
THEOREM CargaAcotadaTheorem ==
  ASSUME LargoPar PROVE Linea!Spec => []Linea!CargaAcotada
<1>1. ASSUME IInvLinea PROVE Linea!CargaAcotada
  <2> SUFFICES ASSUME pc = "for", edi + 3 > LargoCadena + 3
               PROVE  /\ Linea!Largo = LargoCadena - 1
                      /\ edi + 3 = LargoCadena + 5
                      /\ Len(salida) = LargoCadena \div 2 + 1
      BY DEF Linea!CargaAcotada, Linea!UltimoByteCargado
  <2>0. PICK n \in 0..LargoCadena - 1 : Recorrida(n)
    BY <1>1 DEF IInvLinea
  <2>1. Linea!Largo = n
    BY <2>0, LargoDeLinea
  <2>2. /\ Len(salida) \in Nat /\ edi \in Nat /\ n \in Nat /\ LargoCadena \in Nat
        /\ n < LargoCadena /\ LargoCadena < edi
    BY <1>1 DEF IInvLinea, LargoPar, Linea!TypeOK
  <2>3. edi % 2 = 0
    BY <2>0, <2>2 DEF Recorrida
  <2>4. edi = 2 * Len(salida) /\ Len(salida) <= Primera(n)
    BY <2>0, <2>3 DEF Recorrida
  <2> DEFINE m == (n + 1) \div 2
             b == LargoCadena \div 2
  <2>5. /\ m \in Nat /\ 2 * m \in n..n + 1 /\ b \in Nat /\ 2 * b = LargoCadena
        /\ n < LargoCadena - 1 => Primera(n) = m
        /\ n = LargoCadena - 1 => Primera(n) = b + 1
    BY Mitades
  <2> HIDE DEF m, b
  <2>6. n = LargoCadena - 1
    BY <2>2, <2>4, <2>5
  <2>7. Len(salida) = b + 1
    BY <2>2, <2>4, <2>5, <2>6
  <2> QED
    BY <2>1, <2>2, <2>4, <2>5, <2>6, <2>7 DEF b
<1> QED
  BY <1>1, InductivoLinea, PTL

\* Both rounds are complete whatever the parity of the length, and a line that
\* just fits has one character printed twice and nothing worse.
THEOREM SubcadenasTheorem ==
  ASSUME LargoPar PROVE Linea!Spec => []Linea!Subcadenas
<1>1. ASSUME IInvLinea PROVE Linea!Subcadenas
  <2>0. PICK n \in 0..LargoCadena - 1 : Recorrida(n)
    BY <1>1 DEF IInvLinea
  <2>1. Linea!Largo = n
    BY <2>0, LargoDeLinea
  <2>2. Len(salida) \in Nat /\ edi \in Nat
        /\ pc \in {"leerCadena", "for", "fin"}
    BY <1>1 DEF IInvLinea, LargoPar, Linea!TypeOK
  <2>3. Len(salida) <= Primera(n) + n \div 2 + 2
    <3>1. Primera(n) \in Nat /\ n \div 2 \in Nat /\ 2 * (n \div 2) \in n - 1..n
      BY Mitades
    <3> DEFINE h == n \div 2
    <3>2. /\ pc = "leerCadena" => Len(salida) = 0
          /\ pc = "for" /\ edi % 2 = 0 => Len(salida) <= Primera(n)
          /\ pc = "for" /\ edi % 2 # 0 =>
               edi = 2 * (Len(salida) - Primera(n)) - 1 /\ edi <= n + 1
          /\ pc = "fin" => Len(salida) = Primera(n) + h + 2
      BY <2>0 DEF Recorrida
    <3> HIDE DEF h
    <3>3. n \in Nat /\ h \in Nat /\ 2 * h \in n - 1..n
      BY <3>1 DEF h, LargoPar
    <3>4. Len(salida) <= Primera(n) + h + 2
      BY <2>2, <3>1, <3>2, <3>3
    <3> QED
      BY <3>4 DEF h
  <2>4. CASE n < LargoCadena - 1
    <3>1. \A k \in 1..Len(salida) : salida[k] = Linea!Esperado(n, k)
      BY <2>0, <2>4 DEF Recorrida, Impreso
    <3>2. Linea!CumpleCon(n)
      BY <2>0, <2>2, <2>3, <2>4, <3>1, Mitades DEF Recorrida, Linea!CumpleCon
    <3> QED
      BY <2>1, <2>4, <3>2 DEF Linea!Subcadenas
  <2>5. CASE n = LargoCadena - 1
    <3>1. \A k \in 1..Len(salida) :
            salida[k] = IF k <= LargoCadena \div 2 THEN 2 * k - 1
                        ELSE IF k = LargoCadena \div 2 + 1 THEN n
                        ELSE Linea!Esperado(n, k - 1)
      <4>1. LargoCadena \in Nat /\ ~(n < LargoCadena - 1)
        BY <2>5 DEF LargoPar
      <4> QED
        BY <2>0, <4>1 DEF Recorrida, Impreso
    <3>2. Primera(n) + n \div 2 + 2 = n + 3
      <4>1. /\ Primera(n) = LargoCadena \div 2 + 1
            /\ n \div 2 = LargoCadena \div 2 - 1
            /\ LargoCadena \div 2 \in Nat
            /\ 2 * (LargoCadena \div 2) = LargoCadena
        BY <2>5, Mitades
      <4> DEFINE b == LargoCadena \div 2
                 h == n \div 2
      <4> HIDE DEF b, h
      <4>2. /\ Primera(n) = b + 1 /\ h = b - 1 /\ b \in Nat
            /\ LargoCadena = 2 * b
        BY <4>1 DEF b, h
      <4>3. Primera(n) + h + 2 = n + 3
        BY <2>5, <4>2
      <4> QED
        BY <4>3 DEF h
    <3>3. /\ Len(salida) <= n + 3
          /\ pc = "fin" => Len(salida) = n + 3
      BY <2>0, <2>3, <3>2 DEF Recorrida
    <3>4. Linea!RepiteSoloUno
      BY <2>1, <3>1, <3>3 DEF Linea!RepiteSoloUno
    <3> QED
      BY <2>1, <2>5, <3>4 DEF Linea!Subcadenas, LargoPar
  <2> QED
    BY <2>4, <2>5 DEF LargoPar
<1> QED
  BY <1>1, InductivoLinea, PTL
=============================================================================
