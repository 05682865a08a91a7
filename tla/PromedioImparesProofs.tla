----------------------- MODULE PromedioImparesProofs -----------------------
(* Proofs about program 4.  The inductive invariant IInv relates the sums,   *)
(* the counters and the stack with the numbers entered, also while the last  *)
(* number is entered but not added yet.                                      *)
EXTENDS PromedioImpares, DwordProofs

\* Between two numbers: everything entered is in the sums.
Contados ==
  /\ contador = tecleados.cuantos
  /\ pila = contador + 2
  /\ cantDeNImpares = tecleados.cuantosImpares
  /\ sumaDePares = ToWord(tecleados.pares)
  /\ sumaDePromedioDeImpares = ToWord(tecleados.impares)

\* The last number entered is still to be added.
PorSumar ==
  /\ contador + 1 = tecleados.cuantos
  /\ pila = contador + 3
  /\ contador < Signed(cantDeN)
  /\ EsPar =>
       /\ cantDeNImpares = tecleados.cuantosImpares
       /\ sumaDePares = ToWord(tecleados.pares - Signed(numeroIngresado))
       /\ sumaDePromedioDeImpares = ToWord(tecleados.impares)
  /\ ~EsPar =>
       /\ cantDeNImpares + 1 = tecleados.cuantosImpares
       /\ sumaDePares = ToWord(tecleados.pares)
       /\ sumaDePromedioDeImpares =
            ToWord(tecleados.impares - Signed(numeroIngresado))

\* The sum of at most one odd number is in the range of a signed word.
UnSoloImpar ==
  /\ tecleados.cuantosImpares = 0 => tecleados.impares = 0
  /\ tecleados.cuantosImpares = 1 =>
       tecleados.impares \in -(WordSize \div 2)..(WordSize \div 2) - 1

\* What is shown.
Mostrado ==
  /\ CuentaCompleta
  /\ ~SinImpares =>
       /\ promedioDeImpares = sumaDePromedioDeImpares \div cantDeNImpares
       /\ decimalesPromedioDeImpares = Decimal

InvSumas ==
  /\ pc = "inicializar" =>
       /\ pila = 1 /\ contador = 0
       /\ tecleados = [impares |-> 0, pares |-> 0, cuantosImpares |-> 0,
                       cuantos |-> 0]
  /\ pc \in {"llevarCuenta", "fin", "desbordada"} => Contados
  /\ pc = "revisarSiPar" => PorSumar
  /\ pc = "desbordada" => ~Cabe
  /\ pc = "fin" => Mostrado
  /\ UnSoloImpar

IInv == TypeOK /\ InvSumas

-----------------------------------------------------------------------------

LEMMA PilaHechos ==
  /\ WordSize \in Nat /\ WordSize \div 2 \in Nat
  /\ PilaMax \in Nat /\ PilaMax > 6
  /\ 10 * PilaMax < WordSize /\ PilaMax < WordSize \div 2
BY WordSizeAssumption, PilaAssumption

\* What the history adds for a number, even or odd.
LEMMA ConUnoMasHechos ==
  ASSUME NEW w \in Words,
         tecleados \in [impares : Int, pares : Int,
                        cuantosImpares : Nat, cuantos : Nat]
  PROVE  LET h == ConUnoMas(Signed(w))
         IN  /\ h \in [impares : Int, pares : Int,
                       cuantosImpares : Nat, cuantos : Nat]
             /\ h.cuantos = tecleados.cuantos + 1
             /\ w % 2 = 0 =>
                  /\ h.impares = tecleados.impares
                  /\ h.cuantosImpares = tecleados.cuantosImpares
                  /\ h.pares = tecleados.pares + Signed(w)
             /\ w % 2 # 0 =>
                  /\ h.pares = tecleados.pares
                  /\ h.cuantosImpares = tecleados.cuantosImpares + 1
                  /\ h.impares = tecleados.impares + Signed(w)
<1> DEFINE n == Signed(w)
           h == ConUnoMas(n)
<1>1. n \in Int /\ n % 2 = w % 2 /\ w \in Int
  BY SignedTipo, ParidadDeSigned, WordSizeAssumption DEF Words
<1> HIDE DEF n
<1>2. CASE w % 2 = 0
  <2>1. n % 2 = 0 /\ (n % 2) * n = 0 /\ (1 - (n % 2)) * n = n
    BY <1>1, <1>2
  <2>2. h = [impares |-> tecleados.impares, pares |-> tecleados.pares + n,
             cuantosImpares |-> tecleados.cuantosImpares,
             cuantos |-> tecleados.cuantos + 1]
    BY <1>1, <2>1 DEF ConUnoMas
  <2> QED
    BY <1>1, <1>2, <2>2 DEF n
<1>3. CASE w % 2 # 0
  <2>1. n % 2 = 1
    BY <1>1, <1>3
  <2>2. (n % 2) * n = n /\ (1 - (n % 2)) * n = 0
    BY <1>1, <2>1
  <2>3. h = [impares |-> tecleados.impares + n, pares |-> tecleados.pares,
             cuantosImpares |-> tecleados.cuantosImpares + 1,
             cuantos |-> tecleados.cuantos + 1]
    BY <1>1, <2>1, <2>2 DEF ConUnoMas
  <2> QED
    BY <1>1, <1>3, <2>3 DEF n
<1> QED
  BY <1>2, <1>3

LEMMA InitIInv == Init => IInv
<1> SUFFICES ASSUME Init PROVE IInv
    OBVIOUS
<1>1. TypeOK
  BY PilaHechos DEF Init, TypeOK, Words
<1>2. InvSumas
  BY <1>1, PilaHechos DEF Init, InvSumas, UnSoloImpar, TypeOK
<1> QED
  BY <1>1, <1>2 DEF IInv

LEMMA InicializarIInv == IInv /\ Inicializar => IInv'
<1> SUFFICES ASSUME IInv, Inicializar PROVE IInv'
    OBVIOUS
<1>0. TypeOK /\ InvSumas
  BY DEF IInv
<1>1. /\ pc = "inicializar" /\ pc' = "llevarCuenta"
      /\ promedioDeImpares' = 0 /\ decimalesPromedioDeImpares' = 0
      /\ sumaDePromedioDeImpares' = 0 /\ cantDeNImpares' = 0
      /\ sumaDePares' = 0 /\ contador' = 0 /\ pila' = pila + 1
      /\ UNCHANGED <<numeroIngresado, tecleados>>
      /\ cantDeN' \in Words /\ entrada' \in {"viva", "trabada"}
  BY <1>0, EntradasAssumption DEF Inicializar, Scanf, Lectura, TypeOK
<1>2. TypeOK'
  BY <1>0, <1>1, PilaHechos DEF TypeOK, InvSumas, Words
<1>3. ToWord(0) = 0
  BY PilaHechos, ToWordDeWord DEF Words
<1>4. InvSumas'
  BY <1>0, <1>1, <1>3 DEF InvSumas, Contados, UnSoloImpar
<1> QED
  BY <1>2, <1>4 DEF IInv

LEMMA LlevarCuentaIInv == IInv /\ LlevarCuenta => IInv'
<1> SUFFICES ASSUME IInv, LlevarCuenta PROVE IInv'
    OBVIOUS
<1>0. TypeOK /\ InvSumas
  BY DEF IInv
<1>1. /\ pc = "llevarCuenta" /\ Contados /\ UnSoloImpar
      /\ UNCHANGED <<cantDeN, sumas, resultados, contador>>
      /\ contador \in Nat /\ cantDeN \in Words /\ pila \in 1..PilaMax
  BY <1>0 DEF LlevarCuenta, TypeOK, InvSumas
<1>2. CASE ~Cabe /\ pc' = "desbordada"
           /\ UNCHANGED <<numeroIngresado, pila, entrada, tecleados>>
  <2>1. TypeOK'
    BY <1>0, <1>1, <1>2 DEF TypeOK, sumas, resultados
  <2>2. InvSumas'
    BY <1>1, <1>2 DEF InvSumas, Contados, UnSoloImpar, Cabe, sumas, resultados
  <2> QED
    BY <2>1, <2>2 DEF IInv
<1>3. CASE /\ Cabe
           /\ Scanf(numeroIngresado, numeroIngresado', Tecleados)
           /\ pila' = PilaTrasLlamar
           /\ pc' = "revisarSiPar"
           /\ tecleados' = ConUnoMas(Signed(numeroIngresado'))
  <2>1. numeroIngresado' \in Words /\ entrada' \in {"viva", "trabada"}
    BY <1>0, <1>3, EntradasAssumption DEF Scanf, Lectura, TypeOK
  <2>2. /\ tecleados \in [impares : Int, pares : Int,
                          cuantosImpares : Nat, cuantos : Nat]
        /\ Signed(numeroIngresado') \in -(WordSize \div 2)..(WordSize \div 2) - 1
    BY <1>0, <2>1, SignedTipo DEF TypeOK
  <2>3. /\ tecleados' \in [impares : Int, pares : Int,
                           cuantosImpares : Nat, cuantos : Nat]
        /\ tecleados'.cuantos = tecleados.cuantos + 1
        /\ EsPar' =>
             /\ tecleados'.impares = tecleados.impares
             /\ tecleados'.cuantosImpares = tecleados.cuantosImpares
             /\ tecleados'.pares = tecleados.pares + Signed(numeroIngresado')
        /\ ~EsPar' =>
             /\ tecleados'.pares = tecleados.pares
             /\ tecleados'.cuantosImpares = tecleados.cuantosImpares + 1
             /\ tecleados'.impares = tecleados.impares + Signed(numeroIngresado')
    BY <1>3, <2>1, <2>2, ConUnoMasHechos DEF EsPar
  <2>4. contador < Signed(cantDeN) /\ contador < PilaMax /\ pila' = pila + 1
    <3>1. contador < WordSize \div 2
      BY <1>1, PilaHechos DEF Contados
    <3>2. Signed(contador) = contador
      BY <3>1 DEF Signed
    <3> QED
      BY <1>1, <1>3, <3>2, SignedTipo, PilaHechos
         DEF LlevarCuenta, CuentaCompleta, Contados, PilaTrasLlamar
  <2>5. TypeOK'
    BY <1>0, <1>1, <1>3, <2>1, <2>3, PilaHechos
       DEF TypeOK, sumas, resultados, Cabe, PilaTrasLlamar
  <2>6. PorSumar'
    <3>1. contador' + 1 = tecleados'.cuantos /\ pila' = contador' + 3
      BY <1>1, <2>2, <2>3, <2>4 DEF Contados
    <3>2. tecleados.pares = tecleados'.pares - Signed(numeroIngresado') \/ ~EsPar'
      BY <2>2, <2>3
    <3>3. tecleados.impares = tecleados'.impares - Signed(numeroIngresado') \/ EsPar'
      BY <2>2, <2>3
    <3> QED
      BY <1>1, <2>2, <2>3, <2>4, <3>1, <3>2, <3>3 DEF PorSumar, Contados, sumas
  <2>7. UnSoloImpar'
    BY <1>1, <2>2, <2>3, PilaHechos DEF UnSoloImpar
  <2>8. InvSumas'
    BY <1>3, <2>6, <2>7 DEF InvSumas
  <2> QED
    BY <2>5, <2>8 DEF IInv
<1> QED
  BY <1>2, <1>3 DEF LlevarCuenta

\* What is known while the last number is to be added: there is room for one
\* more in the counters.
LEMMA PorSumarHechos ==
  ASSUME TypeOK, InvSumas, pc = "revisarSiPar"
  PROVE  /\ PorSumar /\ UnSoloImpar
         /\ numeroIngresado \in Words /\ Signed(numeroIngresado) \in Int
         /\ cantDeN \in Words /\ Signed(cantDeN) \in Int
         /\ contador \in Nat /\ contador + 1 \in 1..Signed(cantDeN)
         /\ contador + 1 < WordSize /\ ToWord(contador + 1) = contador + 1
         /\ cantDeNImpares \in 0..contador
         /\ ToWord(cantDeNImpares + 1) = cantDeNImpares + 1
         /\ tecleados.impares \in Int /\ tecleados.pares \in Int
<1>1. /\ PorSumar /\ UnSoloImpar
      /\ numeroIngresado \in Words /\ cantDeN \in Words
      /\ contador \in Nat /\ cantDeNImpares \in 0..contador
      /\ contador + 3 \in 1..PilaMax
      /\ tecleados.impares \in Int /\ tecleados.pares \in Int
  BY DEF TypeOK, InvSumas, PorSumar
<1>2. Signed(numeroIngresado) \in Int /\ Signed(cantDeN) \in Int
  BY <1>1, SignedTipo
<1>3. contador + 1 \in Words /\ cantDeNImpares + 1 \in Words
  BY <1>1, PilaHechos DEF Words
<1>4. contador + 1 \in 1..Signed(cantDeN)
  BY <1>1, <1>2 DEF PorSumar
<1>5. contador + 1 < WordSize
  BY <1>1, PilaHechos
<1> QED
  BY <1>1, <1>2, <1>3, <1>4, <1>5, ToWordDeWord

LEMMA CalcularSumaDeParesIInv == IInv /\ CalcularSumaDePares => IInv'
<1> SUFFICES ASSUME IInv, CalcularSumaDePares PROVE IInv'
    OBVIOUS
<1>0. TypeOK /\ InvSumas /\ pc = "revisarSiPar" /\ EsPar
  BY DEF IInv, CalcularSumaDePares
<1>1. /\ pc' = "llevarCuenta" /\ contador' = ToWord(contador + 1)
      /\ sumaDePares' = ToWord(sumaDePares + numeroIngresado)
      /\ UNCHANGED <<numeroIngresado, cantDeN, sumaDePromedioDeImpares,
                     cantDeNImpares, promedioDeImpares,
                     decimalesPromedioDeImpares, pila, entrada, tecleados>>
  BY DEF CalcularSumaDePares, Sigue, resultados
<1>2. /\ PorSumar /\ UnSoloImpar
      /\ numeroIngresado \in Words /\ Signed(numeroIngresado) \in Int
      /\ contador \in Nat /\ contador' = contador + 1
      /\ contador' \in 1..Signed(cantDeN) /\ Signed(cantDeN) \in Int
      /\ cantDeNImpares \in 0..contador
      /\ tecleados.pares \in Int
  BY <1>0, <1>1, PorSumarHechos
<1>3. sumaDePares' = ToWord(tecleados.pares)
  <2> DEFINE antes == tecleados.pares - Signed(numeroIngresado)
  <2>1. antes \in Int /\ sumaDePares = ToWord(antes) /\ numeroIngresado \in Int
    BY <1>0, <1>2, PilaHechos DEF PorSumar, Words
  <2>2. antes + Signed(numeroIngresado) = tecleados.pares
    BY <1>2
  <2> HIDE DEF antes
  <2>3. sumaDePares' = ToWord(antes + numeroIngresado)
    BY <1>1, <2>1, ToWordSuma
  <2> QED
    BY <1>2, <2>1, <2>2, <2>3, ToWordSigned
<1>4. sumaDePares' \in Words
  BY <1>2, <1>3, ToWordTipo
<1>5. TypeOK'
  BY <1>0, <1>1, <1>2, <1>4 DEF TypeOK
<1>6. Contados'
  BY <1>0, <1>1, <1>2, <1>3 DEF Contados, PorSumar
<1>7. InvSumas'
  BY <1>1, <1>2, <1>6 DEF InvSumas, UnSoloImpar
<1> QED
  BY <1>5, <1>7 DEF IInv

LEMMA CalcularPromedioDeImparesIInv == IInv /\ CalcularPromedioDeImpares => IInv'
<1> SUFFICES ASSUME IInv, CalcularPromedioDeImpares PROVE IInv'
    OBVIOUS
<1>0. TypeOK /\ InvSumas /\ pc = "revisarSiPar" /\ ~EsPar
  BY DEF IInv, CalcularPromedioDeImpares
<1>1. /\ pc' = "llevarCuenta" /\ contador' = ToWord(contador + 1)
      /\ sumaDePromedioDeImpares' =
           ToWord(sumaDePromedioDeImpares + numeroIngresado)
      /\ cantDeNImpares' = ToWord(cantDeNImpares + 1)
      /\ UNCHANGED <<numeroIngresado, cantDeN, sumaDePares, promedioDeImpares,
                     decimalesPromedioDeImpares, pila, entrada, tecleados>>
  BY DEF CalcularPromedioDeImpares, SumaConElNumero, Sigue, resultados
<1>2. /\ PorSumar /\ UnSoloImpar
      /\ numeroIngresado \in Words /\ Signed(numeroIngresado) \in Int
      /\ contador \in Nat /\ contador' = contador + 1
      /\ contador' \in 1..Signed(cantDeN) /\ Signed(cantDeN) \in Int
      /\ cantDeNImpares \in 0..contador /\ cantDeNImpares' = cantDeNImpares + 1
      /\ tecleados.impares \in Int
  BY <1>0, <1>1, PorSumarHechos
<1>3. sumaDePromedioDeImpares' = ToWord(tecleados.impares)
  <2> DEFINE antes == tecleados.impares - Signed(numeroIngresado)
  <2>1. /\ antes \in Int /\ sumaDePromedioDeImpares = ToWord(antes)
        /\ numeroIngresado \in Int
    BY <1>0, <1>2, PilaHechos DEF PorSumar, Words
  <2>2. antes + Signed(numeroIngresado) = tecleados.impares
    BY <1>2
  <2> HIDE DEF antes
  <2>3. sumaDePromedioDeImpares' = ToWord(antes + numeroIngresado)
    BY <1>1, <2>1, ToWordSuma
  <2> QED
    BY <1>2, <2>1, <2>2, <2>3, ToWordSigned
<1>4. sumaDePromedioDeImpares' \in Words
  BY <1>2, <1>3, ToWordTipo
<1>5. TypeOK'
  BY <1>0, <1>1, <1>2, <1>4 DEF TypeOK
<1>6. Contados'
  BY <1>0, <1>1, <1>2, <1>3 DEF Contados, PorSumar
<1>7. InvSumas'
  BY <1>1, <1>2, <1>6 DEF InvSumas, UnSoloImpar
<1> QED
  BY <1>5, <1>7 DEF IInv

LEMMA TerminarIInv == IInv /\ Terminar => IInv'
<1> SUFFICES ASSUME IInv, Terminar PROVE IInv'
    OBVIOUS
<1>0. TypeOK /\ InvSumas
  BY DEF IInv
<1>1. /\ pc = "llevarCuenta" /\ CuentaCompleta /\ Contados /\ UnSoloImpar
      /\ pc' = IF Cabe THEN "fin" ELSE "desbordada"
      /\ UNCHANGED <<numeroIngresado, cantDeN, sumaDePromedioDeImpares,
                     cantDeNImpares, sumaDePares, contador, pila, entrada,
                     tecleados>>
  BY <1>0 DEF Terminar, InvSumas, sumas
<1>2. \/ SinImpares /\ UNCHANGED <<promedioDeImpares, decimalesPromedioDeImpares>>
      \/ /\ ~SinImpares
         /\ promedioDeImpares' = sumaDePromedioDeImpares \div cantDeNImpares
         /\ decimalesPromedioDeImpares' = Decimal
  BY DEF Terminar, TerminarDeCalcularPromedioDeImpares, resultados
<1>3. {promedioDeImpares', decimalesPromedioDeImpares'} \subseteq Words
  <2>1. CASE SinImpares
    BY <1>0, <1>2, <2>1 DEF TypeOK
  <2>2. CASE ~SinImpares
    <3> DEFINE resto == sumaDePromedioDeImpares % cantDeNImpares
    <3>1. /\ cantDeNImpares \in Nat \ {0}
          /\ sumaDePromedioDeImpares \in Nat
          /\ sumaDePromedioDeImpares \in Words
      BY <1>0, <2>2, PilaHechos DEF TypeOK, SinImpares, Words
    <3>2. resto * 10 \in Int
      BY <3>1, Division
    <3> HIDE DEF resto
    <3>3. ToWord(resto * 10) \in Words
      BY <3>2, ToWordTipo
    <3>4. \A w \in Words : w \div cantDeNImpares \in Words
      BY <3>1, CocienteMenor, PilaHechos DEF Words
    <3> QED
      BY <1>2, <2>2, <3>1, <3>3, <3>4 DEF Decimal, resto
  <2> QED
    BY <2>1, <2>2
<1>4. TypeOK'
  BY <1>0, <1>1, <1>3 DEF TypeOK
<1>5. Contados' /\ UnSoloImpar'
  BY <1>1 DEF Contados, UnSoloImpar
<1>6. pc' = "fin" => Mostrado'
  BY <1>1, <1>2 DEF Mostrado, CuentaCompleta, SinImpares, Decimal
<1>7. InvSumas'
  BY <1>1, <1>5, <1>6 DEF InvSumas, Cabe
<1> QED
  BY <1>4, <1>7 DEF IInv

LEMMA QuietoIInv == IInv /\ UNCHANGED vars => IInv'
<1> SUFFICES ASSUME IInv, UNCHANGED vars PROVE IInv'
    OBVIOUS
<1>1. UNCHANGED <<pc, numeroIngresado, cantDeN, sumaDePromedioDeImpares,
                  promedioDeImpares, decimalesPromedioDeImpares,
                  cantDeNImpares, sumaDePares, contador, pila, entrada,
                  tecleados>>
  BY DEF vars, sumas, resultados
<1>2. TypeOK'
  BY <1>1 DEF IInv, TypeOK
<1>3. InvSumas'
  BY <1>1 DEF IInv, InvSumas, Contados, PorSumar, UnSoloImpar, Mostrado,
              CuentaCompleta, SinImpares, Decimal, Cabe, EsPar
<1> QED
  BY <1>2, <1>3 DEF IInv

LEMMA NextIInv == IInv /\ [Next]_vars => IInv'
  BY InicializarIInv, LlevarCuentaIInv, CalcularSumaDeParesIInv,
     CalcularPromedioDeImparesIInv, TerminarIInv, QuietoIInv DEF Next, Acabado

\* IInv holds in every reachable state, for every set of numbers that can be
\* typed and every stack that is small beside a dword.
THEOREM Inductivo == Spec => []IInv
  BY InitIInv, NextIInv, PTL DEF Spec

\* Type correctness of program 4: the counters do not pass N and every number
\* leaves one dword on the stack without going past its end.
THEOREM TypeOKTheorem == Spec => []TypeOK
<1>1. IInv => TypeOK
  BY DEF IInv
<1> QED
  BY <1>1, Inductivo, PTL

\* The sums are those of the numbers entered, negative ones included, modulo
\* the size of a dword.
THEOREM SumasFielesTheorem == Spec => []SumasFieles
<1>1. ASSUME IInv PROVE SumasFieles
  <2>1. pc \in {"llevarCuenta", "fin"} => Contados
    BY <1>1 DEF IInv, InvSumas
  <2>2. ASSUME pc = "fin"
        PROVE  contador = IF Signed(cantDeN) < 0 THEN 0 ELSE Signed(cantDeN)
    <3>1. /\ contador \in Nat /\ contador < WordSize \div 2
          /\ Signed(contador) >= Signed(cantDeN)
          /\ contador = 0 \/ contador \in 1..Signed(cantDeN)
          /\ Signed(cantDeN) \in Int
      BY <1>1, <2>2, PilaHechos, SignedTipo
         DEF IInv, TypeOK, InvSumas, Contados, Mostrado, CuentaCompleta
    <3>2. Signed(contador) = contador
      BY <3>1 DEF Signed
    <3> QED
      BY <3>1, <3>2
  <2> QED
    BY <2>1, <2>2 DEF SumasFieles, Contados
<1> QED
  BY <1>1, Inductivo, PTL

\* The return addresses left behind end the process only when N is about as
\* large as the stack.
THEOREM DesbordeSoloPorMuchosTheorem == Spec => []DesbordeSoloPorMuchos
<1>1. ASSUME IInv, pc = "desbordada" PROVE Signed(cantDeN) + 6 > PilaMax
  <2>1. /\ TypeOK /\ Contados /\ ~Cabe /\ cantDeN \in Words
    BY <1>1 DEF IInv, TypeOK, InvSumas
  <2>2. Signed(cantDeN) \in Int
    BY <2>1, SignedTipo
  <2>3. contador \in Nat /\ contador + 6 > PilaMax
    BY <2>1, PilaHechos DEF TypeOK, Contados, Cabe
  <2> QED
    BY <2>1, <2>2, <2>3, PilaHechos DEF TypeOK
<1> QED
  BY <1>1, Inductivo, PTL DEF DesbordeSoloPorMuchos

\* The average shown is that of the odd numbers, with one decimal, cut.
THEOREM PromedioCorrectoTheorem == Spec => []PromedioCorrecto
<1>1. ASSUME IInv PROVE PromedioCorrecto
  <2> DEFINE n == tecleados.cuantosImpares
             s == tecleados.impares
             resto == sumaDePromedioDeImpares % cantDeNImpares
  <2> SUFFICES ASSUME pc = "fin", n >= 1
               PROVE  /\ n = 1 => /\ Signed(promedioDeImpares) = s
                                  /\ decimalesPromedioDeImpares = 0
                      /\ s \in Words =>
                           10 * promedioDeImpares + decimalesPromedioDeImpares
                             = (10 * s) \div n
    BY <1>1 DEF PromedioCorrecto, IInv, TypeOK
  <2>1. /\ s \in Int /\ n \in Nat \ {0} /\ n < PilaMax
        /\ cantDeNImpares = n /\ sumaDePromedioDeImpares = ToWord(s)
        /\ UnSoloImpar
        /\ promedioDeImpares = sumaDePromedioDeImpares \div cantDeNImpares
        /\ decimalesPromedioDeImpares = ToWord(resto * 10) \div cantDeNImpares
    BY <1>1, PilaHechos
       DEF IInv, TypeOK, InvSumas, Contados, Mostrado, SinImpares, Decimal
  <2>2. ToWord(s) \in Nat /\ Words \subseteq Nat
    BY <2>1, ToWordTipo, PilaHechos DEF Words
  <2>3. resto \in 0..n - 1
    <3>1. sumaDePromedioDeImpares \in Int /\ cantDeNImpares \in Nat \ {0}
      BY <2>1, <2>2
    <3>2. resto \in 0..cantDeNImpares - 1
      BY <3>1, Division
    <3> QED
      BY <2>1, <3>2
  <2>4. ToWord(resto * 10) = resto * 10
    <3>1. resto * 10 \in Words
      BY <2>1, <2>3, PilaHechos DEF Words
    <3> QED
      BY <3>1, ToWordDeWord
  <2> HIDE DEF n, s, resto
  <2>5. ASSUME n = 1
        PROVE  Signed(promedioDeImpares) = s /\ decimalesPromedioDeImpares = 0
    <3>1. resto = 0 /\ decimalesPromedioDeImpares = 0
      BY <2>1, <2>3, <2>4, <2>5
    <3>2. promedioDeImpares = ToWord(s)
      <4>1. \A a \in Nat : a \div 1 = a
        OBVIOUS
      <4> QED
        BY <2>1, <2>2, <2>5, <4>1
    <3>3. s \in -(WordSize \div 2)..(WordSize \div 2) - 1
      BY <2>1, <2>5 DEF UnSoloImpar, n, s
    <3> QED
      BY <3>1, <3>2, <3>3, SignedToWord
  <2>6. ASSUME s \in Words
        PROVE  10 * promedioDeImpares + decimalesPromedioDeImpares
                 = (10 * s) \div n
    <3>1. sumaDePromedioDeImpares = s
      BY <2>1, <2>6, ToWordDeWord
    <3>2. /\ promedioDeImpares = s \div n
          /\ decimalesPromedioDeImpares = (10 * (s % n)) \div n
      BY <2>1, <2>3, <2>4, <3>1 DEF resto
    <3> QED
      BY <2>1, <2>2, <2>6, <3>2, DivisionConDecimal
  <2> QED
    BY <2>5, <2>6
<1> QED
  BY <1>1, Inductivo, PTL
-----------------------------------------------------------------------------
(* The program ends *)

\* How many numbers are still to come, while the program runs.
LEMMA NumerosQueFaltanHechos ==
  ASSUME IInv
  PROVE  /\ Signed(cantDeN) \in Int /\ contador \in Nat
         /\ NumerosQueFaltan \in Nat
         /\ contador < Signed(cantDeN) =>
              NumerosQueFaltan = Signed(cantDeN) - contador
         /\ pc = "llevarCuenta" /\ ~CuentaCompleta => NumerosQueFaltan > 0
<1>0. TypeOK /\ InvSumas
  BY DEF IInv
<1>1. cantDeN \in Words /\ contador \in Nat
  BY <1>0 DEF TypeOK
<1>2. Signed(cantDeN) \in Int
  BY <1>1, SignedTipo
<1>3. /\ NumerosQueFaltan \in Nat
      /\ contador < Signed(cantDeN) =>
           NumerosQueFaltan = Signed(cantDeN) - contador
  BY <1>1, <1>2 DEF NumerosQueFaltan
<1>4. ASSUME pc = "llevarCuenta", ~CuentaCompleta
      PROVE  NumerosQueFaltan > 0
  <2>1. contador < WordSize \div 2
    BY <1>0, <1>1, <1>4, PilaHechos DEF InvSumas, Contados, TypeOK
  <2>2. contador < Signed(cantDeN)
    BY <1>1, <1>2, <1>4, <2>1, PilaHechos DEF CuentaCompleta, Signed
  <2> QED
    BY <1>1, <1>2, <1>3, <2>2
<1> QED
  BY <1>1, <1>2, <1>3, <1>4

\* A number added is one less to come.
LEMMA NumerosQueFaltanDespues ==
  ASSUME IInv, pc = "revisarSiPar", Sigue, UNCHANGED cantDeN
  PROVE  NumerosQueFaltan' = NumerosQueFaltan - 1
<1>1. /\ contador \in Nat /\ Signed(cantDeN) \in Int
      /\ contador' = contador + 1 /\ contador < Signed(cantDeN)
  BY PorSumarHechos DEF IInv, Sigue
<1>2. NumerosQueFaltan = Signed(cantDeN) - contador
  BY <1>1 DEF NumerosQueFaltan
<1>3. NumerosQueFaltan' = IF contador + 1 < Signed(cantDeN)
                          THEN Signed(cantDeN) - (contador + 1) ELSE 0
  BY <1>1 DEF NumerosQueFaltan, Signed
<1> QED
  BY <1>1, <1>2, <1>3

LEMMA InicializarPasos ==
  IInv /\ Inicializar => PasosQueFaltan' < PasosQueFaltan
<1> SUFFICES ASSUME IInv, Inicializar PROVE PasosQueFaltan' < PasosQueFaltan
    OBVIOUS
<1>1. /\ pc = "inicializar" /\ pc' = "llevarCuenta" /\ contador' = 0
      /\ cantDeN' \in Words
  BY EntradasAssumption DEF IInv, TypeOK, Inicializar, Scanf, Lectura
<1> DEFINE n == Signed(cantDeN')
<1>2. n \in Int /\ n <= (WordSize \div 2) - 1
  <2>1. n \in -(WordSize \div 2)..(WordSize \div 2) - 1
    BY <1>1, SignedTipo
  <2> QED
    BY <2>1, PilaHechos
<1>3. NumerosQueFaltan' = IF 0 < n THEN n - 0 ELSE 0
  BY <1>1 DEF NumerosQueFaltan, Signed
<1>4. PasosQueFaltan = WordSize /\ PasosQueFaltan' = 2 * NumerosQueFaltan' + 1
  BY <1>1 DEF PasosQueFaltan
<1> HIDE DEF n
<1>5. 2 * NumerosQueFaltan' + 1 < WordSize
  BY <1>2, <1>3, WordSizeAssumption
<1> QED
  BY <1>4, <1>5

LEMMA PasosDecrecen ==
  IInv /\ [Next]_vars => [PasosQueFaltan' < PasosQueFaltan]_vars
<1> SUFFICES ASSUME IInv, Next, ~Acabado
             PROVE  PasosQueFaltan' < PasosQueFaltan
    BY DEF Acabado, Next
<1> DEFINE n == NumerosQueFaltan
<1>1. n \in Nat
  BY NumerosQueFaltanHechos
<1>2. CASE LlevarCuenta
  <2>1. /\ pc = "llevarCuenta" /\ ~CuentaCompleta
        /\ UNCHANGED <<cantDeN, contador>>
        /\ pc' \in {"revisarSiPar", "desbordada"}
    BY <1>2 DEF LlevarCuenta
  <2>2. PasosQueFaltan = 2 * n + 1
    BY <2>1 DEF PasosQueFaltan
  <2>3. NumerosQueFaltan' = n
    BY <2>1 DEF NumerosQueFaltan, Signed
  <2>4. PasosQueFaltan' = 2 * n \/ PasosQueFaltan' = 0
    BY <2>1, <2>3 DEF PasosQueFaltan
  <2> QED
    BY <1>1, <2>2, <2>4
<1>3. CASE CalcularSumaDePares \/ CalcularPromedioDeImpares
  <2>1. pc = "revisarSiPar" /\ pc' = "llevarCuenta" /\ Sigue
        /\ UNCHANGED cantDeN
    BY <1>3 DEF CalcularSumaDePares, CalcularPromedioDeImpares, Sigue
  <2>2. NumerosQueFaltan' = n - 1
    BY <2>1, NumerosQueFaltanDespues
  <2>3. PasosQueFaltan = 2 * n /\ PasosQueFaltan' = 2 * (n - 1) + 1
    BY <2>1, <2>2 DEF PasosQueFaltan
  <2> QED
    BY <1>1, <2>3
<1>4. CASE Terminar
  <2>1. pc = "llevarCuenta" /\ pc' \in {"fin", "desbordada"}
    BY <1>4 DEF Terminar
  <2>2. PasosQueFaltan = 2 * n + 1 /\ PasosQueFaltan' = 0
    BY <2>1 DEF PasosQueFaltan
  <2> QED
    BY <1>1, <2>2
<1> QED
  BY <1>2, <1>3, <1>4, InicializarPasos DEF Next

LEMMA PasosNoNegativos == IInv => PasosQueFaltan >= 0
<1> SUFFICES ASSUME IInv PROVE PasosQueFaltan >= 0
    OBVIOUS
<1>1. NumerosQueFaltan \in Nat /\ WordSize \in Nat
  BY NumerosQueFaltanHechos, PilaHechos
<1> QED
  BY <1>1 DEF PasosQueFaltan

\* Program 4 takes at most 2N + 1 steps after reading N, and one if N is
\* negative: every step makes PasosQueFaltan smaller, whatever is typed, and it
\* never is negative.
THEOREM PasosAcotadosTheorem == Spec => PasosAcotados
<1> DEFINE NoNegativo == PasosQueFaltan >= 0
<1>1. IInv => NoNegativo
  BY PasosNoNegativos
<1>2. IInv /\ NoNegativo' /\ [Next]_vars =>
        [PasosQueFaltan' < PasosQueFaltan /\ PasosQueFaltan' >= 0]_vars
  BY PasosDecrecen
<1> HIDE DEF NoNegativo
<1> QED
  BY <1>1, <1>2, Inductivo, PTL DEF Spec, PasosAcotados
=============================================================================
