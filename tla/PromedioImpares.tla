-------------------------- MODULE PromedioImpares --------------------------
(* Program 4 (4/4.asm): it asks for N and for N numbers, and shows the       *)
(* average of the odd ones, with one decimal, and the sum of the even ones.  *)
(*                                                                           *)
(* One action per pass through llevarCuenta, revisarSiPar and terminar; pc   *)
(* is the label.  revisarSiPar is CALLed and left by a JMP: every number     *)
(* leaves a return address on the stack, which is finite.                    *)
(*                                                                           *)
(* A definition whose comment begins with 'Fault:' is a wrong variant of the *)
(* one after it, used to show that a property fails when the code has that   *)
(* fault.                                                                    *)
EXTENDS Dword, Consola

CONSTANTS
  Cantidades,  \* dwords that can be typed for N
  Tecleados,   \* dwords that can be typed for a number
  PilaMax      \* dwords of stack the program has for its own use

ASSUME EntradasAssumption == Cantidades \subseteq Words /\ Tecleados \subseteq Words

\* The stack is a small part of the numbers that a dword can hold.
ASSUME PilaAssumption == PilaMax \in Nat /\ PilaMax > 6 /\ 10 * PilaMax < WordSize

VARIABLES
  pc,
  numeroIngresado,
  cantDeN,
  sumaDePromedioDeImpares,
  promedioDeImpares,
  decimalesPromedioDeImpares,
  cantDeNImpares,
  sumaDePares,
  contador,
  pila,       \* how many dwords are on the stack
  tecleados   \* history: what was taken as entered so far, as plain integers:
              \* the sums of the odd and even numbers, how many odd, how many

sumas == <<sumaDePromedioDeImpares, cantDeNImpares, sumaDePares>>
resultados == <<promedioDeImpares, decimalesPromedioDeImpares>>

vars == <<pc, numeroIngresado, cantDeN, sumas, resultados, contador, pila,
          entrada, tecleados>>

ConUnoMas(n) ==
  LET impar == n % 2
  IN  [impares |-> tecleados.impares + impar * n,
       pares |-> tecleados.pares + (1 - impar) * n,
       cuantosImpares |-> tecleados.cuantosImpares + impar,
       cuantos |-> tecleados.cuantos + 1]

Init ==
  /\ pc = "inicializar"
  /\ numeroIngresado = 0
  /\ cantDeN = 0
  /\ sumaDePromedioDeImpares = 0
  /\ promedioDeImpares = 0
  /\ decimalesPromedioDeImpares = 0
  /\ cantDeNImpares = 0
  /\ sumaDePares = 0
  /\ contador = 0
  /\ pila = 1
  /\ entrada = "viva"
  /\ tecleados = [impares |-> 0, pares |-> 0, cuantosImpares |-> 0, cuantos |-> 0]

\* And the call to llevarCuenta, that does not return.
Inicializar ==
  /\ pc = "inicializar"
  /\ Scanf(cantDeN, cantDeN', Cantidades)
  /\ promedioDeImpares' = 0
  /\ decimalesPromedioDeImpares' = 0
  /\ sumaDePromedioDeImpares' = 0
  /\ cantDeNImpares' = 0
  /\ sumaDePares' = 0
  /\ contador' = 0
  /\ pila' = pila + 1
  /\ pc' = "llevarCuenta"
  /\ UNCHANGED <<numeroIngresado, tecleados>>

\* Fault: jg in place of jge.
CuentaCompletaTarde == Signed(contador) > Signed(cantDeN)

CuentaCompleta == Signed(contador) >= Signed(cantDeN)

\* A routine that reads or prints needs four dwords until it returns: its own
\* return address, two arguments and the return address of the library.
Cabe == pila + 4 <= PilaMax

\* Fault: llevarCuenta, which does not return, calls scanf itself and leaves the
\* two arguments on the stack.
PilaSinLimpiar == pila + 3

\* leerNumeroIngresado cleans up; the return address of revisarSiPar stays.
PilaTrasLlamar == pila + 1

LlevarCuenta ==
  /\ pc = "llevarCuenta"
  /\ ~CuentaCompleta
  /\ \/ /\ Cabe
        /\ Scanf(numeroIngresado, numeroIngresado', Tecleados)
        /\ pila' = PilaTrasLlamar
        /\ pc' = "revisarSiPar"
        /\ tecleados' = ConUnoMas(Signed(numeroIngresado'))
     \/ /\ ~Cabe
        /\ pc' = "desbordada"
        /\ UNCHANGED <<numeroIngresado, pila, entrada, tecleados>>
  /\ UNCHANGED <<cantDeN, sumas, resultados, contador>>

Sigue == pc' = "llevarCuenta" /\ contador' = ToWord(contador + 1)

EsPar == numeroIngresado % 2 = 0

CalcularSumaDePares ==
  /\ pc = "revisarSiPar"
  /\ EsPar
  /\ sumaDePares' = ToWord(sumaDePares + numeroIngresado)
  /\ Sigue
  /\ UNCHANGED <<numeroIngresado, cantDeN, sumaDePromedioDeImpares,
                 cantDeNImpares, resultados, pila, entrada, tecleados>>

\* Fault: the number is not added but stored.
SumaOlvidada == numeroIngresado

SumaConElNumero == ToWord(sumaDePromedioDeImpares + numeroIngresado)

CalcularPromedioDeImpares ==
  /\ pc = "revisarSiPar"
  /\ ~EsPar
  /\ sumaDePromedioDeImpares' = SumaConElNumero
  /\ cantDeNImpares' = ToWord(cantDeNImpares + 1)
  /\ Sigue
  /\ UNCHANGED <<numeroIngresado, cantDeN, sumaDePares, resultados, pila,
                 entrada, tecleados>>

\* Fault: the remainder is divided without being multiplied by ten.
DecimalSinDiez ==
  (sumaDePromedioDeImpares % cantDeNImpares) \div cantDeNImpares

Decimal ==
  ToWord((sumaDePromedioDeImpares % cantDeNImpares) * 10) \div cantDeNImpares

SinImpares == cantDeNImpares = 0

TerminarDeCalcularPromedioDeImpares ==
  \/ /\ SinImpares
     /\ UNCHANGED resultados
  \/ /\ ~SinImpares
     /\ promedioDeImpares' = sumaDePromedioDeImpares \div cantDeNImpares
     /\ decimalesPromedioDeImpares' = Decimal

\* The average is computed before the first thing is printed.
Terminar ==
  /\ pc = "llevarCuenta"
  /\ CuentaCompleta
  /\ TerminarDeCalcularPromedioDeImpares
  /\ pc' = IF Cabe THEN "fin" ELSE "desbordada"
  /\ UNCHANGED <<numeroIngresado, cantDeN, sumas, contador, pila, entrada,
                 tecleados>>

Acabado == pc \in {"fin", "desbordada"} /\ UNCHANGED vars

Next ==
  \/ Inicializar \/ LlevarCuenta \/ CalcularSumaDePares
  \/ CalcularPromedioDeImpares \/ Terminar \/ Acabado

Spec == Init /\ [][Next]_vars

-----------------------------------------------------------------------------
(* Correctness *)

\* Types.  The counters never pass N, and every number read has left one
\* dword on the stack (4.asm:158-201).
TypeOK ==
  /\ pc \in {"inicializar", "llevarCuenta", "revisarSiPar", "fin", "desbordada"}
  /\ {numeroIngresado, cantDeN, sumaDePromedioDeImpares, promedioDeImpares,
      decimalesPromedioDeImpares, sumaDePares} \subseteq Words
  /\ contador = 0 \/ contador \in 1..Signed(cantDeN)
  /\ cantDeNImpares \in 0..contador
  /\ pila \in 1..PilaMax
  /\ entrada \in {"viva", "trabada"}
  /\ tecleados \in [impares : Int, pares : Int, cuantosImpares : Nat, cuantos : Nat]

\* The sums are those of the numbers entered, negative ones included, modulo
\* the size of a dword, and the odd ones are counted (4.asm:175-201).
SumasFieles ==
  pc \in {"llevarCuenta", "fin"} =>
    /\ sumaDePares = ToWord(tecleados.pares)
    /\ sumaDePromedioDeImpares = ToWord(tecleados.impares)
    /\ cantDeNImpares = tecleados.cuantosImpares
    /\ contador = tecleados.cuantos
    /\ pc = "fin" => contador = IF Signed(cantDeN) < 0 THEN 0 ELSE Signed(cantDeN)

\* The average shown is that of the odd numbers, with one decimal, cut: with
\* one odd number whatever it is, with more as long as their sum is not
\* negative and fits in a dword (4.asm:203-226).
PromedioCorrecto ==
  LET n == tecleados.cuantosImpares
      s == tecleados.impares
  IN  /\ pc = "fin" /\ n = 1 =>
           Signed(promedioDeImpares) = s /\ decimalesPromedioDeImpares = 0
      /\ pc = "fin" /\ n > 1 /\ s \in Words =>
           10 * promedioDeImpares + decimalesPromedioDeImpares = (10 * s) \div n

\* The return addresses left behind can only end the process when N is about
\* as large as the stack.
DesbordeSoloPorMuchos == pc = "desbordada" => Signed(cantDeN) + 6 > PilaMax

NumerosQueFaltan ==
  IF contador < Signed(cantDeN) THEN Signed(cantDeN) - contador ELSE 0

\* Reading N is worth as many steps as N can ask for.
PasosQueFaltan ==
  CASE pc = "inicializar" -> WordSize
    [] pc = "llevarCuenta" -> 2 * NumerosQueFaltan + 1
    [] pc = "revisarSiPar" -> 2 * NumerosQueFaltan
    [] OTHER -> 0

\* The loop has no other bound than a signed comparison of a counter that
\* grows: it never passes N, a negative N included, and the program takes at
\* most 2N + 1 steps after reading it (4.asm:158-201).
PasosAcotados ==
  [][PasosQueFaltan' < PasosQueFaltan /\ PasosQueFaltan' >= 0]_vars

\* 4.asm:1 promises the average of the odd numbers entered, not only of
\* positive ones: the average shown times their count must be within one
\* count of their sum.
PromedioDeNegativos ==
  LET error == tecleados.impares - Signed(promedioDeImpares) * cantDeNImpares
  IN  pc = "fin" /\ cantDeNImpares > 0 =>
        -cantDeNImpares < error /\ error < cantDeNImpares
=============================================================================
