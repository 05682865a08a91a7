------------------------------ MODULE Factores ------------------------------
(* Program 1 (1/1.asm): it asks for N and shows it as a product of primes.   *)
(* bucle_1 looks for the first divisor from 2 up, bucle_0 counts the         *)
(* divisors of what was found, and after each factor everything starts over  *)
(* with the quotient.  The texts are copied to cadena one dword per byte,    *)
(* until the dword copied is zero, and printed from there.                   *)
(*                                                                           *)
(* One action per pass of a loop; pc is its label.  A definition whose       *)
(* comment begins with 'Fault:' is a wrong variant of the one after it, used *)
(* to show that a property fails when the code has that fault.               *)
EXTENDS Dword, Sequences, FiniteSets, Consola

CONSTANT LargoCadena  \* bytes reserved for cadena (256)

\* The counters only pass the largest dword if that is a prime, and
\* 2^32 - 1 = 3 * 5 * 17 * 257 * 65537 is not.
ASSUME MayorCompuesto == \E d \in 2..WordSize - 2 : (WordSize - 1) % d = 0

\* The three texts and what is copied after them fit.
ASSUME LargoAssumption == LargoCadena \in Nat /\ LargoCadena >= 32

VARIABLES
  pc,
  numeroIngresado,
  numeroPorAnalizar,
  contador,
  contadorLocal,
  contadorDivisores,
  resultado,
  cadena,
  ebx,
  salida,   \* one tuple per call to printf: the format and what it prints
  producto  \* history: the product of the factors printed

vars == <<pc, numeroIngresado, numeroPorAnalizar, contador, contadorLocal,
          contadorDivisores, resultado, cadena, ebx, entrada, salida, producto>>

-----------------------------------------------------------------------------
(* The section .data from mnsj0 on.  Which characters a text has does not    *)
(* matter, only which text they are of: 1, 2 or 3.                           *)

Mnsj0 == [i \in 1..20 |-> 1]

\* Fault: the text loses the blank after the sign.
MnsjIgualCorto == <<2, 2>>

MnsjIgual == <<2, 2, 2>>

MnsjMultiplicacion == <<3, 3, 3>>

Mensajes == Mnsj0 \o <<0>> \o MnsjIgual \o <<0>> \o MnsjMultiplicacion \o <<0>>

\* Offsets from mnsj0.
DeIgual == Len(Mnsj0) + 1
DeMultiplicacion == DeIgual + Len(MnsjIgual) + 1

\* The eight bytes of the formats come before mnsj0; the linker fills the
\* section with zeros up to a whole number of dwords.
Relleno == (-(8 + Len(Mensajes))) % 4

\* What follows belongs to the C runtime and is not zero.
Dato(i) ==
  IF i < Len(Mensajes) THEN Mensajes[i + 1]
  ELSE IF i < Len(Mensajes) + Relleno THEN 0
  ELSE 4

\* printf("%s") stops at the first zero byte.
Cadena ==
  LET largo == CHOOSE n \in DOMAIN cadena :
                 cadena[n] = 0 /\ \A i \in 0..n - 1 : cadena[i] # 0
  IN  <<"%s">> \o [i \in 1..largo |-> cadena[i - 1]]

Numero(n) == <<"%d", n>>

\* Fault: ebx is incremented between the load and the store.
CopiaCorrida(mensaje) ==
  [i \in DOMAIN cadena |->
     IF i - ebx \in 1..4 THEN Dato(mensaje + i - 1) ELSE cadena[i]]

Copia(mensaje) ==
  [i \in DOMAIN cadena |->
     IF i - ebx \in 0..3 THEN Dato(mensaje + i) ELSE cadena[i]]

\* One pass of a copying loop; the last one prints and goes on at destino.
Copiar(mensaje, destino) ==
  /\ cadena' = Copia(mensaje)
  /\ ebx' = ebx + 1
  /\ \/ /\ \A k \in 0..3 : Dato(mensaje + ebx + k) = 0
        /\ salida' = Append(salida, Cadena')
        /\ pc' = destino
     \/ /\ \E k \in 0..3 : Dato(mensaje + ebx + k) # 0
        /\ UNCHANGED <<pc, salida>>

-----------------------------------------------------------------------------

Init ==
  /\ pc = "imprimirmnsj0"
  /\ numeroIngresado = 0
  /\ numeroPorAnalizar = 0
  /\ contador = 0
  /\ contadorLocal = 0
  /\ contadorDivisores = 0
  /\ resultado = 0
  /\ cadena = [i \in 0..LargoCadena - 1 |-> 0]
  /\ ebx = 0
  /\ entrada = "viva"
  /\ salida = <<>>
  /\ producto = 1

Imprimirmnsj0 ==
  /\ pc = "imprimirmnsj0"
  /\ Copiar(0, "leerNumero")
  /\ UNCHANGED <<numeroIngresado, numeroPorAnalizar, contador, contadorLocal,
                 contadorDivisores, resultado, entrada, producto>>

\* numero is 0 until something is read into it.
LeerNumero ==
  /\ pc = "leerNumero"
  /\ Scanf(0, numeroIngresado', Words)
  /\ numeroPorAnalizar' = numeroIngresado'
  /\ salida' = Append(salida, Numero(Signed(numeroIngresado')))
  /\ ebx' = 0
  /\ pc' = "imprimirmnsjIgual"
  /\ UNCHANGED <<contador, contadorLocal, contadorDivisores, resultado, cadena,
                 producto>>

ImprimirmnsjIgual ==
  /\ pc = "imprimirmnsjIgual"
  /\ Copiar(DeIgual, "mostrarFactoresPrimos")
  /\ UNCHANGED <<numeroIngresado, numeroPorAnalizar, contador, contadorLocal,
                 contadorDivisores, resultado, entrada, producto>>

\* Fault: the search for divisors starts at 3.
PrimerDivisorTres == 3

PrimerDivisor == 2

MostrarFactoresPrimos ==
  /\ pc = "mostrarFactoresPrimos"
  /\ contador' = PrimerDivisor
  /\ pc' = "bucle_1"
  /\ UNCHANGED <<numeroIngresado, numeroPorAnalizar, contadorLocal,
                 contadorDivisores, resultado, cadena, ebx, entrada, salida,
                 producto>>

\* Fault: jae in place of ja.
BusquedaAgotadaAntes == contador >= numeroPorAnalizar

BusquedaAgotada == contador > numeroPorAnalizar

SiguienteContador == ToWord(contador + 1)

\* A divisor found takes the place of numeroPorAnalizar, for saberSiPrimo.
\* DIV by zero ends the process.
Bucle1 ==
  /\ pc = "bucle_1"
  /\ \/ /\ BusquedaAgotada
        /\ salida' = Append(salida, Numero(1))
        /\ pc' = "fin"
        /\ UNCHANGED <<numeroPorAnalizar, contador, contadorLocal,
                       contadorDivisores, resultado>>
     \/ /\ ~BusquedaAgotada
        /\ contador = 0
        /\ pc' = "excepcion"
        /\ UNCHANGED <<numeroPorAnalizar, contador, contadorLocal,
                       contadorDivisores, resultado, salida>>
     \/ /\ ~BusquedaAgotada
        /\ contador # 0
        /\ resultado' = numeroPorAnalizar \div contador
        /\ \/ /\ numeroPorAnalizar % contador = 0
              /\ numeroPorAnalizar' = contador
              /\ contadorLocal' = 1
              /\ contadorDivisores' = 0
              /\ pc' = "bucle_0"
              /\ UNCHANGED contador
           \/ /\ numeroPorAnalizar % contador # 0
              /\ contador' = SiguienteContador
              /\ UNCHANGED <<pc, numeroPorAnalizar, contadorLocal,
                             contadorDivisores>>
        /\ UNCHANGED salida
  /\ UNCHANGED <<numeroIngresado, cadena, ebx, entrada, producto>>

\* saberSiPrimo, up to its return.
Bucle0 ==
  /\ pc = "bucle_0"
  /\ contadorLocal <= numeroPorAnalizar
  /\ \/ /\ contadorLocal = 0
        /\ pc' = "excepcion"
        /\ UNCHANGED <<contadorLocal, contadorDivisores>>
     \/ /\ contadorLocal # 0
        /\ contadorDivisores' =
             IF numeroPorAnalizar % contadorLocal = 0
             THEN contadorDivisores + 1 ELSE contadorDivisores
        /\ contadorLocal' = ToWord(contadorLocal + 1)
        /\ UNCHANGED pc
  /\ UNCHANGED <<numeroIngresado, numeroPorAnalizar, contador, resultado,
                 cadena, ebx, entrada, salida, producto>>

TerminaSaberSiPrimo ==
  /\ pc = "bucle_0"
  /\ contadorLocal > numeroPorAnalizar
  /\ \/ /\ contadorDivisores = 2
        /\ salida' = Append(salida, Numero(Signed(contador)))
        /\ producto' = producto * contador
        /\ ebx' = 0
        /\ pc' = "imprimirmnsjMultiplicacion"
        /\ UNCHANGED contador
     \/ /\ contadorDivisores # 2
        /\ contador' = SiguienteContador
        /\ pc' = "bucle_1"
        /\ UNCHANGED <<salida, producto, ebx>>
  /\ UNCHANGED <<numeroIngresado, numeroPorAnalizar, contadorLocal,
                 contadorDivisores, resultado, cadena, entrada>>

ImprimirmnsjMultiplicacion ==
  /\ pc = "imprimirmnsjMultiplicacion"
  /\ Copiar(DeMultiplicacion, "siguienteFactor")
  /\ UNCHANGED <<numeroIngresado, numeroPorAnalizar, contador, contadorLocal,
                 contadorDivisores, resultado, entrada, producto>>

\* Fault: the quotient is not put back.
CocienteSinReponer == numeroPorAnalizar

Cociente == resultado

SiguienteFactor ==
  /\ pc = "siguienteFactor"
  /\ numeroPorAnalizar' = Cociente
  /\ pc' = "mostrarFactoresPrimos"
  /\ UNCHANGED <<numeroIngresado, contador, contadorLocal, contadorDivisores,
                 resultado, cadena, ebx, entrada, salida, producto>>

Acabado == pc \in {"fin", "excepcion"} /\ UNCHANGED vars

Next ==
  \/ Imprimirmnsj0 \/ LeerNumero \/ ImprimirmnsjIgual
  \/ MostrarFactoresPrimos \/ Bucle1 \/ Bucle0 \/ TerminaSaberSiPrimo
  \/ ImprimirmnsjMultiplicacion \/ SiguienteFactor \/ Acabado

Spec == Init /\ [][Next]_vars

-----------------------------------------------------------------------------
(* Correctness *)

\* Types.  Whatever the divisors searched, no number with more than two of
\* them is ever counted to its end (1.asm:123-159).
TypeOK ==
  /\ pc \in {"imprimirmnsj0", "leerNumero", "imprimirmnsjIgual",
             "mostrarFactoresPrimos", "bucle_1", "bucle_0",
             "imprimirmnsjMultiplicacion", "siguienteFactor", "fin", "excepcion"}
  /\ {numeroIngresado, numeroPorAnalizar, contador, contadorLocal, resultado}
       \subseteq Words
  /\ contadorDivisores \in 0..2
  /\ cadena \in [0..LargoCadena - 1 -> 0..4]
  /\ ebx \in Nat
  /\ entrada \in {"viva", "trabada"}
  /\ producto \in Nat

\* The source reads and the copy writes whole dwords past the end of each
\* text, up to four zero bytes: both stay inside the section and the buffer,
\* thanks only to the three bytes of padding (1.asm:99-121, 229-235).
DentroDeLaSeccion ==
  /\ pc = "imprimirmnsj0" => ebx + 3 < Len(Mensajes) + Relleno
  /\ pc = "imprimirmnsjIgual" => DeIgual + ebx + 3 < Len(Mensajes) + Relleno
  /\ pc = "imprimirmnsjMultiplicacion" =>
       DeMultiplicacion + ebx + 3 < Len(Mensajes) + Relleno
  /\ pc \in {"imprimirmnsj0", "imprimirmnsjIgual", "imprimirmnsjMultiplicacion"}
       => ebx + 3 < LargoCadena

\* What is printed reads N = p x p x ... x 1, whatever cadena held before.
TextoFiel ==
  \A i \in 1..Len(salida) :
    /\ i = 1 => salida[i] = <<"%s">> \o Mnsj0
    /\ i = 3 => salida[i] = <<"%s">> \o MnsjIgual
    /\ i > 3 /\ i % 2 = 1 => salida[i] = <<"%s">> \o MnsjMultiplicacion
    /\ i % 2 = 0 => salida[i][1] = "%d"

\* The positions of the factors in what is printed.
Factores ==
  {i \in 4..Len(salida) : i % 2 = 0 /\ ~(pc = "fin" /\ i = Len(salida))}

Primo(n) == n > 1 /\ \A d \in 2..n - 1 : n % d # 0

\* No DIV faults.  The factors printed are primes, in order, and with what is
\* still to be divided their product is N; in the end nothing but them is left
\* (1.asm:123-217).
FactorizacionCorrecta ==
  /\ pc # "excepcion"
  /\ \A i \in Factores : Primo(salida[i][2] % WordSize)
  /\ \A i \in Factores :
       i + 2 \in Factores =>
         salida[i][2] % WordSize <= salida[i + 2][2] % WordSize
  /\ pc = "mostrarFactoresPrimos" =>
       producto * numeroPorAnalizar = numeroIngresado
  /\ pc = "fin" => producto = numeroIngresado \/ numeroIngresado = 0

\* saberSiPrimo never answers no: the first divisor found is a prime.  The
\* branch taken otherwise would go on with numeroPorAnalizar overwritten
\* (1.asm:183-188).
PrimerDivisorEsPrimo ==
  pc = "bucle_0" /\ contadorLocal > numeroPorAnalizar => contadorDivisores = 2

\* The number that has still to be divided is in numeroPorAnalizar only while
\* the search goes on: for saberSiPrimo the divisor takes its place, and until
\* the next search only the quotient is left of it.
Restante ==
  IF pc = "bucle_0" THEN resultado * contador
  ELSE IF pc \in {"imprimirmnsjMultiplicacion", "siguienteFactor"} THEN resultado
  ELSE numeroPorAnalizar

\* What the user sees the program doing.
Fase ==
  IF pc \in {"imprimirmnsj0", "leerNumero"} THEN "espera"
  ELSE IF pc = "fin" THEN "listo" ELSE "factoriza"

Abstracto == INSTANCE FactoresAbstracto WITH
  Numeros <- Words,
  fase <- Fase,
  restante <- Restante,
  factores <- [i \in 1..Cardinality(Factores) |->
                 salida[2 * i + 2][2] % WordSize]

\* The promise of 1.asm:1: each factor shown is the least of what is left, and
\* nothing of the number is lost while its variable holds something else; in
\* the end nothing is left (1.asm:161-210).
ImplementaAbstracto == Abstracto!Spec

\* What can still be done before the next factor is found, or before the
\* program ends, apart from what the number that is left allows for.
PasosDeEtiqueta ==
  CASE pc = "imprimirmnsj0" -> 10 * WordSize + 31 - ebx
    [] pc = "leerNumero" -> 10 * WordSize + 2
    [] pc = "imprimirmnsjIgual" -> 11 - ebx
    [] pc = "mostrarFactoresPrimos" -> 2
    [] pc = "bucle_1" -> IF BusquedaAgotada THEN 1 ELSE 3 - contador
    [] pc = "bucle_0" -> 3 - contador - contadorLocal
    [] pc = "imprimirmnsjMultiplicacion" -> 7 - ebx
    [] pc = "siguienteFactor" -> 3
    [] OTHER -> 0

PasosQueFaltan == 10 * Restante + PasosDeEtiqueta

\* However many factors there are and although each search starts again from
\* 2, every step brings the end nearer: at most 10N + 11 steps follow the
\* reading of N, because the quotients shrink by as much as the two searches
\* cost, and no counter goes past what it is compared with (1.asm:123-217).
PasosAcotados ==
  [][PasosQueFaltan' < PasosQueFaltan /\ PasosQueFaltan' >= 0]_vars
=============================================================================
