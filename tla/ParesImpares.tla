---------------------------- MODULE ParesImpares ----------------------------
(* Program 2 (2/2.asm): it reads a line and shows it, then the characters at *)
(* the even offsets, then those at the odd ones.  Each round ends at the     *)
(* first zero byte it meets; since it goes by twos, that may be the byte     *)
(* after the terminator.                                                     *)
(*                                                                           *)
(* One action per pass of the loop.  What a character is does not matter, so *)
(* the character typed in position i is the number i; 0 is the zero byte.    *)
(*                                                                           *)
(* A definition whose comment begins with 'Fault:' is a wrong variant of the *)
(* one after it, used to show that a property fails when the code has that   *)
(* fault.                                                                    *)
EXTENDS Integers, Sequences

CONSTANT LargoCadena  \* bytes reserved for cadena (256)

ASSUME LargoAssumption == LargoCadena \in Nat /\ LargoCadena > 1 /\ LargoCadena % 2 = 0

VARIABLES
  pc,
  cadena,
  caracter,
  edi,
  salida  \* the characters printed after the line and ': '

vars == <<pc, cadena, caracter, edi, salida>>

\* caracter and its three bytes of padding follow cadena in memory.
Byte(i) ==
  IF i < LargoCadena THEN cadena[i]
  ELSE IF i = LargoCadena THEN caracter
  ELSE 0

Init ==
  /\ pc = "leerCadena"
  /\ cadena = [i \in 0..LargoCadena - 1 |-> 0]
  /\ caracter = 0
  /\ edi = 0
  /\ salida = <<>>

\* gets stores the n characters of a line that fits and a zero byte; at end of
\* file it stores nothing, and cadena stays empty.
LeerCadena ==
  /\ pc = "leerCadena"
  /\ \E n \in 0..LargoCadena - 1 :
       cadena' = [i \in DOMAIN cadena |-> IF i < n THEN i + 1 ELSE cadena[i]]
  /\ edi' = 0
  /\ pc' = "for"
  /\ UNCHANGED <<caracter, salida>>

\* The register gets the dword at edi, the variable its first byte.  Every round
\* prints its zero byte too.
MostrarCaracter ==
  /\ caracter' = Byte(edi)
  /\ salida' = Append(salida, Byte(edi))

\* Fault: the offset advances by the width of what is loaded.
PasoDoble == 4

Paso == 2

\* Fault: the character is compared before it is stored, the one before it.
FinDeCadenaTarde == caracter = 0

FinDeCadena == Byte(edi) = 0

SiguienteIteracion ==
  /\ pc = "for"
  /\ ~FinDeCadena
  /\ MostrarCaracter
  /\ edi' = edi + Paso
  /\ UNCHANGED <<pc, cadena>>

\* Fault: the second round starts at 0 again.
InicioRepetido == 0

InicioImpares == 1

\* The parity of the offset at which the zero byte was met tells the rounds
\* apart.
SiguienteCadena ==
  /\ pc = "for"
  /\ FinDeCadena
  /\ MostrarCaracter
  /\ \/ /\ edi % 2 = 0
        /\ edi' = InicioImpares
        /\ UNCHANGED pc
     \/ /\ edi % 2 # 0
        /\ pc' = "fin"
        /\ UNCHANGED edi
  /\ UNCHANGED cadena

Acabado == pc = "fin" /\ UNCHANGED vars

Next == LeerCadena \/ SiguienteIteracion \/ SiguienteCadena \/ Acabado

Spec == Init /\ [][Next]_vars

-----------------------------------------------------------------------------
(* Correctness *)

Largo == CHOOSE n \in DOMAIN cadena : cadena[n] = 0 /\ \A i \in 0..n - 1 : cadena[i] # 0

\* Types; the byte that a round uses is one of cadena, caracter or the first two
\* of its padding, although the rounds skip the terminator (2.asm:98-125).
TypeOK ==
  /\ pc \in {"leerCadena", "for", "fin"}
  /\ cadena \in [0..LargoCadena - 1 -> 0..LargoCadena - 1]
  /\ caracter \in 0..LargoCadena - 1
  /\ edi \in 0..LargoCadena + 2
  /\ salida \in Seq(0..LargoCadena - 1)

\* The offset of the last byte that mov eax, dword[edi + cadena] loads.
UltimoByteCargado == edi + 3

\* Only the first byte of the dword is used, but the four are loaded: nothing
\* but a line that just fits takes the load out of the variables of the
\* program, past the three bytes of padding, and then by two bytes and only at
\* the end of the first round (2.asm:26-28, 99).
CargaAcotada ==
  pc = "for" /\ UltimoByteCargado > LargoCadena + 3 =>
    /\ Largo = LargoCadena - 1
    /\ UltimoByteCargado = LargoCadena + 5
    /\ Len(salida) = LargoCadena \div 2 + 1

\* The k-th character printed, zero bytes included, of a line of length n: the
\* positions 1, 3, 5... and a zero byte, then 2, 4, 6... and a zero byte.
Esperado(n, k) ==
  LET primera == (n + 1) \div 2
  IN  IF k <= primera THEN 2 * k - 1
      ELSE IF k = primera + 1 \/ k = n + 2 THEN 0
      ELSE 2 * (k - primera - 1)

\* All of that and no more is printed, for a line with two bytes to spare, and
\* printed whole when the program ends.
CumpleCon(n) ==
  /\ Len(salida) <= n + 2
  /\ \A k \in 1..Len(salida) : salida[k] = Esperado(n, k)
  /\ pc = "fin" => Len(salida) = n + 2

\* A line that just fits in the 256 bytes of 2.asm:24 makes the first round read
\* caracter itself, which repeats the last character of that round, and nothing
\* worse.  2.asm:1 promises the two substrings of every line, without exception.
RepiteSoloUno ==
  /\ Len(salida) <= Largo + 3
  /\ \A k \in 1..Len(salida) :
       salida[k] = IF k <= LargoCadena \div 2 THEN 2 * k - 1
                   ELSE IF k = LargoCadena \div 2 + 1 THEN Largo
                   ELSE Esperado(Largo, k - 1)
  /\ pc = "fin" => Len(salida) = Largo + 3

\* The rounds never get out of step with the line, whether its length is even,
\* so that the first one ends at the terminator, or odd, so that it ends at the
\* byte after it, which may lie outside cadena (2.asm:98-125).
Subcadenas ==
  IF Largo < LargoCadena - 1 THEN CumpleCon(Largo) ELSE RepiteSoloUno
=============================================================================
