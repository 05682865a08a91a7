------------------------------ MODULE Bisiesto ------------------------------
(* Program 3 (3/3.asm): it asks for a year and says whether it is a leap     *)
(* year, from the remainders of unsigned divisions by 4, 100 and 400.  One   *)
(* action per division; pc names what comes next.                            *)
(*                                                                           *)
(* A definition whose comment begins with 'Fault:' is a wrong variant of the *)
(* one after it, used to show that a property fails when the code has that   *)
(* fault.                                                                    *)
EXTENDS Dword, Sequences, Consola

\* A property of 2^32, and of the smaller sizes that can stand for it.
ASSUME RestoAssumption == WordSize % 400 = 96

VARIABLES
  pc,
  numero,
  salida  \* "si" or "no" for each answer printed

vars == <<pc, numero, entrada, salida>>

Init ==
  /\ pc = "leerNumero"
  /\ numero = 0
  /\ entrada = "viva"
  /\ salida = <<>>

LeerNumero ==
  /\ pc = "leerNumero"
  /\ Scanf(numero, numero', Words)
  /\ pc' = "dividir4"
  /\ UNCHANGED salida

Dividir4 ==
  /\ pc = "dividir4"
  /\ pc' = IF numero % 4 # 0 THEN "salirMal" ELSE "dividir100"
  /\ UNCHANGED <<numero, entrada, salida>>

\* Fault: jne in place of je.
EsSigloAlReves == numero % 100 # 0

EsSiglo == numero % 100 = 0

Dividir100 ==
  /\ pc = "dividir100"
  /\ pc' = IF EsSiglo THEN "salirMal" ELSE "salirBien"
  /\ UNCHANGED <<numero, entrada, salida>>

\* Fault: the call to salirDelPrograma is missing, and salirMal follows.
SalirBienSinSalir ==
  /\ pc = "salirBien"
  /\ salida' = Append(salida, "si")
  /\ pc' = "salirMal"
  /\ UNCHANGED <<numero, entrada>>

SalirBien ==
  /\ pc = "salirBien"
  /\ salida' = Append(salida, "si")
  /\ pc' = "fin"
  /\ UNCHANGED <<numero, entrada>>

SalirMal ==
  /\ pc = "salirMal"
  /\ \/ /\ numero % 400 = 0
        /\ pc' = "salirBien"
        /\ UNCHANGED salida
     \/ /\ numero % 400 # 0
        /\ salida' = Append(salida, "no")
        /\ pc' = "fin"
  /\ UNCHANGED <<numero, entrada>>

Acabado == pc = "fin" /\ UNCHANGED vars

Next ==
  \/ LeerNumero \/ Dividir4 \/ Dividir100 \/ SalirBien \/ SalirMal \/ Acabado

Spec == Init /\ [][Next]_vars

-----------------------------------------------------------------------------
(* Correctness *)

\* Types; one answer, and only one, is given by every path (3.asm:68-99).
TypeOK ==
  /\ pc \in {"leerNumero", "dividir4", "dividir100", "salirMal", "salirBien", "fin"}
  /\ numero \in Words
  /\ entrada \in {"viva", "trabada"}
  /\ salida \in Seq({"si", "no"})
  /\ Len(salida) = IF pc = "fin" THEN 1 ELSE 0

\* The days of the Gregorian calendar from the start of year 1 to the end of
\* year a; before year 1 the count is negative.
Dias(a) == 365 * a + a \div 4 - a \div 100 + a \div 400

TieneDia366(a) == Dias(a) - Dias(a - 1) = 366

Acierta == pc = "fin" => (salida[1] = "si" <=> TieneDia366(Signed(numero)))

\* From the year 0 on, the answer is that of the calendar.  A negative year is
\* divided as the year plus 2^32, which is 96 modulo 400, so only the negative
\* years that are 0 or 4 modulo 100 can be answered wrongly (3.asm:73-99).
CalendarioGregoriano ==
  Signed(numero) >= 0 \/ Signed(numero) % 100 \notin {0, 4} => Acierta
=============================================================================
