------------------------ MODULE CaracteresSinRepetir ------------------------
(* Program 5, second version (5/5alt.asm): it reads one line per turn, keeps *)
(* the first characters that are not there yet, in the order in which they   *)
(* come, and prints them.                                                    *)
(*                                                                           *)
(* One action per pass of a loop; pc is its label.  A definition whose       *)
(* comment begins with 'Fault:' is a wrong variant of the one after it, used *)
(* to show that a property fails when the code has that fault.               *)
EXTENDS Integers, Sequences, Consola

CONSTANTS
  Letras,     \* bytes that can be the first character of a line
  Limite,     \* turns (5)
  LargoArray  \* bytes reserved for arrayCaracteres (75)

ASSUME LetrasAssumption == Letras \subseteq 1..255
ASSUME LargoAssumption == Limite \in Nat /\ LargoArray \in Nat /\ Limite < LargoArray

VARIABLES
  pc,
  indice,
  indice2,
  contador,
  caracter,
  arrayCaracteres,
  cadena,   \* first byte of the line buffer
  salida,
  orden     \* history: the distinct characters taken, in order of appearance

vars == <<pc, indice, indice2, contador, caracter, arrayCaracteres, cadena,
          entrada, salida, orden>>

Init ==
  /\ pc = "recorridoDeCien"
  /\ indice = 0
  /\ indice2 = 0
  /\ contador = 0
  /\ caracter = 0
  /\ arrayCaracteres = [i \in 0..LargoArray - 1 |-> 0]
  /\ cadena = 0
  /\ entrada = "viva"
  /\ salida = <<>>
  /\ orden = <<>>

LeerCadena == Gets(cadena, cadena', Letras)

\* printf("%s") stops at the first zero byte.
MostrarArrayCaracteres ==
  LET largo == CHOOSE n \in DOMAIN arrayCaracteres :
        arrayCaracteres[n] = 0 /\ \A i \in 0..n - 1 : arrayCaracteres[i] # 0
  IN  salida' = [i \in 1..largo |-> arrayCaracteres[i - 1]]

\* Fault: reiniciarIndice2 is not called.
Indice2SinReiniciar == indice2

Indice2Inicial == 0

RecorridoDeCien ==
  /\ pc = "recorridoDeCien"
  /\ indice = Limite
  /\ MostrarArrayCaracteres
  /\ pc' = "fin"
  /\ UNCHANGED <<indice, indice2, contador, caracter, arrayCaracteres, cadena,
                 entrada, orden>>

Sigue ==
  /\ pc = "recorridoDeCien"
  /\ indice # Limite
  /\ LeerCadena
  /\ caracter' = cadena'
  /\ indice2' = Indice2Inicial
  /\ orden' = IF cadena' = 0 \/ \E i \in DOMAIN orden : orden[i] = cadena'
              THEN orden ELSE Append(orden, cadena')
  /\ pc' = "recorridoRepetidos"
  /\ UNCHANGED <<indice, contador, arrayCaracteres, salida>>

\* Fault: the search goes one byte too far.
RecorridoAgotadoTarde == indice2 > indice + 1

RecorridoAgotado == indice2 > indice

TurnoContado == indice + 1

NoGuardar ==
  /\ pc = "recorridoRepetidos"
  /\ ~RecorridoAgotado
  /\ arrayCaracteres[indice2] = caracter
  /\ indice' = TurnoContado
  /\ pc' = "recorridoDeCien"
  /\ UNCHANGED <<indice2, contador, caracter, arrayCaracteres, cadena, entrada,
                 salida, orden>>

RecorridoRepetidos ==
  /\ pc = "recorridoRepetidos"
  /\ ~RecorridoAgotado
  /\ arrayCaracteres[indice2] # caracter
  /\ indice2' = indice2 + 1
  /\ UNCHANGED <<pc, indice, contador, caracter, arrayCaracteres, cadena,
                 entrada, salida, orden>>

\* And on into noGuardar.
Guardar ==
  /\ pc = "recorridoRepetidos"
  /\ RecorridoAgotado
  /\ arrayCaracteres' = [arrayCaracteres EXCEPT ![contador] = caracter]
  /\ contador' = contador + 1
  /\ indice' = indice + 1
  /\ pc' = "recorridoDeCien"
  /\ UNCHANGED <<indice2, caracter, cadena, entrada, salida, orden>>

Acabado == pc = "fin" /\ UNCHANGED vars

Next ==
  \/ RecorridoDeCien \/ Sigue \/ NoGuardar \/ RecorridoRepetidos \/ Guardar
  \/ Acabado

Spec == Init /\ [][Next]_vars

-----------------------------------------------------------------------------
(* Correctness *)

\* Types; the search never looks beyond the bytes that the turns so far can
\* have filled and the zero after them (5alt.asm:150-164).
TypeOK ==
  /\ pc \in {"recorridoDeCien", "recorridoRepetidos", "fin"}
  /\ indice \in 0..Limite
  /\ indice2 \in 0..indice + 1
  /\ contador \in 0..indice
  /\ caracter \in Letras \cup {0}
  /\ arrayCaracteres \in [0..LargoArray - 1 -> Letras \cup {0}]
  /\ cadena \in Letras \cup {0}
  /\ entrada \in {"viva", "trabada"}
  /\ salida \in Seq(Letras)
  /\ orden \in Seq(Letras)

\* Between two turns the array holds the distinct characters taken so far, in
\* order of appearance, and zeros: an empty line finds the zero after them, so
\* it is not stored, but its turn is spent (5alt.asm:150-184).  What is in the
\* line buffer is one of them, so that a read that fails, after which it is
\* taken again, adds no character that was not typed (5alt.asm:65-81).  This is
\* what the code does; that it is not what it promises is OrdenadosAlFin.
OrdenDeAparicion ==
  pc \in {"recorridoDeCien", "fin"} =>
    /\ contador = Len(orden)
    /\ cadena = 0 \/ \E i \in DOMAIN orden : orden[i] = cadena
    /\ \A i \in DOMAIN arrayCaracteres :
         arrayCaracteres[i] = IF i < contador THEN orden[i + 1] ELSE 0
    /\ pc = "fin" => salida = orden

\* 5alt.asm:1 promises the characters sorted ('ordenados') and without
\* repetitions.
OrdenadosAlFin ==
  pc = "fin" => \A i, j \in DOMAIN salida : i < j => salida[i] < salida[j]

\* A turn has at most Limite + 2 steps.
PasosQueFaltan ==
  CASE pc = "recorridoDeCien" -> (Limite - indice) * (Limite + 2) + 1
    [] pc = "recorridoRepetidos" -> (Limite - indice) * (Limite + 2) - indice2
    [] pc = "fin" -> 0

\* The search is left in time in every turn, by a byte that is equal or by its
\* end, and whatever it finds the turn is spent: no more than
\* Limite * (Limite + 2) + 1 steps in all (5alt.asm:137-184).
PasosAcotados ==
  [][PasosQueFaltan' < PasosQueFaltan /\ PasosQueFaltan' >= 0]_vars
=============================================================================
