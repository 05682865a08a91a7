---------------------------- MODULE MatrizGirada ----------------------------
(* Program 7 (7/7.asm): it asks for the number of rows and of columns, reads *)
(* the matrix and shows it turned 90 degrees counterclockwise: the columns   *)
(* from the last to the first, each as a row.  As in program 8 an element is *)
(* read as a dword, stored as a byte, and shown by overwriting the low byte  *)
(* of the last dword.  One action per pass of each loop; pc is its label.    *)
(*                                                                           *)
(* A definition whose comment begins with 'Fault:' is a wrong variant of the *)
(* one after it, used to show that a property fails when the code has that   *)
(* fault.                                                                    *)
EXTENDS Integers, Sequences, Consola

CONSTANTS
  Base,         \* values of a byte (256)
  Valores,      \* the dwords that can be typed as elements
  Lados,        \* the integers that can be typed as a dimension
  MaxLado,      \* the largest dimension accepted (10)
  LargoMatriz   \* bytes reserved for matriz (400)

ASSUME BaseAssumption == Base \in Nat \ {0}
ASSUME ValoresAssumption == Valores \subseteq Nat
ASSUME LadosAssumption == Lados \subseteq Int
ASSUME MaxLadoAssumption == MaxLado \in Nat /\ MaxLado >= 2
ASSUME LargoAssumption == LargoMatriz \in Nat /\ MaxLado * MaxLado <= LargoMatriz

VARIABLES
  pc,
  cantidadFilas,
  cantidadColumnas,
  contadorFilas,
  contadorColumnas,
  valorIngresado,
  matriz,      \* the bytes of the array
  salida,      \* numbers and line feeds printed
  cargados     \* history: the dwords stored, in order, before truncation

dimensiones == <<cantidadFilas, cantidadColumnas>>
contadores == <<contadorFilas, contadorColumnas>>

vars == <<pc, dimensiones, contadores, valorIngresado, matriz, entrada, salida,
          cargados>>

\* A line feed in salida; no number is negative, dwords being unsigned here.
Salto == -1

Bajo(v) == v % Base            \* the low byte of a dword, AL of EAX
Alto(v) == v - (v % Base)      \* what is left of it

-----------------------------------------------------------------------------

\* Fault: the dimensions start with values of their own.
InitConTamanios ==
  /\ pc = "corroborarFilas"
  /\ cantidadFilas = 2 /\ cantidadColumnas = 2
  /\ contadorFilas = 0 /\ contadorColumnas = 0
  /\ valorIngresado = 0
  /\ matriz = [i \in 0..LargoMatriz - 1 |-> 0]
  /\ entrada = "viva"
  /\ salida = <<>>
  /\ cargados = <<>>

Init ==
  /\ pc = "corroborarFilas"
  /\ cantidadFilas = 0 /\ cantidadColumnas = 0
  /\ contadorFilas = 0 /\ contadorColumnas = 0
  /\ valorIngresado = 0
  /\ matriz = [i \in 0..LargoMatriz - 1 |-> 0]
  /\ entrada = "viva"
  /\ salida = <<>>
  /\ cargados = <<>>

\* jle 1 and jg 10, both signed: a number out of range is asked for again.
CorroborarFilas ==
  /\ pc = "corroborarFilas"
  /\ Scanf(cantidadFilas, cantidadFilas', Lados)
  /\ pc' = IF cantidadFilas' > 1 /\ cantidadFilas' <= MaxLado
           THEN "corroborarColumnas" ELSE "corroborarFilas"
  /\ UNCHANGED <<cantidadColumnas, contadores, valorIngresado, matriz, salida,
                 cargados>>

\* Fault: jg 11 in place of jg 10.
DemasiadasColumnasTarde == cantidadColumnas' > MaxLado + 1

DemasiadasColumnas == cantidadColumnas' > MaxLado

\* Too few columns are asked for again; too many go back to the rows.
CorroborarColumnas ==
  /\ pc = "corroborarColumnas"
  /\ Scanf(cantidadColumnas, cantidadColumnas', Lados)
  /\ \/ /\ cantidadColumnas' <= 1
        /\ UNCHANGED <<pc, contadorColumnas>>
     \/ /\ cantidadColumnas' > 1
        /\ contadorColumnas' = 0
        /\ pc' = IF DemasiadasColumnas THEN "corroborarFilas" ELSE "empieza"
  /\ UNCHANGED <<cantidadFilas, contadorFilas, valorIngresado, matriz, salida,
                 cargados>>

\* Fault: the row is multiplied by the number of rows.
PosicionPorFilas == contadorFilas * cantidadFilas + contadorColumnas

Posicion == contadorFilas * cantidadColumnas + contadorColumnas

LeerValorIngresado == Scanf(valorIngresado, valorIngresado', Valores)

\* One pass of empieza: read a number, or keep the last one if the read
\* fails, store its low byte, and go on to the next position.
Empieza ==
  /\ pc = "empieza"
  /\ contadorFilas <= cantidadFilas - 1
  /\ LeerValorIngresado
  /\ matriz' = [matriz EXCEPT ![Posicion] = Bajo(valorIngresado')]
  /\ \/ /\ contadorColumnas + 1 <= cantidadColumnas - 1
        /\ contadorColumnas' = contadorColumnas + 1
        /\ UNCHANGED contadorFilas
     \/ /\ contadorColumnas + 1 > cantidadColumnas - 1
        /\ contadorColumnas' = 0
        /\ contadorFilas' = contadorFilas + 1
  /\ cargados' = Append(cargados, valorIngresado')
  /\ UNCHANGED <<pc, dimensiones, salida>>

\* Fault: sub eax, 1 is missing.
ColumnaInicialDeMas == cantidadColumnas

ColumnaInicial == cantidadColumnas - 1

MostrarMatriz ==
  /\ pc = "empieza"
  /\ contadorFilas > cantidadFilas - 1
  /\ contadorFilas' = 0
  /\ contadorColumnas' = ColumnaInicial
  /\ pc' = "empiezaMuestra"
  /\ UNCHANGED <<dimensiones, valorIngresado, matriz, entrada, salida, cargados>>

\* mostrarParteMatriz overwrites only the low byte of valorIngresado; the last
\* element of a column is followed by a line feed.
EmpiezaMuestra ==
  /\ pc = "empiezaMuestra"
  /\ contadorColumnas >= 0
  /\ valorIngresado' = Alto(valorIngresado) + matriz[Posicion]
  /\ \/ /\ contadorFilas + 1 <= cantidadFilas - 1
        /\ salida' = Append(salida, valorIngresado')
        /\ contadorFilas' = contadorFilas + 1
        /\ UNCHANGED contadorColumnas
     \/ /\ contadorFilas + 1 > cantidadFilas - 1
        /\ salida' = salida \o <<valorIngresado', Salto>>
        /\ contadorFilas' = 0
        /\ contadorColumnas' = contadorColumnas - 1
  /\ UNCHANGED <<pc, dimensiones, matriz, entrada, cargados>>

SalirDelPrograma ==
  /\ pc = "empiezaMuestra"
  /\ contadorColumnas < 0
  /\ pc' = "fin"
  /\ UNCHANGED <<dimensiones, contadores, valorIngresado, matriz, entrada,
                 salida, cargados>>

Acabado == pc = "fin" /\ UNCHANGED vars

Next ==
  \/ CorroborarFilas \/ CorroborarColumnas \/ Empieza \/ MostrarMatriz
  \/ EmpiezaMuestra \/ SalirDelPrograma \/ Acabado

Spec == Init /\ [][Next]_vars

-----------------------------------------------------------------------------
(* Correctness *)

\* Types; both dimensions are 2 to MaxLado once accepted, by whatever path the
\* two prompts were gone through (7.asm:216-239).
TypeOK ==
  /\ pc \in {"corroborarFilas", "corroborarColumnas", "empieza",
             "empiezaMuestra", "fin"}
  /\ cantidadFilas \in Lados \cup {0} /\ cantidadColumnas \in Lados \cup {0}
  /\ pc # "corroborarFilas" => cantidadFilas \in 2..MaxLado
  /\ pc \in {"empieza", "empiezaMuestra", "fin"} =>
       cantidadColumnas \in 2..MaxLado
  /\ contadorFilas \in 0..MaxLado
  /\ contadorColumnas \in -1..MaxLado - 1
  /\ valorIngresado \in Nat
  /\ matriz \in [0..LargoMatriz - 1 -> 0..Base - 1]
  /\ entrada \in {"viva", "trabada"}
  /\ salida \in Seq(Nat \cup {Salto})
  /\ cargados \in Seq(Valores \cup {0})

\* Which element, counted in the order of entry, belongs at row r and column s
\* of a matrix of shape f turned counterclockwise: row s, last column but r.
FuenteGirada(f, r, s) == s * f[2] + (f[2] - 1 - r) + 1

Forma == <<cantidadFilas, cantidadColumnas>>

\* The loading loop has met every position in turn and stayed inside matriz:
\* what is loaded is where the order of entry says.
MatrizFiel ==
  /\ pc = "empieza" => Len(cargados) = Posicion
  /\ pc \in {"empiezaMuestra", "fin"} =>
       Len(cargados) = cantidadFilas * cantidadColumnas
  /\ Len(cargados) <= LargoMatriz
  /\ \A k \in 1..Len(cargados) : matriz[k - 1] = Bajo(cargados[k])

\* What has been printed is so much of the turned matrix, one row per line, as
\* far as the low bytes go; above the low byte every number is the last one
\* loaded, because valorIngresado is never cleared.
MuestraFiel ==
  LET n == cantidadFilas
      numero(r, s) == Bajo(cargados[FuenteGirada(Forma, r, s)])
                      + Alto(cargados[Len(cargados)])
  IN  /\ \A i \in 1..Len(salida) :
           salida[i] = IF i % (n + 1) = 0 THEN Salto
                       ELSE numero((i - 1) \div (n + 1), (i - 1) % (n + 1))
      /\ pc = "fin" => Len(salida) = cantidadColumnas * (n + 1)

\* Every number entered is at its position, as a byte, and is shown at the
\* position the turn takes it to (7.asm:251-262, 183-187).
GiradaPorBytes == MatrizFiel /\ MuestraFiel

Pedidos == {"corroborarFilas", "corroborarColumnas"}

\* A dimension that was refused is never taken for a new one: if the input
\* jams at a prompt, what the prompts go on comparing is stale, and though a
\* number of columns that was too large sends them back and forth between
\* each other, they are never left again (7.asm:216-239).
TrabadoNoAvanza ==
  [][entrada' = "trabada" /\ pc \in Pedidos => pc' \in Pedidos]_vars

\* Once both dimensions are accepted: the elements to load and to show, and
\* the ends of the two loops.
PasosQueFaltan ==
  CASE pc = "empieza" -> 2 * (cantidadFilas * cantidadColumnas) + 2 - Posicion
    [] pc = "empiezaMuestra" ->
         (contadorColumnas + 1) * cantidadFilas + 1 - contadorFilas
    [] OTHER -> 0

\* Nothing that is typed prolongs the loops, and none of their four ends is
\* missed, the last one below zero: from the dimensions accepted on, two steps
\* for each element and two more (7.asm:241-313).
PasosAcotados ==
  [][pc \notin Pedidos =>
       PasosQueFaltan' < PasosQueFaltan /\ PasosQueFaltan' >= 0]_vars

Visor == INSTANCE VisorDeMatriz WITH
  Valores <- 0..Base - 1,
  Formas <- (2..MaxLado) \X (2..MaxLado),
  FilasVista <- LAMBDA f : f[2],
  Fuente <- FuenteGirada,
  cargados <- [i \in DOMAIN cargados |-> Bajo(cargados[i])],
  salida <- [i \in DOMAIN salida |->
               IF salida[i] = Salto THEN Salto ELSE Bajo(salida[i])],
  forma <- IF pc \in Pedidos THEN <<0, 0>>
           ELSE Forma

\* The promise of 7.asm:1, as far as the low bytes go: the numbers entered and
\* shown, seen modulo a byte, are a behaviour of the abstract viewer.
ImplementaVisor == Visor!Spec

\* The promise of 7.asm:1 for any numbers: what is printed is the turned
\* matrix.
GiradaEntera ==
  pc = "fin" =>
    \A r \in 0..cantidadColumnas - 1, c \in 0..cantidadFilas - 1 :
      salida[r * (cantidadFilas + 1) + c + 1] = cargados[FuenteGirada(Forma, r, c)]
=============================================================================
