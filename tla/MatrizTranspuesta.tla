------------------------- MODULE MatrizTranspuesta -------------------------
(* Program 8 (8/8.asm): it asks for N, reads an NxN matrix and shows its     *)
(* transpose.  Numbers are read as dwords into valorIngresado, but stored in *)
(* matriz as single bytes; to show one, its byte is copied over the low byte *)
(* of valorIngresado, whose upper part is still that of the last number      *)
(* read.  One action per pass of each loop; pc is the label of the loop.     *)
(*                                                                           *)
(* A definition whose comment begins with 'Fault:' is a wrong variant of the *)
(* one after it, used to show that a property fails when the code has that   *)
(* fault.                                                                    *)
EXTENDS Integers, Sequences, Consola

CONSTANTS
  Base,         \* values of a byte (256)
  Valores,      \* the dwords that can be typed as elements
  Lados,        \* the integers that can be typed as N
  MaxLado,      \* the largest N accepted (10)
  LargoMatriz   \* bytes reserved for matriz (400)

ASSUME BaseAssumption == Base \in Nat \ {0}
ASSUME ValoresAssumption == Valores \subseteq Nat
ASSUME LadosAssumption == Lados \subseteq Int
ASSUME MaxLadoAssumption == MaxLado \in Nat /\ MaxLado >= 2
ASSUME LargoAssumption == LargoMatriz \in Nat /\ MaxLado * MaxLado <= LargoMatriz

VARIABLES
  pc,
  cantidadFilasYColumnas,
  contadorFilas,
  contadorColumnas,
  valorIngresado,
  matriz,      \* the bytes of the array
  salida,      \* numbers and line feeds printed
  cargados     \* history: the dwords stored, in order, before truncation

vars == <<pc, cantidadFilasYColumnas, contadorFilas, contadorColumnas,
          valorIngresado, matriz, entrada, salida, cargados>>

\* A line feed in salida; no number is negative, dwords being unsigned here.
Salto == -1

Bajo(v) == v % Base            \* the low byte of a dword, AL of EAX
Alto(v) == v - (v % Base)      \* what is left of it

-----------------------------------------------------------------------------

Init ==
  /\ pc = "corroborarFilasYColumnas"
  /\ cantidadFilasYColumnas = 0
  /\ contadorFilas = 0
  /\ contadorColumnas = 0
  /\ valorIngresado = 0
  /\ matriz = [i \in 0..LargoMatriz - 1 |-> 0]
  /\ entrada = "viva"
  /\ salida = <<>>
  /\ cargados = <<>>

\* Fault: jg 11 in place of jg 10.
LadoAceptadoDeMas(n) == n > 1 /\ n <= MaxLado + 1

\* jle 1 and jg 10, both signed.
LadoAceptado(n) == n > 1 /\ n <= MaxLado

\* A number that is not accepted is asked for again; if nothing can be read
\* any more this never ends.
CorroborarFilasYColumnas ==
  /\ pc = "corroborarFilasYColumnas"
  /\ Scanf(cantidadFilasYColumnas, cantidadFilasYColumnas', Lados)
  /\ \/ /\ LadoAceptado(cantidadFilasYColumnas')
        /\ pc' = "empieza"
     \/ /\ ~LadoAceptado(cantidadFilasYColumnas')
        /\ UNCHANGED pc
  /\ UNCHANGED <<contadorFilas, contadorColumnas, valorIngresado, matriz,
                 salida, cargados>>

\* Fault: the last element of a row is skipped (jl in place of jle).
UltimaColumnaCorta == contadorColumnas + 1 > cantidadFilasYColumnas - 2

UltimaColumna == contadorColumnas + 1 > cantidadFilasYColumnas - 1

\* Both loops go through the positions row by row.
Avanzar ==
  \/ /\ ~UltimaColumna
     /\ contadorColumnas' = contadorColumnas + 1
     /\ UNCHANGED contadorFilas
  \/ /\ UltimaColumna
     /\ contadorColumnas' = 0
     /\ contadorFilas' = contadorFilas + 1

Posicion == contadorFilas * cantidadFilasYColumnas + contadorColumnas

LeerValorIngresado == Scanf(valorIngresado, valorIngresado', Valores)

\* One pass of empieza: read a number, or keep the last one if the read
\* fails, and store its low byte.
Empieza ==
  /\ pc = "empieza"
  /\ contadorFilas <= cantidadFilasYColumnas - 1
  /\ LeerValorIngresado
  /\ matriz' = [matriz EXCEPT ![Posicion] = Bajo(valorIngresado')]
  /\ cargados' = Append(cargados, valorIngresado')
  /\ Avanzar
  /\ UNCHANGED <<pc, cantidadFilasYColumnas, salida>>

MostrarMatriz ==
  /\ pc = "empieza"
  /\ contadorFilas > cantidadFilasYColumnas - 1
  /\ contadorColumnas' = 0
  /\ contadorFilas' = 0
  /\ pc' = "empiezaMuestra"
  /\ UNCHANGED <<cantidadFilasYColumnas, valorIngresado, matriz, entrada,
                 salida, cargados>>

\* Fault: the position of empieza used for showing.
PosicionDirecta == contadorFilas * cantidadFilasYColumnas + contadorColumnas

PosicionTranspuesta ==
  contadorColumnas * cantidadFilasYColumnas + contadorFilas

\* mostrarParteMatriz overwrites only the low byte of valorIngresado.
MostrarParteMatriz ==
  /\ valorIngresado' = Alto(valorIngresado) + matriz[PosicionTranspuesta]
  /\ salida' = salida \o (IF UltimaColumna THEN <<valorIngresado', Salto>>
                                           ELSE <<valorIngresado'>>)

EmpiezaMuestra ==
  /\ pc = "empiezaMuestra"
  /\ contadorFilas <= cantidadFilasYColumnas - 1
  /\ MostrarParteMatriz
  /\ Avanzar
  /\ UNCHANGED <<pc, cantidadFilasYColumnas, matriz, entrada, cargados>>

\* Fault: the conditional jump goes to empiezaMuestra.
SalirSinSalir ==
  /\ pc = "empiezaMuestra"
  /\ contadorFilas > cantidadFilasYColumnas - 1
  /\ UNCHANGED vars

SalirDelPrograma ==
  /\ pc = "empiezaMuestra"
  /\ contadorFilas > cantidadFilasYColumnas - 1
  /\ pc' = "fin"
  /\ UNCHANGED <<cantidadFilasYColumnas, contadorFilas, contadorColumnas,
                 valorIngresado, matriz, entrada, salida, cargados>>

Acabado == pc = "fin" /\ UNCHANGED vars

Next ==
  \/ CorroborarFilasYColumnas \/ Empieza \/ MostrarMatriz \/ EmpiezaMuestra
  \/ SalirDelPrograma \/ Acabado

Spec == Init /\ [][Next]_vars

\* The operating system keeps running the process.
FairSpec == Spec /\ WF_vars(Next)

-----------------------------------------------------------------------------
(* Correctness *)

\* Types; the number of rows and columns is 2 to MaxLado once accepted.
TypeOK ==
  /\ pc \in {"corroborarFilasYColumnas", "empieza", "empiezaMuestra", "fin"}
  /\ cantidadFilasYColumnas \in Lados \cup {0}
  /\ pc # "corroborarFilasYColumnas" => cantidadFilasYColumnas \in 2..MaxLado
  /\ contadorFilas \in 0..MaxLado
  /\ contadorColumnas \in 0..MaxLado - 1
  /\ valorIngresado \in Nat
  /\ matriz \in [0..LargoMatriz - 1 -> 0..Base - 1]
  /\ entrada \in {"viva", "trabada"}
  /\ salida \in Seq(Nat \cup {Salto})
  /\ cargados \in Seq(Valores \cup {0})

\* Which element, counted in the order of entry, belongs at row r and column s
\* of the transpose of a matrix of shape f.
FuenteTranspuesta(f, r, s) == s * f[2] + r + 1

Forma == <<cantidadFilasYColumnas, cantidadFilasYColumnas>>

\* The loading loop has met every position in turn and stayed inside matriz:
\* what is loaded is where the order of entry says.
MatrizFiel ==
  /\ pc = "empieza" => Len(cargados) = Posicion
  /\ pc \in {"empiezaMuestra", "fin"} =>
       Len(cargados) = cantidadFilasYColumnas * cantidadFilasYColumnas
  /\ Len(cargados) <= LargoMatriz
  /\ \A k \in 1..Len(cargados) : matriz[k - 1] = Bajo(cargados[k])

\* What has been printed is so much of the transpose, one row per line, as far
\* as the low bytes go; above the low byte every number is the last one
\* loaded, because valorIngresado is never cleared.
MuestraFiel ==
  LET n == cantidadFilasYColumnas
      numero(r, s) == Bajo(cargados[FuenteTranspuesta(Forma, r, s)])
                      + Alto(cargados[Len(cargados)])
  IN  /\ \A i \in 1..Len(salida) :
           salida[i] = IF i % (n + 1) = 0 THEN Salto
                       ELSE numero((i - 1) \div (n + 1), (i - 1) % (n + 1))
      /\ pc = "fin" => Len(salida) = n * (n + 1)

\* Every number entered is at its position, as a byte, and is shown at the
\* transposed position (8.asm:188-199, 137-141).
TranspuestaPorBytes == MatrizFiel /\ MuestraFiel

\* Once a size is accepted: the elements to load and to show, and the ends of
\* the two loops.
PasosQueFaltan ==
  LET elementos == cantidadFilasYColumnas * cantidadFilasYColumnas
  IN  CASE pc = "empieza" -> 2 * elementos + 2 - Posicion
        [] pc = "empiezaMuestra" -> elementos + 1 - Posicion
        [] OTHER -> 0

\* Nothing that is typed prolongs the loops, and none of their four ends is
\* missed: from the size accepted on, two steps for each element and two more
\* (8.asm:174-249).
PasosAcotados ==
  [][pc # "corroborarFilasYColumnas" =>
       PasosQueFaltan' < PasosQueFaltan /\ PasosQueFaltan' >= 0]_vars

\* Once a size has been accepted the program ends, whatever is typed.
Termina == (pc = "empieza") ~> (pc = "fin")

Visor == INSTANCE VisorDeMatriz WITH
  Valores <- 0..Base - 1,
  Formas <- {<<n, n>> : n \in 2..MaxLado},
  FilasVista <- LAMBDA f : f[1],
  Fuente <- FuenteTranspuesta,
  cargados <- [i \in DOMAIN cargados |-> Bajo(cargados[i])],
  salida <- [i \in DOMAIN salida |->
               IF salida[i] = Salto THEN Salto ELSE Bajo(salida[i])],
  forma <- IF pc = "corroborarFilasYColumnas" THEN <<0, 0>> ELSE Forma

\* The promise of 8.asm:1, as far as the low bytes go: the numbers entered and
\* shown, seen modulo a byte, are a behaviour of the abstract viewer.
ImplementaVisor == Visor!Spec
=============================================================================
