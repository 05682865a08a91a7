--------------------------- MODULE VisorDeMatriz ---------------------------
(* What programs 7 and 8 promise: a matrix of integers is entered row by row *)
(* and a rearrangement of it is shown.  Which one is the parameter of the    *)
(* module.  Nothing is said of bytes, registers or of where the numbers are. *)
EXTENDS Integers, Sequences

CONSTANTS
  Valores,        \* the integers that can be entered
  Formas,         \* the pairs <<rows, columns>> that can be entered
  Salto,          \* the line feed of the text shown
  FilasVista(_),  \* how many rows are shown of a matrix of that shape
  Fuente(_, _, _) \* Fuente(f, r, s): which element, counted from 1 in the
                  \* order of entry, is shown at row r and column s

VARIABLES
  forma,     \* <<rows, columns>>, <<0, 0>> until entered
  cargados,  \* the elements entered so far
  salida     \* the text shown so far: numbers and line feeds

vars == <<forma, cargados, salida>>

Elementos(f) == f[1] * f[2]

\* The whole text for a matrix entered completely: every row of the view ends
\* in a line feed.
Texto(f, c) ==
  LET ancho == Elementos(f) \div FilasVista(f)
  IN  [i \in 1..FilasVista(f) * (ancho + 1) |->
         IF i % (ancho + 1) = 0 THEN Salto
         ELSE c[Fuente(f, (i - 1) \div (ancho + 1), (i - 1) % (ancho + 1))]]

Init ==
  /\ forma = <<0, 0>>
  /\ cargados = <<>>
  /\ salida = <<>>

Dimensionar ==
  /\ forma = <<0, 0>>
  /\ forma' \in Formas
  /\ UNCHANGED <<cargados, salida>>

Ingresar ==
  /\ Len(cargados) < Elementos(forma)
  /\ \E v \in Valores : cargados' = Append(cargados, v)
  /\ UNCHANGED <<forma, salida>>

\* Some more of the text appears.
Mostrar ==
  /\ forma # <<0, 0>>
  /\ Len(cargados) = Elementos(forma)
  /\ \E n \in Len(salida) + 1..Len(Texto(forma, cargados)) :
       salida' = SubSeq(Texto(forma, cargados), 1, n)
  /\ UNCHANGED <<forma, cargados>>

Next == Dimensionar \/ Ingresar \/ Mostrar

Spec == Init /\ [][Next]_vars
=============================================================================
