-------------------------- MODULE ConnellAbstracto --------------------------
(* What program 6 promises: the Connell sequence as it is defined, by rows.  *)
(* Row 1 is 1; each row has one number more than the one before, begins with *)
(* the number after the last one shown, and goes on by twos.  Nothing is     *)
(* said of how the next number is looked for.                                *)
EXTENDS Integers, Sequences

CONSTANTS
  Cantidades,  \* how many terms can be asked for
  Suma(_, _)   \* addition, as the numbers shown add up

VARIABLES
  fase,      \* "espera", "muestra" or "listo"
  cantidad,  \* terms asked for
  fila,      \* row of the last term shown, 0 before the first
  puestos,   \* terms of that row shown
  salida     \* terms shown

vars == <<fase, cantidad, fila, puestos, salida>>

Ultimo == IF salida = <<>> THEN 0 ELSE salida[Len(salida)]

Init ==
  /\ fase = "espera"
  /\ cantidad = 0
  /\ fila = 0
  /\ puestos = 0
  /\ salida = <<>>

Pedir ==
  /\ fase = "espera"
  /\ fase' = "muestra"
  /\ cantidad' \in Cantidades
  /\ UNCHANGED <<fila, puestos, salida>>

SeguirFila ==
  /\ puestos < fila
  /\ puestos' = puestos + 1
  /\ salida' = Append(salida, Suma(Ultimo, 2))
  /\ UNCHANGED fila

EmpezarFila ==
  /\ puestos = fila
  /\ fila' = fila + 1
  /\ puestos' = 1
  /\ salida' = Append(salida, Suma(Ultimo, 1))

\* The list is complete with the last term asked for, in whatever row.
Mostrar ==
  /\ fase = "muestra"
  /\ Len(salida) < cantidad
  /\ SeguirFila \/ EmpezarFila
  /\ fase' = IF Len(salida') = cantidad THEN "listo" ELSE "muestra"
  /\ UNCHANGED cantidad

NadaQueMostrar ==
  /\ fase = "muestra"
  /\ cantidad = 0
  /\ fase' = "listo"
  /\ UNCHANGED <<cantidad, fila, puestos, salida>>

Next == Pedir \/ Mostrar \/ NadaQueMostrar

Spec == Init /\ [][Next]_vars
=============================================================================
