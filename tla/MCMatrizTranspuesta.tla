------------------------ MODULE MCMatrizTranspuesta ------------------------
(* Values of the constants of MatrizTranspuesta that a .cfg cannot write.   *)
EXTENDS MatrizTranspuesta

\* One integer on each side of every comparison of the program.
MCLados == -1..MaxLado + 1
=============================================================================
