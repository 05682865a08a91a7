--------------------------- MODULE MCMatrizGirada ---------------------------
(* Values of the constants of MatrizGirada that a .cfg cannot write.        *)
EXTENDS MatrizGirada

\* One integer on each side of every comparison of the program.
MCLados == -1..MaxLado + 1
=============================================================================
