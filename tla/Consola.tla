------------------------------ MODULE Consola ------------------------------
(* The standard input as scanf("%d") and gets of the C runtime see it.  The  *)
(* runtime is not part of the repository: this is what the programs rely on. *)
VARIABLE entrada  \* "viva"; "trabada" once every read fails

\* A read stores one of the values that can be typed, or fails and leaves the
\* destination as it was: this once, or this time and every later one.
Lectura(antes, despues, valores) ==
  \/ /\ entrada = "viva"
     /\ despues \in valores \cup {antes}
     /\ UNCHANGED entrada
  \/ /\ despues = antes
     /\ entrada' = "trabada"

\* A conversion fails for good at the end of the input and on text that is no
\* number, which stays where it is; but a sign without a number is consumed.
Scanf(antes, despues, numeros) == Lectura(antes, despues, numeros)

\* A line, of which only the first byte matters (zero if it is empty); gets
\* fails at the end of the input, which on a console need not be the last.
Gets(antes, despues, letras) == Lectura(antes, despues, letras \cup {0})
=============================================================================
