------------------------ MODULE CaracteresAbstracto ------------------------
(* What program 5 promises, as its first line states it: characters are    *)
(* entered, one per turn, and in the end the program shows them in order   *)
(* and without repetitions.  Nothing is said here of arrays, of shifting   *)
(* or of the machine stack.                                                *)
EXTENDS Integers, Sequences

CONSTANTS
  Letras,   \* the characters a user can enter, as byte codes
  Turnos    \* how many characters the program asks for

VARIABLES
  recibidos,  \* the set of characters entered so far
  turno,      \* how many characters have been entered
  salida      \* the sequence shown, <<>> until it is shown

vars == <<recibidos, turno, salida>>

\* s lists the elements of S in increasing order, each exactly once.
ListaOrdenada(s, S) ==
  /\ \A i, j \in 1..Len(s) : i < j => s[i] < s[j]
  /\ {s[i] : i \in 1..Len(s)} = S

Init ==
  /\ recibidos = {}
  /\ turno = 0
  /\ salida = <<>>

Recibir ==
  /\ turno < Turnos
  /\ turno' = turno + 1
  /\ \E c \in Letras : recibidos' = recibidos \cup {c}
  /\ UNCHANGED salida

Mostrar ==
  /\ turno = Turnos
  /\ salida = <<>>
  /\ ListaOrdenada(salida', recibidos)
  /\ UNCHANGED <<recibidos, turno>>

Next == Recibir \/ Mostrar

Spec == Init /\ [][Next]_vars
=============================================================================
