-------------------------- MODULE FactoresAbstracto --------------------------
(* What program 1 promises: a number is entered and comes apart into its     *)
(* prime factors, the least first.  Nothing is said of counters, of the      *)
(* number being overwritten or of how a divisor is found.                    *)
EXTENDS Integers, Sequences

CONSTANT Numeros  \* the numbers that can be entered

VARIABLES
  fase,      \* "espera", "factoriza" or "listo"
  restante,  \* what has still to come apart
  factores   \* the factors shown

vars == <<fase, restante, factores>>

\* The least divisor but 1: a prime.
EsMenorDivisor(p, n) ==
  /\ p \in 2..n
  /\ n % p = 0
  /\ \A d \in 2..p - 1 : n % d # 0

Init ==
  /\ fase = "espera"
  /\ restante = 0
  /\ factores = <<>>

Ingresar ==
  /\ fase = "espera"
  /\ fase' = "factoriza"
  /\ restante' \in Numeros
  /\ UNCHANGED factores

Separar ==
  /\ fase = "factoriza"
  /\ \E p \in 2..restante :
       /\ EsMenorDivisor(p, restante)
       /\ restante' = restante \div p
       /\ factores' = Append(factores, p)
  /\ UNCHANGED fase

\* 0 and 1 have no prime factors.
Terminar ==
  /\ fase = "factoriza"
  /\ restante <= 1
  /\ fase' = "listo"
  /\ UNCHANGED <<restante, factores>>

Next == Ingresar \/ Separar \/ Terminar

Spec == Init /\ [][Next]_vars
=============================================================================
