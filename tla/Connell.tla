------------------------------ MODULE Connell ------------------------------
(* Program 6 (6/6.asm): it asks for N and shows the first N terms of the     *)
(* Connell sequence 1; 2, 4; 5, 7, 9; 10, 12, 14, 16; ...  The row           *)
(* contadorSecuencias takes as many numbers of its own parity, one by one    *)
(* from ultimoNumero on, as its index says.  One action per pass of a loop;  *)
(* pc is its label.                                                          *)
(*                                                                           *)
(* A definition whose comment begins with 'Fault:' is a wrong variant of the *)
(* one after it, used to show that a property fails when the code has that   *)
(* fault.                                                                    *)
EXTENDS Dword, Sequences, Consola

VARIABLES
  pc,
  cantidadTerminos,
  contadorSecuencias,
  contadorTerminos,
  contadorImpresos,
  ultimoNumero,
  salida   \* the numbers printed

vars == <<pc, cantidadTerminos, contadorSecuencias, contadorTerminos,
          contadorImpresos, ultimoNumero, entrada, salida>>

Init ==
  /\ pc = "leerNumero"
  /\ cantidadTerminos = 0
  /\ contadorSecuencias = 0
  /\ contadorTerminos = 0
  /\ contadorImpresos = 0
  /\ ultimoNumero = 1
  /\ entrada = "viva"
  /\ salida = <<>>

\* Any dword can be typed, negative numbers included; N stays 0 if none is.
LeerNumero ==
  /\ pc = "leerNumero"
  /\ Scanf(cantidadTerminos, cantidadTerminos', Words)
  /\ pc' = "secuenciaConnell"
  /\ UNCHANGED <<contadorSecuencias, contadorTerminos, contadorImpresos,
                 ultimoNumero, salida>>

\* Fault: jae in place of ja.
SecuenciasAgotadasAntes == contadorSecuencias >= cantidadTerminos

SecuenciasAgotadas == contadorSecuencias > cantidadTerminos

SecuenciaConnell ==
  /\ pc = "secuenciaConnell"
  /\ \/ /\ SecuenciasAgotadas
        /\ pc' = "fin"
        /\ UNCHANGED contadorTerminos
     \/ /\ ~SecuenciasAgotadas
        /\ contadorTerminos' = 0
        /\ pc' = "buscarTerminoAdecuado"
  /\ UNCHANGED <<cantidadTerminos, contadorSecuencias, contadorImpresos,
                 ultimoNumero, entrada, salida>>

\* Fault: a row takes one number more than its index.
FilaCompletaTarde == contadorTerminos = contadorSecuencias + 1

FilaCompleta == contadorTerminos = contadorSecuencias

TerminarBuscarTerminoAdecuado ==
  /\ pc = "buscarTerminoAdecuado"
  /\ FilaCompleta
  /\ contadorSecuencias' = ToWord(contadorSecuencias + 1)
  /\ pc' = "secuenciaConnell"
  /\ UNCHANGED <<cantidadTerminos, contadorTerminos, contadorImpresos,
                 ultimoNumero, entrada, salida>>

\* Fault: only the numbers of even rows are looked at.
MismaParidadSoloPar == contadorSecuencias % 2 = 1 \/ ultimoNumero % 2 = 0

MismaParidad == contadorSecuencias % 2 = ultimoNumero % 2

SiguienteNumero == ToWord(ultimoNumero + 1)

\* The last term ends the program in the middle of a row.
Imprimir ==
  /\ pc = "buscarTerminoAdecuado"
  /\ ~FilaCompleta
  /\ MismaParidad
  /\ salida' = Append(salida, Signed(ultimoNumero))
  /\ contadorTerminos' = ToWord(contadorTerminos + 1)
  /\ contadorImpresos' = ToWord(contadorImpresos + 1)
  /\ \/ /\ contadorImpresos' = cantidadTerminos
        /\ pc' = "fin"
        /\ UNCHANGED ultimoNumero
     \/ /\ contadorImpresos' # cantidadTerminos
        /\ ultimoNumero' = SiguienteNumero
        /\ UNCHANGED pc
  /\ UNCHANGED <<cantidadTerminos, contadorSecuencias, entrada>>

NoImprimir ==
  /\ pc = "buscarTerminoAdecuado"
  /\ ~FilaCompleta
  /\ ~MismaParidad
  /\ ultimoNumero' = SiguienteNumero
  /\ UNCHANGED <<pc, cantidadTerminos, contadorSecuencias, contadorTerminos,
                 contadorImpresos, entrada, salida>>

Acabado == pc = "fin" /\ UNCHANGED vars

Next ==
  \/ LeerNumero \/ SecuenciaConnell \/ TerminarBuscarTerminoAdecuado
  \/ Imprimir \/ NoImprimir \/ Acabado

Spec == Init /\ [][Next]_vars

-----------------------------------------------------------------------------
(* Correctness *)

\* Types; never more terms printed than asked for, whatever the row.
TypeOK ==
  /\ pc \in {"leerNumero", "secuenciaConnell", "buscarTerminoAdecuado", "fin"}
  /\ cantidadTerminos \in Words
  /\ contadorSecuencias \in Words
  /\ contadorTerminos \in 0..contadorSecuencias
  /\ contadorImpresos \in 0..cantidadTerminos
  /\ ultimoNumero \in Words
  /\ entrada \in {"viva", "trabada"}
  /\ salida \in Seq(-(WordSize \div 2)..WordSize \div 2 - 1)

\* The i-th term of the sequence is in row r, which ends at term r(r+1)/2.
EnFila(i, r) == r * (r - 1) < 2 * i /\ 2 * i <= r * (r + 1)

\* Term by term, what is printed is the Connell sequence, whose i-th term is
\* 2i - r, as a signed dword: exact as long as it fits.  At the end there are
\* exactly N terms, N taken as unsigned (6.asm:98-170).
PrefijoConnell ==
  /\ Len(salida) = contadorImpresos
  /\ \A i \in 1..Len(salida) : \A r \in 1..Len(salida) :
       EnFila(i, r) => salida[i] = Signed(ToWord(2 * i - r))
  /\ pc = "fin" => Len(salida) = cantidadTerminos

\* No term of row contadorSecuencias has been printed yet.
FilaSinEmpezar ==
  pc \in {"leerNumero", "secuenciaConnell"} \/ contadorTerminos = 0

\* The row before it, of which there is none before row 0.
FilaAnterior == IF contadorSecuencias = 0 THEN 0 ELSE contadorSecuencias - 1

\* What the user sees the program doing.
Fase ==
  IF pc = "leerNumero" THEN "espera" ELSE IF pc = "fin" THEN "listo" ELSE "muestra"

Abstracto == INSTANCE ConnellAbstracto WITH
  Cantidades <- Words,
  Suma <- LAMBDA a, b : Signed(ToWord(a + b)),
  fase <- Fase,
  cantidad <- cantidadTerminos,
  fila <- IF FilaSinEmpezar THEN FilaAnterior ELSE contadorSecuencias,
  puestos <- IF FilaSinEmpezar THEN FilaAnterior ELSE contadorTerminos

\* The promise of 6.asm:1: row by row the program shows the sequence and
\* stops at the N-th term, in whatever row it is; the test at the head of the
\* rows, which compares rows with terms, never cuts it short (6.asm:98-170).
ImplementaAbstracto == Abstracto!Spec

\* What the program can still do before the next term is printed, or before it
\* ends if there are no more.
PasosSinImprimir ==
  CASE pc = "leerNumero" -> 3 * WordSize + 2
    [] pc = "secuenciaConnell" -> IF contadorSecuencias = 0 THEN 4 ELSE 2
    [] pc = "buscarTerminoAdecuado" ->
         IF FilaCompleta THEN 3 ELSE IF MismaParidad THEN 1 ELSE 2
    [] pc = "fin" -> 0

PasosQueFaltan == 3 * (cantidadTerminos - contadorImpresos) + PasosSinImprimir

\* The search never goes past more than one number, and no more than one row
\* begins, between two terms: N terms take at most 3N + 4 steps, and the exit,
\* which is an equality, is not missed (6.asm:98-167).
PasosAcotados ==
  [][PasosQueFaltan' < PasosQueFaltan /\ PasosQueFaltan' >= 0]_vars
=============================================================================
