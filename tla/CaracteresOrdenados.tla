------------------------ MODULE CaracteresOrdenados ------------------------
(* Program 5 (5/5.asm): it reads one line per character, keeps the distinct *)
(* first characters in arrayCaracteres, sorted, and prints them.            *)
(*                                                                          *)
(* One action per basic block of the loops; pc holds the label about to be  *)
(* executed.  The routines CALL one another but never return: every path    *)
(* ends in a JMP to incrementarContadorCantCaract and from there to         *)
(* llevarCuenta, so return addresses pile up on the same stack on which     *)
(* guardarEnPila saves the bytes being shifted.  The stack is therefore     *)
(* part of the state, and it is finite.                                     *)
(*                                                                          *)
(* A definition whose comment begins with 'Fault:' is a wrong variant of    *)
(* the one after it.  No action uses it; it shows that a property of this   *)
(* module fails when the code has that fault.                               *)
EXTENDS Integers, Sequences, Consola

CONSTANTS
  Letras,      \* bytes that can be the first character of a line
  Limite,      \* last value of contadorCantCaract that is served (15)
  LargoArray,  \* bytes reserved for arrayCaracteres (75)
  PilaMax      \* dwords of stack (524288 in the linked program)

\* A character is a nonzero byte: the zero byte ends a line and the array.
ASSUME LetrasAssumption == Letras \subseteq 1..255
ASSUME LimiteAssumption == Limite \in Nat \ {0}
\* Room for Limite - 1 characters and the dword of zeros that ends them.
ASSUME LargoAssumption == LargoArray \in Nat /\ Limite + 3 <= LargoArray
ASSUME PilaAssumption == PilaMax \in Nat \ {0}

VARIABLES
  pc,                  \* label about to be executed
  contadorCantCaract,
  contadorRecorrer,
  caracter,            \* low byte; the three bytes of padding stay zero
  numero,
  arrayCaracteres,     \* the bytes of the array, from offset 0
  cadena,              \* first byte of the line buffer
  ecx,                 \* register, live across the loops of empujar
  pila,                \* low byte of every dword pushed and not yet popped
  salida,              \* what mostrarArrayCaracteres has printed
  leidos,              \* history: the set of characters accepted so far
  aceptados,           \* history: how many lines were accepted
  vacias               \* history: how many lines were empty

historia == <<leidos, aceptados, vacias>>

vars == <<pc, contadorCantCaract, contadorRecorrer, caracter, numero,
          arrayCaracteres, cadena, ecx, pila, entrada, salida, historia>>

\* Stands for a return address on the stack: no byte of data.
Retorno == -1

\* A byte of memory at an offset from arrayCaracteres; the line buffer is
\* what follows the array.
Byte(i) == IF i < LargoArray THEN arrayCaracteres[i] ELSE cadena

\* PUSH d (a CALL pushes Retorno) and continue at destino.  A push below the
\* reserved stack is an access violation, which ends the process.
Apilar(d, destino) ==
  \/ /\ Len(pila) < PilaMax
     /\ pila' = Append(pila, d)
     /\ pc' = destino
  \/ /\ Len(pila) >= PilaMax
     /\ pila' = pila
     /\ pc' = "desbordada"

LeerCadena == Gets(cadena, cadena', Letras)

-----------------------------------------------------------------------------

Init ==
  /\ pc = "llevarCuenta"
  /\ contadorCantCaract = 1
  /\ contadorRecorrer = 0
  /\ caracter = 0
  /\ numero = 0
  /\ arrayCaracteres = [i \in 0..LargoArray - 1 |-> 0]
  /\ cadena = 0
  /\ ecx = 0
  /\ pila = <<Retorno>>
  /\ entrada = "viva"
  /\ salida = <<>>
  /\ leidos = {}
  /\ aceptados = 0
  /\ vacias = 0

\* Fault: the limit is off by one.
CuentaCompletaTarde == contadorCantCaract > Limite + 1

CuentaCompleta == contadorCantCaract > Limite

LlevarCuenta ==
  /\ pc = "llevarCuenta"
  /\ \/ /\ CuentaCompleta
        /\ pc' = "terminar"
        /\ UNCHANGED pila
     \/ /\ ~CuentaCompleta
        /\ Apilar(Retorno, "siguienteIteracion")
  /\ UNCHANGED <<contadorCantCaract, contadorRecorrer, caracter, numero,
                 arrayCaracteres, cadena, ecx, entrada, salida, historia>>

\* Fault: siguienteIteracion, which does not return, calls gets itself and leaves
\* the argument on the stack.
SiguienteIteracionSinLimpiar ==
  /\ pc = "siguienteIteracion"
  /\ LeerCadena
  /\ pila' = pila \o <<Retorno, Retorno>>
  /\ pc' = "armarArrayCaracteres"
  /\ UNCHANGED <<contadorCantCaract, contadorRecorrer, caracter, numero,
                 arrayCaracteres, ecx, salida, historia>>

SiguienteIteracion ==
  /\ pc = "siguienteIteracion"
  /\ LeerCadena
  /\ Apilar(Retorno, "armarArrayCaracteres")
  /\ UNCHANGED <<contadorCantCaract, contadorRecorrer, caracter, numero,
                 arrayCaracteres, ecx, salida, historia>>

\* An empty line asks again without returning; the jump taken on eax = 0 is
\* dead, its al was just found to be nonzero.
ArmarArrayCaracteres ==
  /\ pc = "armarArrayCaracteres"
  /\ \/ /\ cadena = 0
        /\ pc' = "siguienteIteracion"
        /\ vacias' = vacias + 1
        /\ UNCHANGED <<caracter, leidos, aceptados, pila>>
     \/ /\ cadena # 0
        /\ caracter' = cadena
        /\ leidos' = leidos \cup {cadena}
        /\ aceptados' = aceptados + 1
        /\ Apilar(Retorno, "corroborarInexistencia")
        /\ UNCHANGED vacias
  /\ UNCHANGED <<contadorCantCaract, contadorRecorrer, numero,
                 arrayCaracteres, cadena, ecx, entrada, salida>>

\* Fault: the end of the array is not looked for.
FinDelArrayIgnorado == FALSE

\* The end of the array is recognised by a whole dword of zeros, the
\* character by a single byte.
FinDelArray == \A k \in 0..3 : Byte(contadorRecorrer + k) = 0

\* Fault: the index of the search is not advanced.
IncrementoOlvidado == contadorRecorrer

IncrementarContadorRecorrer == contadorRecorrer + 1

CorroborarInexistencia ==
  /\ pc = "corroborarInexistencia"
  /\ \/ /\ FinDelArray
        /\ contadorRecorrer' = 0
        /\ Apilar(Retorno, "encontrarPosicionCorrespondiente")
     \/ /\ ~FinDelArray
        /\ Byte(contadorRecorrer) = caracter
        /\ pc' = "incrementarContadorCantCaract"
        /\ UNCHANGED <<contadorRecorrer, pila>>
     \/ /\ ~FinDelArray
        /\ Byte(contadorRecorrer) # caracter
        /\ contadorRecorrer' = IncrementarContadorRecorrer
        /\ UNCHANGED <<pc, pila>>
  /\ UNCHANGED <<contadorCantCaract, caracter, numero, arrayCaracteres,
                 cadena, ecx, entrada, salida, historia>>

\* ubicar stores the whole dword caracter: the byte and three zeros.
Ubicar ==
  /\ arrayCaracteres' = [i \in DOMAIN arrayCaracteres |->
       IF i = contadorRecorrer THEN caracter
       ELSE IF i - contadorRecorrer \in 1..3 THEN 0
       ELSE arrayCaracteres[i]]
  /\ pc' = "incrementarContadorCantCaract"
  /\ UNCHANGED <<contadorRecorrer, ecx, pila>>

\* Fault: ja in place of jb.
VaDespues == caracter > Byte(contadorRecorrer)

VaAntes == caracter < Byte(contadorRecorrer)

\* The search for the place is recursive: one more return address per step.
EncontrarPosicionCorrespondiente ==
  /\ pc = "encontrarPosicionCorrespondiente"
  /\ \/ /\ Byte(contadorRecorrer) = 0
        /\ Ubicar
     \/ /\ Byte(contadorRecorrer) # 0
        /\ VaAntes
        /\ pc' = "buscarUltimo"
        /\ ecx' = contadorRecorrer
        /\ UNCHANGED <<contadorRecorrer, arrayCaracteres, pila>>
     \/ /\ Byte(contadorRecorrer) # 0
        /\ ~VaAntes
        /\ contadorRecorrer' = contadorRecorrer + 1
        /\ Apilar(Retorno, "encontrarPosicionCorrespondiente")
        /\ UNCHANGED <<arrayCaracteres, ecx>>
  /\ UNCHANGED <<contadorCantCaract, caracter, numero, cadena, entrada,
                 salida, historia>>

BuscarUltimo ==
  /\ pc = "buscarUltimo"
  /\ ecx' = ecx + 1
  /\ \/ /\ Byte(ecx + 1) # 0
        /\ UNCHANGED <<pc, numero>>
     \/ /\ Byte(ecx + 1) = 0
        /\ numero' = ecx + 1
        /\ pc' = "guardarEnPila"
  /\ UNCHANGED <<contadorCantCaract, contadorRecorrer, caracter,
                 arrayCaracteres, cadena, pila, entrada, salida, historia>>

\* Fault: the byte is read before ecx is decremented.
ByteCorrido == Byte(ecx)

ByteAGuardar == Byte(ecx - 1)

GuardarEnPila ==
  /\ pc = "guardarEnPila"
  /\ ecx # contadorRecorrer
  /\ ecx' = ecx - 1
  /\ Apilar(ByteAGuardar, "guardarEnPila")
  /\ UNCHANGED <<contadorCantCaract, contadorRecorrer, caracter, numero,
                 arrayCaracteres, cadena, entrada, salida, historia>>

PreUbicar ==
  /\ pc = "guardarEnPila"
  /\ ecx = contadorRecorrer
  /\ arrayCaracteres' = [arrayCaracteres EXCEPT ![contadorRecorrer] = caracter]
  /\ ecx' = contadorRecorrer + 1
  /\ pc' = "ubicarTodo"
  /\ UNCHANGED <<contadorCantCaract, contadorRecorrer, caracter, numero,
                 cadena, pila, entrada, salida, historia>>

\* Fault: the add edx, 1 is missing.
UltimoSinCorrer == numero

PrimeroSinCorrer == numero + 1

UbicarTodo ==
  /\ pc = "ubicarTodo"
  /\ \/ /\ ecx = PrimeroSinCorrer
        /\ pc' = "incrementarContadorCantCaract"
        /\ UNCHANGED <<arrayCaracteres, ecx, pila>>
     \/ /\ ecx # PrimeroSinCorrer
        /\ arrayCaracteres' = [arrayCaracteres EXCEPT ![ecx] = pila[Len(pila)]]
        /\ pila' = SubSeq(pila, 1, Len(pila) - 1)
        /\ ecx' = ecx + 1
        /\ UNCHANGED pc
  /\ UNCHANGED <<contadorCantCaract, contadorRecorrer, caracter, numero,
                 cadena, entrada, salida, historia>>

IncrementarContadorCantCaract ==
  /\ pc = "incrementarContadorCantCaract"
  /\ contadorRecorrer' = 0
  /\ contadorCantCaract' = contadorCantCaract + 1
  /\ pc' = "llevarCuenta"
  /\ UNCHANGED <<caracter, numero, arrayCaracteres, cadena, ecx, pila, entrada,
                 salida, historia>>

\* printf("%s") stops at the first zero byte.
MostrarArrayCaracteres ==
  LET largo == CHOOSE n \in 0..LargoArray :
                 Byte(n) = 0 /\ \A i \in 0..n - 1 : Byte(i) # 0
  IN  salida' = [i \in 1..largo |-> Byte(i - 1)]

Terminar ==
  /\ pc = "terminar"
  /\ MostrarArrayCaracteres
  /\ pc' = "fin"
  /\ UNCHANGED <<contadorCantCaract, contadorRecorrer, caracter, numero,
                 arrayCaracteres, cadena, ecx, pila, entrada, historia>>

\* The process is gone, by exit(0) or by the access violation.
Acabado ==
  /\ pc \in {"fin", "desbordada"}
  /\ UNCHANGED vars

Next ==
  \/ LlevarCuenta \/ SiguienteIteracion \/ ArmarArrayCaracteres
  \/ CorroborarInexistencia \/ EncontrarPosicionCorrespondiente
  \/ BuscarUltimo \/ GuardarEnPila \/ PreUbicar \/ UbicarTodo
  \/ IncrementarContadorCantCaract \/ Terminar \/ Acabado

Spec == Init /\ [][Next]_vars

\* The operating system keeps running the process.
FairSpec == Spec /\ WF_vars(Next)

-----------------------------------------------------------------------------
(* Correctness *)

\* Types of the state; contadorCantCaract never passes its limit by more
\* than one (5.asm:132-150).
Pcs == {"llevarCuenta", "siguienteIteracion", "armarArrayCaracteres",
        "corroborarInexistencia", "encontrarPosicionCorrespondiente",
        "buscarUltimo", "guardarEnPila", "ubicarTodo",
        "incrementarContadorCantCaract", "terminar", "fin", "desbordada"}

TypeOK ==
  /\ pc \in Pcs
  /\ contadorCantCaract \in 1..Limite + 1
  /\ contadorRecorrer \in Nat
  /\ caracter \in Letras \cup {0}
  /\ numero \in Nat
  /\ arrayCaracteres \in [0..LargoArray - 1 -> Letras \cup {0}]
  /\ cadena \in Letras \cup {0}
  /\ ecx \in Nat
  /\ pila \in Seq(Letras \cup {Retorno})
  /\ entrada \in {"viva", "trabada"}
  /\ salida \in Seq(Letras)
  /\ leidos \subseteq Letras
  /\ aceptados \in Nat
  /\ vacias \in Nat

\* The first n bytes of the array are strictly increasing characters, the
\* set S of them, and only zeros follow.
Guarda(n, S) ==
  /\ \A i \in 0..n - 1 : arrayCaracteres[i] # 0
  /\ \A i \in n..LargoArray - 1 : arrayCaracteres[i] = 0
  /\ \A i, j \in 0..n - 1 : i < j => arrayCaracteres[i] < arrayCaracteres[j]
  /\ {arrayCaracteres[i] : i \in 0..n - 1} = S

\* Between two characters the array holds exactly the characters accepted so
\* far, sorted and once each, however they were inserted (5.asm:160-282); and
\* what is in the line buffer is one of them, so that a read that fails, after
\* which it is taken again, adds no character that was not typed (5.asm:56-60).
ArrayFiel ==
  pc \in {"llevarCuenta", "terminar", "fin"} =>
    /\ \E n \in 0..LargoArray : Guarda(n, leidos)
    /\ cadena \in leidos \cup {0}

\* While the bytes are being shifted through the stack, no accepted
\* character is lost: each one is in the array, among the saved bytes, or the
\* one in hand (5.asm:233-275).
NadaSePierde ==
  leidos \subseteq {arrayCaracteres[i] : i \in DOMAIN arrayCaracteres}
                     \cup {pila[i] : i \in DOMAIN pila} \cup {caracter}

\* The k topmost entries of the stack are saved bytes, and no other entry is.
DatosEncima(k) ==
  /\ k \in 0..Len(pila)
  /\ \A i \in 1..Len(pila) : pila[i] = Retorno <=> i <= Len(pila) - k

\* PUSH and POP balance: the bytes on top of the stack are exactly those that
\* ubicarTodo still has to put back, so POP never takes one of the return
\* addresses beneath them, and none is left when the next character is asked
\* for (5.asm:245-274).
PilaBalanceada ==
  /\ pc = "guardarEnPila" => DatosEncima(numero - ecx)
  /\ pc = "ubicarTodo" => DatosEncima(numero + 1 - ecx)
  /\ pc \notin {"guardarEnPila", "ubicarTodo", "desbordada"} => DatosEncima(0)

\* Every access of the insertion stays inside the bytes of the array: the
\* dword reads of corroborarInexistencia, the dword store of ubicar, the last
\* byte written by ubicarTodo.
DentroDelArray ==
  /\ pc \in {"corroborarInexistencia", "encontrarPosicionCorrespondiente"} =>
       contadorRecorrer + 3 < LargoArray
  /\ pc = "buscarUltimo" => ecx + 1 < LargoArray
  /\ pc \in {"guardarEnPila", "ubicarTodo"} => numero < LargoArray

\* What the characters alone can leave on the stack in a whole run: four
\* return addresses each, and one entry for each character already stored.
CotaPila == 1 + 4 * Limite + (Limite * (Limite - 1)) \div 2

\* The calls that never return do not exhaust the stack by themselves: the
\* process can only die of it after about PilaMax empty lines, each of which
\* leaks one return address (5.asm:160-163).
DesbordeSoloPorVacias == pc = "desbordada" => CotaPila + vacias > PilaMax

\* The return addresses on the stack: all that is on it but the bytes that are
\* being shifted.
Retornos ==
  CASE pc = "guardarEnPila" -> Len(pila) - (numero - ecx)
    [] pc = "ubicarTodo" -> Len(pila) - (numero + 1 - ecx)
    [] OTHER -> Len(pila)

\* Where in the turn the program is; it only grows when a return address is
\* pushed, by less than the two that a dword of stack is worth.
PasosDelTurno ==
  CASE pc = "siguienteIteracion" -> 3
    [] pc = "armarArrayCaracteres" -> 4
    [] pc = "corroborarInexistencia" -> 5 - contadorRecorrer
    [] pc = "encontrarPosicionCorrespondiente" -> 10 - LargoArray
    [] pc = "buscarUltimo" -> 9 - LargoArray - ecx
    [] pc = "guardarEnPila" -> 11 - 3 * LargoArray + ecx
    [] pc = "ubicarTodo" -> 11 - 3 * LargoArray - ecx
    [] pc = "incrementarContadorCantCaract" -> 10 - 4 * LargoArray
    [] pc = "terminar" -> 1
    [] OTHER -> 2

PasosQueFaltan ==
  IF pc \in {"fin", "desbordada"} THEN 0
  ELSE 4 * LargoArray * (Limite + 1 - contadorCantCaract)
         + 2 * (PilaMax - Retornos) + PasosDelTurno

\* Nothing but empty lines prolongs a run, and each of them takes for good a
\* dword of the stack: a run has at most 4 * LargoArray steps per turn and two
\* per dword of stack, although the shifting gives its dwords back
\* (5.asm:132-283).
PasosAcotados ==
  [][PasosQueFaltan' < PasosQueFaltan /\ PasosQueFaltan' >= 0]_vars

\* Every run ends: it prints the array, or, if only empty lines come, dies of
\* a full stack.  Nothing else keeps the loops of 5.asm from ending.
Termina == <>(pc \in {"fin", "desbordada"})

Abstracto == INSTANCE CaracteresAbstracto
  WITH Turnos <- Limite, recibidos <- leidos, turno <- aceptados

\* The program keeps the promise of its first line: exactly Limite turns, and
\* then the characters entered, sorted and without repetitions (5.asm:1).
ImplementaAbstracto == Abstracto!Spec
=============================================================================
