# TLA+ project for NASM_Final

The repository is nine small programs for the Windows console, written in NASM
assembly for a final examination: each asks for something, works on it and
prints a result. They share no code and no data. What they have in common is
the way they are written, and that is where they can go wrong: all the state is
global, the control flow is made of labels and jumps (a `call` is often left by
a `jmp`), numbers are dwords that some instructions take as signed and others
as unsigned, buffers lie one after another in memory, and what `scanf` and
`gets` return is never looked at.

This project models all nine, one module per program, checks them with TLC and
proves their safety properties with TLAPS: invariants, the refinement of every
abstract specification, and for the seven programs whose loops depend on
more than a counter of their own or on what is typed, a bound on the number of steps.

## 1. Inventory

| Part | Source | State it keeps | Operations | What makes it correct |
|---|---|---|---|---|
| Program 1, prime factors | `src/1/1.asm` | number being divided, three counters, text buffer | copy a text (three loops), read, search for a divisor, count its divisors, restart | product of the factors = N, factors prime and in order, no division by zero, copies inside their section, termination |
| Program 2, even and odd positions | `src/2/2.asm` | line buffer, the byte after it, offset | read, two rounds by twos | both rounds complete, whatever the parity of the length; no byte used beyond the padding after the buffer, and no more than two loaded |
| Program 3, leap year | `src/3/3.asm` | the year | three divisions, two exits | one answer, that of the calendar |
| Program 4, average and sum | `src/4/4.asm` | sums, counters, stack | read, add, divide | sums and counts of what was typed, average with one decimal, bounded stack leak |
| Program 5, sorted characters | `src/5/5.asm` | sorted array, indices, **machine stack** | read, search, find the place, shift through the stack, store, print | sorted, no repetitions, nothing lost, data and return addresses never mixed up |
| Program 5, second version | `src/5/5alt.asm` | array in order of arrival, indices | read, search, store, print | distinct characters, each once; sorted, says its first line, and they are not (section 3) |
| Program 6, Connell sequence | `src/6/6.asm` | row, position in the row, terms printed, last number | next row, next number of the right parity, print | exactly the first N terms |
| Program 7, matrix turned 90° | `src/7/7.asm` | bytes of the matrix, two counters, dword for input and output | two prompts, load, show | every element in its place, bytes as entered |
| Program 8, transpose | `src/8/8.asm` | the same, square | prompt, load, show | the same |
| C runtime (`scanf`, `gets`, `printf`, `exit`) | external | input stream | | modelled from its use: `Consola.tla` |
| MinGW-1.1, PDF, `.exe`, `.obj` | `src/MinGW-1.1/`, ... | | | third-party tools, a document, build products: not modelled |

**Interaction.** The programs do not interact. Each one talks to the user
through the C runtime: one input stream, one output stream. A conversion that
fails leaves the destination as it was. It leaves the text where it was, too, so
that every later conversion fails, but for a sign without a number, which is
consumed. `gets` at end of file leaves the buffer as it was, and the end of
file typed at a console need not be the last of the input. No program checks any of it, so
each one goes on with stale data; the models let every read fail, once or for
good.

What the programs do with a failed read is all that can be shown of it. In the
two versions of program 5 it is harmless: the line taken again is one accepted
already or none at all, and `ArrayFiel` and `OrdenDeAparicion` say so. In
programs 4, 7 and 8 the old number is added or stored again; the histories of
those models take it as entered, so `SumasFieles`, `GiradaPorBytes` and
`TranspuestaPorBytes` show that the program stays in step with it, not that
it is refused: it is not.

**What is hard.** There is no concurrency, nothing is persisted and there are no
timeouts: interleavings, crashes and lost messages do not exist here, and the
hazards in `PROJECT.json` name none. What is hard to test is

* *sequences*: program 5 inserts by saving the tail of the array on the same
  stack as its return addresses; which of its loops run, and how long, depends
  on the order of all earlier characters;
* *stack*: programs 5 and 4 never return from what they call;
* *memory layout*: programs 1, 2 and 5 read past what they wrote;
* *signedness and width*: programs 1, 3, 4, 6, 7 and 8;
* *stale data*: a value overwritten while still needed (1, 7, 8), a failed read
  (all);
* *loops that end by an equality* or by finding something (1, 2, 5, 6).

## 2. Modules

| Module | Stands for | Notes |
|---|---|---|
| `Dword` | dword arithmetic | `WordSize` is 2^32 in the programs |
| `Consola` | `scanf("%d")`, and `gets` as far as the first byte of a line | `entrada` is `"viva"`, while some reads may fail, then `"trabada"` for good |
| `CaracteresAbstracto` | the promise of program 5 | three variables: characters received, turn, output |
| `CaracteresOrdenados` | program 5 | byte array, finite machine stack |
| `CaracteresSinRepetir` | program 5, second version | |
| `FactoresAbstracto` | the promise of program 1 | takes out the least divisor of what is left until that is 1 |
| `Factores` | program 1 | text copies and `.data` layout included |
| `ParesImpares` | program 2 | memory after the buffer included |
| `Bisiesto` | program 3 | |
| `PromedioImpares` | program 4 | stack as a depth |
| `ConnellAbstracto` | the promise of program 6 | the sequence by rows; how numbers add up is a parameter |
| `Connell` | program 6 | |
| `VisorDeMatriz` | the promise of programs 7 and 8 | which rearrangement is a parameter |
| `MatrizGirada`, `MatrizTranspuesta` | programs 7 and 8 | bytes of `matriz` and of the dword shown |
| `MCMatrizGirada`, `MCMatrizTranspuesta` | | the set of sizes typed, for TLC |
| `DwordProofs` | | lemmas that several proofs cite: division, machine words, positions in a table and in the text that shows it |
| `CaracteresOrdenadosProofs`, `FactoresProofs`, `PromedioImparesProofs`, `ConnellProofs`, `MatrizGiradaProofs`, `MatrizTranspuestaProofs` | | the proofs about the module each is named after |
| `ProgramasBrevesProofs` | | the proofs about the three shortest programs: it extends `CaracteresSinRepetir` (5alt) and instantiates `Bisiesto` (3) as `Anio` and `ParesImpares` (2) as `Linea` |

**How a module reads.** `pc` holds the label about to be executed. An action is
one pass of a loop or one basic block: the label's code up to the next label at
which a loop can come back. Nothing can observe the program between two
instructions, so larger steps lose nothing. Variables keep the names of the
source. Registers are state only where they live across a label (`ecx` in
program 5, `ebx` and `edi` where they are the index of a loop); variables that are
written and read in the same block (`resto` in program 1, `restoPromedioDeImpares`
in program 4) or never read (`resultadoLocal`) are not kept. Variables marked
*history* are not in the program: they record what was entered, so that
properties can relate the state to it.

A conditional jump is a disjunct or an action of its own; an operator with the
name of the condition (`RecorridoAgotado`, `CuentaCompleta`, `VaAntes`) holds the
comparison with its signedness. `exit(0)` is `pc = "fin"`; an access violation or
a division fault is a state of its own (`"desbordada"`, `"excepcion"`).
`Acabado` lets the ended process stutter, so that TLC's deadlock check is on in
every run: a program is never stuck at a label.

**Layout read in the shipped executables.** The stack reserve is 2 MB (524288
dwords); `.bss` starts zeroed; `cadena` follows `arrayCaracteres` in program 5,
`caracter` follows `cadena` in program 2; `.data` of program 1 is padded with three
zero bytes and then belongs to the runtime. These are the facts that `Byte` and
`Dato` use.

**Assumption.** A line typed fits the 256 bytes of its buffer; `gets` on longer
lines is undefined behaviour that the models leave out.

## 3. Runs

Passing runs:

| Run | Instance | What it shows |
|---|---|---|
| `caracteres_ordenados` | 5 characters, 5 turns, 35 dwords of stack | every order and repetition of five characters reaches every position of the insertion (front, middle, end, already there); enough empty lines fit to fill the stack. Sorted and complete array, balanced stack, no access outside, overflow only through empty lines, termination, within 4 * `LargoArray` steps per turn and two per dword of stack whatever lines come, and refinement of `CaracteresAbstracto` |
| `caracteres_sin_repetir` | 5 characters, 5 turns (the limit of the code) | every turn can bring a new character, or none; output = distinct characters in order of appearance; an empty line spends a turn and stores nothing; a failed read adds no character |
| `factores` | 8-bit dwords | all 256 values of N: no DIV by zero, factors prime, in order, with product N; the primality test never says no, so that overwriting `numeroPorAnalizar` does no harm; copies stay in the section and the texts come out whole; at most 10N + 11 steps after reading N; refinement of `FactoresAbstracto` |
| `pares_impares` | buffer of 32 bytes | all 32 lengths of a line that fits: full output of both rounds, the one character repeated when the buffer is full, and how far the dword loads go: past the padding of `caracter` only with a full buffer, once and by two bytes |
| `bisiesto` | 12-bit dwords | all 4096 years against the days of the Gregorian calendar, and which negative years can be wrong. 4096 and 2^32 have the same remainder (96) modulo 400, hence also modulo 100 and 4, which is all that the divisions see of the size |
| `promedio_impares` | 7-bit dwords, at most 5 numbers out of 8, stack of 12 dwords | sums and counts modulo the dword, average and decimal; numbers at both ends of the range so that sums wrap and turn negative; an N of 9 overflows the stack |
| `connell` | 6-bit dwords | all 64 values of N: from the 36th term on the numbers wrap, and the sequence must still be right modulo the dword; exactly N terms; refinement of `ConnellAbstracto`, so that the rows are right too and the test at their head never cuts the list short; at most 3N + 4 steps after reading N |
| `matriz_girada`, `matriz_transpuesta` | sizes up to 3, two numbers that differ in both bytes | every matrix, the prompts repeated for refused sizes, and the input jamming anywhere: what is printed, byte by byte, and refinement of `VisorDeMatriz` as far as the low bytes go; in program 7 that once the dimensions are accepted there are at most two steps per element and two more, whatever is typed, and that an input that jams at a prompt leaves it in the prompts for good; in program 8 that it ends once the size is accepted |

Runs that show a disagreement between the code and what the repository says
of it:

| Run | What it shows |
|---|---|
| `caracteres_desordenados` | program 5, second version: its first line promises the characters sorted, it shows them in order of arrival |
| `promedio_negativos` | program 4: the average of odd numbers with a negative sum is that of an unsigned sum |
| `girada_entera` | program 7: elements are kept as one byte each, and shown with the upper bytes of the last one (program 8 does the same) |

One more is part of a property that holds: in program 2 a line of 255 characters,
which fits in the buffer, has one of them printed twice, unlike what `2.asm:1` promises
of every line; `RepiteSoloUno`, in `Subcadenas`, says exactly that.

Other disagreements met while reading, which need no run to be seen: program 5
asks for 15 characters and its second version for 5, not 100 (`5.asm:133`,
`5alt.asm:139`); the comment at
`5alt.asm:154` says that a character is stored when `indice2` is less than or equal to
`indice`, the jump is taken when it is greater, and the program needs the jump; program 1 ends the product in
`x 1`, shows 0 as `0 = 1` and a negative N as the factors of N + 2^32; program 2
shows the odd positions first, unlike its example; the average of program 4 can have
a decimal, its comment says never (`4.asm:216`); programs 7 and 8 refuse a size of
1, their comments say less than 1 (`7.asm:220`, `8.asm:166`).

**Bounds.** Named in the configurations and the same in kind everywhere: the
size of a dword (`WordSize`), of a buffer (`LargoArray`, `LargoCadena`), of the
stack (`PilaMax`), the turns (`Limite`), the numbers that can be typed. The
modules state what the real values have and the small ones must keep:
`WordSize - 1` composite in `Factores` (2^32 - 1 is), remainder 96 modulo 400 in
`Bisiesto`, ten times the stack less than a dword in `PromedioImpares`, room for
the turns in the arrays. No state constraint and no symmetry is used; counters
are bounded by the programs themselves.

**Fairness and termination.** Two runs, those of programs 5 and 8, use `FairSpec`,
which adds `WF_vars(Next)`: the operating system keeps running the process.
Nothing more is assumed; the user may type empty lines for ever in program 5 (the
process then dies of a full stack) or sizes that are refused for ever in
program 8 (its `Termina` starts when the size is accepted).

Programs 1, 4, 5, 6, 7 and 8 and the second version of 5 state a bound on their
steps, `PasosAcotados`, a safety property: it is stronger than termination in that
it counts the steps, and it can be proved. The runs of programs 1, 5, 6 and 7
check it; for the second version of 5, five turns of at most seven steps, for
program 4, one loop with a counter, and for program 8, whose loops are those of
7, it is proved only. With it and with no
state but the last ones without a successor (TLC's deadlock check) a process
that is kept running ends. `ParesImpares` and `Bisiesto` need neither: their output
is bounded by an invariant, every step after the first prints or moves to a
later label, and no state deadlocks.

**Refinements.** Five programs implement an abstract specification, as a
property of their run, and all five refinements are proved (section 4):

* `CaracteresOrdenados` maps the history of what was accepted and the output.
* `MatrizGirada` and `MatrizTranspuesta` map the numbers entered and shown to
  their low bytes, the only part that the array keeps.
* `Factores` has no variable that always holds what is left to factor:
  `numeroPorAnalizar` does while the search goes on, `resultado * contador` is it
  while `saberSiPrimo` has a divisor in its place, `resultado` from the factor
  printed to the next search. The mapping says so case by case, and the run
  shows that each switch keeps the number.
* `Connell` advances its row before the first number of the new row is shown,
  and leaves `contadorTerminos` stale until then; the row and the place in it
  that an observer of the output would count are mapped from that.

**Mutants.** A definition under a comment `Fault:` is what the one after it would
be with a plausible mistake; no action uses it. Each property of each passing
run fails for one of them.

## 4. Proofs

Every theorem is about `Spec`, which has no fairness, and holds for all values of
the constants that satisfy the assumptions of its module. In each module
`Inductivo` states `Spec => []IInv`, and the other theorems follow from it; the
steps of a refinement use it too. Every property that the passing runs check is
proved, but for the `Termina` of programs 5 and 8, which needs fairness.

| Module | Theorems | What they establish |
|---|---|---|
| `CaracteresOrdenadosProofs` (5) | `TypeOKTheorem`, `PilaTheorem`, `ArrayFielTheorem`, `DentroDelArrayTheorem`, `NadaSePierdeTheorem`, `DesbordeTheorem`, `PasosAcotadosTheorem`, `Refinamiento` | PUSH and POP balance; between turns the array is the sorted set of what was accepted; no access leaves it; nothing is lost while its tail is on the stack; the stack overflows only through empty lines; every run ends within a number of steps that depends on the sizes alone; `CaracteresAbstracto` is implemented |
| `ProgramasBrevesProofs` (5alt) | `TypeOKTheorem`, `OrdenDeAparicionTheorem`, `PasosAcotadosTheorem` | the search reads at most one byte beyond those that the turns can have filled; distinct characters in order of appearance; bound on the steps |
| `ProgramasBrevesProofs` (2) | `LineaTypeOKTheorem`, `CargaAcotadaTheorem`, `SubcadenasTheorem` | no byte is used beyond the second of the padding; only one load, of a line that just fits, goes past the padding, by two bytes; both rounds are complete for every length of a line that fits, and one that just fits has one character repeated and nothing worse |
| `ProgramasBrevesProofs` (3) | `AnioTypeOKTheorem`, `CalendarioGregorianoTheorem` | one answer on every path; it is that of the Gregorian calendar, but for the negative years that an unsigned division can get wrong |
| `FactoresProofs` (1) | `TypeOKTheorem`, `DentroDeLaSeccionTheorem`, `TextoFielTheorem`, `PrimerDivisorEsPrimoTheorem`, `FactorizacionCorrectaTheorem`, `PasosAcotadosTheorem`, `ImplementaAbstractoTheorem` | copies stay inside and are whole; the first divisor is prime; no DIV is by zero and the factors are primes in order, with product N; bound on the steps; `FactoresAbstracto` is implemented |
| `PromedioImparesProofs` (4) | `TypeOKTheorem`, `SumasFielesTheorem`, `DesbordeSoloPorMuchosTheorem`, `PromedioCorrectoTheorem`, `PasosAcotadosTheorem` | sums and counts modulo a dword; the stack leak is bounded by N; average and decimal; bound on the steps |
| `ConnellProofs` (6) | `TypeOKTheorem`, `PrefijoConnellTheorem`, `PasosAcotadosTheorem`, `ImplementaAbstractoTheorem` | a prefix of the sequence modulo a dword, of length N at the end; bound on the steps; `ConnellAbstracto` is implemented |
| `MatrizGiradaProofs` (7) | `TypeOKTheorem`, `GiradaPorBytesTheorem`, `TrabadoNoAvanzaTheorem`, `PasosAcotadosTheorem`, `ImplementaVisorTheorem` | storage and display byte by byte; no way out of the prompts once the input jams there; bound on the steps after them; `VisorDeMatriz` is implemented as far as the low bytes go |
| `MatrizTranspuestaProofs` (8) | `TypeOKTheorem`, `TranspuestaPorBytesTheorem`, `PasosAcotadosTheorem`, `ImplementaVisorTheorem` | the same without the second prompt |

### Assumptions

| Module | Assumed | In the code |
|---|---|---|
| `Dword` | a dword has an even number of values, at least 4 | 2^32 |
| `CaracteresOrdenados` | characters are bytes from 1 to 255; `Limite`, `PilaMax` positive; `Limite + 3 <= LargoArray` | 15 turns, 524288 dwords; 18 <= 75 |
| `CaracteresSinRepetir` | the same characters; `Limite < LargoArray` | 5 turns; an array of 75 bytes |
| `Factores` | the greatest dword is composite; `LargoCadena >= 32`, so that the texts and the zeros copied after them fit | 2^32 - 1 = 3 * 5 * 17 * 257 * 65537; 256 bytes |
| `PromedioImpares` | what is typed is a dword; the stack has more than 6 dwords and ten times as many are less than `WordSize` | 524288 dwords |
| `ParesImpares` | the buffer has an even number of bytes, more than one (a hypothesis of its theorems, `LargoPar`) | 256 |
| `Bisiesto` | `WordSize % 400 = 96` (a hypothesis of `CalendarioGregorianoTheorem`) | 2^32 is 96 modulo 400 |
| `MatrizGirada`, `MatrizTranspuesta` | a byte has at least one value (`Base`), numbers entered are naturals, `MaxLado >= 2`, `MaxLado * MaxLado <= LargoMatriz` | 256; dwords; sides up to 10; 100 <= 400 bytes |

Nothing is assumed of what the user types: sizes refused, failed conversions and
reads at end of file are all among the steps.

### The inductive invariants

**Program 5.** `ArrayFiel` speaks of the moments between two turns
and says nothing while a character is being inserted, so it is not inductive.
`IInv` says what each label knows. `Contenido(f, n, S)`: the first n bytes of f
are the set S in increasing order, zeros follow. While searching, the array
is `Contenido` for some n and S with the character in hand aside; while the
place is searched, all bytes before `contadorRecorrer` are smaller than it; while
bytes are being saved, the stack's top is the tail of the array, entry by
entry. The state in the middle of `ubicarTodo` has no simple description of its
own (bytes partly moved), so the invariant describes the array *as it will be*:
`Futuro` is the array once every saved byte is back, and `Contenido(Futuro, n + 1,
leidos)` holds from the moment `preUbicar` stores the new character; each POP
moves one byte from the stack to the array and leaves `Futuro` as it was. The
lemma `Insercion` is the arithmetic of that: a sorted array with a byte put at
its place and the tail one further is sorted.

`InvControl` ties `aceptados` to `contadorCantCaract` at each label, which with
the assumption on `LargoArray` bounds every index. The refinement follows: the
only steps visible to `CaracteresAbstracto` are the acceptance of a character and
the printing, and at the latter `ArrayFiel` says that what `printf` finds before the
first zero byte is the sorted set.

How full the stack is takes an invariant of its own. `DesbordeSoloPorVacias` says
something only of the state in which the process is already dead. `InvPila` bounds
the length of the stack at every label by what the turns before can have left,
`1 + 4n + n(n-1)/2` for n characters, one for each empty line, and what the turn in
course has pushed so far: its return addresses, one more for every character that
the search for the place went past, and the bytes being shifted. The last two
never are more than the characters stored, which is what makes a turn cost
four and that number.

**Program 5, second version.** The array is the first `contador` characters of
`orden` and zeros (`Guardado`); while one is looked for, either it is the last of
`orden` and not stored (`PorGuardar`), or it is none or stored already
(`YaGuardado`), and no byte before `indice2` is equal to it. With that, reaching a
zero byte and reaching the end of the search mean different things, and the
code's one extra comparison (`jg` for `jge`) is seen to be of a zero byte.
`InvBuffer`, here and in program 5, says that the line buffer holds nothing that was
not taken, but for a line just read: it is what makes a failed read harmless.

**Program 1.** Three parts. `InvTextos`: the bytes of a text that the copying loop
has gone past are in the buffer; from it, `TextoFiel` and `DentroDeLaSeccion`
follow by the layout of the three texts. `InvBusqueda`: no number from 2 to
`contador - 1` divides what is left; while a divisor is being tested, it is prime
already (a smaller divisor of it would divide what is left), so `contadorDivisores`
is 1 until the end of the count and 2 there. `InvFactores`: product of the factors
printed times what is left is the number entered (`Restante` says where the program
keeps what is left), and nothing smaller than any of them divides it, which makes
the order. Products go through their own lemmas (`Asociar`, `DivideMultiplo`...).
The assumption on the greatest dword is needed: if that were prime,
`contadorLocal`, counting up to it, would wrap and never pass it.

**Program 4.** Between two numbers everything entered is in the sums (`Contados`);
after a number is read, all but that one is (`PorSumar`), and the counter is one
behind. `pila = contador + 2` ties the leak to the count, so an overflow means that
N is about as large as the stack. `UnSoloImpar` and `DivisionConDecimal` are what the average needs.

**Program 6.** With s rows begun, t terms in the present one and n printed, 2n =
s(s-1) + 2t. Before a row (`EnCabeza`), `ultimoNumero` is the next term, 2n - s + 2,
already; inside it (`EnMedio`) it is that or the number before it, which has the
other parity. Parity is that of the number modulo a dword, hence the even
`WordSize`. The proof never needs that numbers do not wrap. The step of
`ConnellAbstracto` follows, with `Fase` as the row and place an observer counts.

**Program 2.** `edi` moves by two, over a line of n characters, a zero byte and
what lies after it. The invariant relates the offset in each round with how many
characters that round has printed, so that the two rounds are read off the
output alone. The length decides three cases: with n even each round meets the
zero byte or the one after it; with n odd the first round skips the terminator;
and a line that fills the buffer makes the first round one longer, because the
byte after the buffer is `caracter`, which holds the character printed last.
That is also the only case in which the dword of `2.asm:99`, of which one byte is
used, reaches past the padding; what lies there belongs to no variable of the
program and never gets out of the register.

**Program 3.** At each label the invariant says what the divisions so far imply
of the year as an unsigned dword (divisible by 4, not by 100, ...). A negative
year is the year plus `WordSize`, whose remainder modulo 400 is what the
hypothesis gives; from it, those modulo 100 and 4.

**Programs 7 and 8.** `Recorrido` says where the loops are, `InvCarga` and
`InvMuestra` translate that position into the number of elements stored (row times
columns plus column) and of texts printed (one more for each row, the line feed).
`InvUltimo` is the stale state: the upper part of `valorIngresado` is that of the
last number entered, and neither a failed read nor the display, which puts in
its low byte only, changes it. Program 7 needs one more: `InvPedidos`, a number of
columns held at the prompts is one they refuse. Without it `TrabadoNoAvanza` is not
provable, because a jammed input compares that number again and again.

In program 7 the row shown is counted backwards, and `contadorColumnas` ends at
-1; `Renglon` is the row of the screen that it stands for.

### Termination, as far as it is a safety property

`Termina` needs fairness and stays with TLC. What can be proved without it is that
no execution is long: `PasosAcotados` says that every step which is not a stutter
makes `PasosQueFaltan`, a state function, smaller, and that it never is negative;
its lemmas show it action by action, so that no action but `Acabado` is a stutter.
So, for all values of the constants, an execution that takes no more steps has ended
or is not run any more, and none is longer than what `PasosQueFaltan` is at first:
`Limite` * (`Limite` + 2) + 1 steps in the second version of program 5, 2N + 1 after
reading N in program 4 (one if it is negative), 2n² + 2 for
a matrix of n rows in program 8, and for the others the bounds in the table of
section 3. In programs 7 and 8 it speaks of the steps after the prompts, which may
refuse sizes for ever.

The count is lexicographic in substance and written as one number. In program 6 it is
three for each term to print and what can be done before the next one, which
depends on whether the next number has the right parity. In program 1 it
follows what is left to factor: a factor divided out is worth more than starting the
search over costs. Program 5 is the one without a bound on what is typed, and with
the least obvious count: an empty line leads back to the same
label with one return address more on the stack, so the dwords still free are
part of it, and the bytes that `guardarEnPila` pushes, which `ubicarTodo` gives
back, must not be (`Retornos`). It needs one invariant more than `IInv`: the stack
never has more than `PilaMax` dwords (`Cupo`).

## 5. Only model-checked, not modelled

*Only model-checked*: `Termina` of programs 5 and 8, because liveness under
fairness is out of the reach of the proof system, and for the same reason the fact
that every label has a step to take (the deadlock check of every run: it is about
ENABLED). The three runs that expect a violation are not proved: each is a
counterexample.

*Not modelled*: the wording of prompts and messages; `gets` on a line that does
not fit; what the C runtime itself uses of the stack; the display of the
line in program 2 before its two rounds; the variables and routines of
`5alt.asm` that nothing uses. Nothing else of the nine programs is left out.

*Third party*: `src/MinGW-1.1/` (compiler, headers and import libraries as they
were distributed) is more than 95% of the lines under `src/`. It is the tool that
links the programs; none of its headers is included by them, and of its
libraries only `scanf`, `gets`, `printf` and `exit` are called, and those are
modelled from that use. A model of it would say nothing about this repository,
so it is listed as not modelled. Of the nine `.asm` files, 1968 lines with their
comments, data declarations and prompts, the definitions of the project stand
for about 60%; the rest is those comments and prompts, and routines that only
print or that nothing calls.

## 6. Plan

Done: the inventory; all nine programs modelled and checked; abstract
specifications for programs 1, 5, 6, 7 and 8 and their refinements proved; every
safety property of the nine programs proved, a bound on the steps of seven of them
included. The second version of program 5 has no abstract
specification: `OrdenDeAparicion` already says in one line what its output is.

Left: nothing of the programs. A change of one of them begins in its module, whose
run and proof say which properties it breaks.
