------------------------------- MODULE Dword -------------------------------
(* The machine words of the programs.  The registers and the variables hold  *)
(* dwords: integers modulo WordSize, 2^32 in the programs and smaller in the *)
(* runs.  DIV and the jumps JA, JB and JE take them as they are; JG, JL and  *)
(* printf("%d") as two's complement numbers.                                 *)
EXTENDS Integers

CONSTANT WordSize

ASSUME WordSizeAssumption ==
  WordSize \in Nat /\ WordSize >= 4 /\ WordSize % 2 = 0

Words == 0..WordSize - 1

\* What an ADD, SUB or MUL with result n leaves in a register.
ToWord(n) == n % WordSize

\* The number that a dword stands for when it is signed.
Signed(w) == IF w < WordSize \div 2 THEN w ELSE w - WordSize
=============================================================================
