------------------------------- MODULE Words -------------------------------
(***************************************************************************)
(* Hardware words.  A WordBits-bit word is the set of the positions of its *)
(* 1 bits, so AND is intersection, OR is union and a shift moves positions.*)
(***************************************************************************)
EXTENDS Integers

CONSTANT WordBits    \* bits of an event, a key and a mask: 32 in the hardware

ASSUME WordBitsAssumption == WordBits \in Nat \ {0}

Bit  == 0 .. WordBits - 1
Word == SUBSET Bit

ShiftRight(w, n) == {b \in Bit : b + n \in w}
ShiftLeft(w, n)  == {b \in Bit : b - n \in w}

(* a > b as unsigned numbers: the highest bit in which they differ is in a *)
Exceeds(a, b) == \E i \in a \ b : \A j \in b \ a : j < i

============================================================================
