-------------------------------- MODULE Words --------------------------------
(***************************************************************************)
(* The arithmetic of ethereum/vm.py (elif chain of vm_execute, opcodes     *)
(* 0x01 to 0x1a) on words of WordBytes bytes of ByteBits bits each; the    *)
(* code has 32 bytes of 8 bits.  The first operand is the top of the stack.*)
(***************************************************************************)
EXTENDS Integers, Bitwise

CONSTANTS ByteBits, WordBytes

ASSUME WordAssumption == ByteBits \in Nat \ {0} /\ WordBytes \in Nat \ {0}

ByteBase == 2 ^ ByteBits
WordBits == ByteBits * WordBytes
TT256 == 2 ^ WordBits
TT255 == 2 ^ (WordBits - 1)
Word == 0 .. TT256 - 1

to_signed(i) == IF i < TT255 THEN i ELSE i - TT256

Abs(i) == IF i < 0 THEN -i ELSE i
Sign(b) == IF b THEN -1 ELSE 1
Truth(b) == IF b THEN 1 ELSE 0

Power[base \in Int, exponent \in Nat] ==
  IF exponent = 0 THEN 1 % TT256 ELSE (base * Power[base, exponent - 1]) % TT256

\* SIGNEXTEND
\* Wrong: the sign is taken from the lowest bit of the byte.
SignExtendedLow(s0, s1) ==
  LET testbit == 2 ^ (s0 * ByteBits)
  IN IF s0 >= WordBytes THEN s1
     ELSE IF (s1 \div testbit) % 2 = 1 THEN s1 | (TT256 - testbit)
     ELSE s1 & (testbit - 1)
SignExtended(s0, s1) ==
  LET testbit == 2 ^ (s0 * ByteBits + ByteBits - 1)
  IN IF s0 >= WordBytes THEN s1
     ELSE IF (s1 \div testbit) % 2 = 1 THEN s1 | (TT256 - testbit)
     ELSE s1 & (testbit - 1)

\* Opcodes below 0x10 but for STOP and the gas of EXP.
Arithmetic(op, s0, s1, s2) ==
  CASE op = "ADD" -> (s0 + s1) % TT256
    [] op = "SUB" -> (s0 - s1) % TT256
    [] op = "MUL" -> (s0 * s1) % TT256
    [] op = "DIV" -> IF s1 = 0 THEN 0 ELSE s0 \div s1
    [] op = "MOD" -> IF s1 = 0 THEN 0 ELSE s0 % s1
    [] op = "SDIV" ->
         LET n == to_signed(s0)  d == to_signed(s1)
         IN IF d = 0 THEN 0 ELSE ((Abs(n) \div Abs(d)) * Sign(n * d < 0)) % TT256
    [] op = "SMOD" ->
         LET n == to_signed(s0)  d == to_signed(s1)
         IN IF d = 0 THEN 0 ELSE ((Abs(n) % Abs(d)) * Sign(n < 0)) % TT256
    [] op = "ADDMOD" -> IF s2 = 0 THEN 0 ELSE (s0 + s1) % s2
    [] op = "MULMOD" -> IF s2 = 0 THEN 0 ELSE (s0 * s1) % s2
    [] op = "EXP" -> Power[s0, s1]
    [] op = "SIGNEXTEND" -> SignExtended(s0, s1)

\* Opcodes 0x10 to 0x1a.
Comparison(op, s0, s1) ==
  CASE op = "LT" -> Truth(s0 < s1)
    [] op = "GT" -> Truth(s0 > s1)
    [] op = "SLT" -> Truth(to_signed(s0) < to_signed(s1))
    [] op = "SGT" -> Truth(to_signed(s0) > to_signed(s1))
    [] op = "EQ" -> Truth(s0 = s1)
    [] op = "ISZERO" -> Truth(s0 = 0)
    [] op = "AND" -> s0 & s1
    [] op = "OR" -> s0 | s1
    [] op = "XOR" -> s0 ^^ s1
    [] op = "NOT" -> TT256 - 1 - s0
    [] op = "BYTE" -> IF s0 >= WordBytes THEN 0
                      ELSE (s1 \div ByteBase ^ (WordBytes - 1 - s0)) % ByteBase
==============================================================================
