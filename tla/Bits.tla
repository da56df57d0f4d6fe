-------------------------------- MODULE Bits --------------------------------
(***************************************************************************)
(* Bitwise operators on integers of any length in two's complement, as the *)
(* rug library has them for Integer.                                       *)
(***************************************************************************)
EXTENDS Integers

Bit(op, a, b) ==
  CASE op = "AND" -> IF a + b = 2 THEN 1 ELSE 0
    [] op = "OR"  -> IF a + b = 0 THEN 0 ELSE 1
    [] op = "XOR" -> IF a = b THEN 0 ELSE 1

(* From the highest bit down; before it every bit is that of the sign.     *)
Bitwise(op, m, n) ==
  LET Abs(k) == IF k < 0 THEN -k ELSE k
      Sign(k) == IF k < 0 THEN 1 ELSE 0
      width == Abs(m) + Abs(n)
      At(k, i) == (k \div 2^i) % 2
      bits[k \in 0 .. width] ==
        IF k = 0 THEN -Bit(op, Sign(m), Sign(n))
        ELSE 2 * bits[k - 1] + Bit(op, At(m, width - k), At(n, width - k))
  IN bits[width]

(* A bit at a time.                                                        *)
ShiftLeft(m, n) ==
  LET shifted[k \in 0 .. n] == IF k = 0 THEN m ELSE 2 * shifted[k - 1]
  IN shifted[n]
ShiftRight(m, n) ==
  LET shifted[k \in 0 .. n] == IF k = 0 THEN m ELSE shifted[k - 1] \div 2
  IN shifted[n]
=============================================================================
