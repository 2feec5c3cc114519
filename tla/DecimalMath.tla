---------------------------- MODULE DecimalMath ----------------------------
(* Decimal arithmetic on scaled integers.  Every amount of a model that     *)
(* extends this module is an integer number of its smallest unit, and a     *)
(* ratio is a pair <<numerator, denominator>>.  The Python code rounds with *)
(* Decimal.quantize(..., rounding=ROUND_HALF_EVEN).                         *)
EXTENDS Integers

\* a / b rounded to the nearest integer, ties to the even one.
HalfEven(a, b) ==
  LET f == a \div b
      r == a % b
  IN  IF \/ 2 * r > b
         \/ 2 * r = b /\ f % 2 = 1
      THEN f + 1
      ELSE f

\* x multiplied by the ratio q and rounded.
Times(x, q) == HalfEven(x * q[1], q[2])

Least(x, y) == IF x < y THEN x ELSE y

Greatest(x, y) == IF x > y THEN x ELSE y

\* max(x, 0): the floor the tax and projection code puts under a difference.
Floor0(x) == Greatest(x, 0)
=============================================================================
