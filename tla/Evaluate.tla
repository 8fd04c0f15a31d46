------------------------------ MODULE Evaluate ------------------------------
(***************************************************************************)
(* evaluate_operator (src/src/middlend/evaluate.cpp): the value of an      *)
(* operator with two constant operands, in an int of Width bits.  A sum    *)
(* that does not fit wraps around: the sanitizer the program is built with *)
(* reports it and goes on.                                                 *)
(*                                                                         *)
(* pown comes from a library that is not in the repository, and its result *)
(* is cast to int.  The model takes it for a power of ints that wraps      *)
(* around like a product, with exponents that are not negative.  A square  *)
(* root is never evaluated: its right operand is missing, which is noticed *)
(* first.                                                                  *)
(***************************************************************************)
EXTENDS Integers

CONSTANT Width

Pow2 == 2 ^ Width

(* The int whose lowest Width bits are those of n. *)
Word(n) == ((n + Pow2 \div 2) % Pow2) - Pow2 \div 2

Flag(b) == IF b THEN 1 ELSE 0

(* Its bits, and the number that has the given ones. *)
Bit(n, k) == (n \div 2^k) % 2
OfBits(bits) ==
    LET sum[k \in 0..Width] == IF k = 0 THEN 0 ELSE sum[k - 1] + bits[k - 1] * 2^(k - 1)
    IN  Word(sum[Width])

Abs(n) == IF n < 0 THEN -n ELSE n

(* Division of ints truncates towards zero. *)
Quotient(a, b) ==
    IF (a < 0) = (b < 0) THEN Abs(a) \div Abs(b) ELSE -(Abs(a) \div Abs(b))

(* What ends the process instead of giving a value: a machine traps where  *)
(* it is to divide by zero, and also where the quotient does not fit.      *)
Traps(op, a, b) == op = "/" /\ (b = 0 \/ Quotient(a, b) # Word(Quotient(a, b)))

Computed(op, a, b) ==
    CASE op = "+" -> Word(a + b)
      [] op = "-" -> Word(a - b)
      [] op = "*" -> Word(a * b)
      [] op = "/" -> Quotient(a, b)
      [] op = "^" -> Word(a ^ b)
      [] op = "|" -> OfBits([k \in 0 .. Width - 1 |-> Flag(1 \in {Bit(a, k), Bit(b, k)})])
      [] op = "&" -> OfBits([k \in 0 .. Width - 1 |-> Bit(a, k) * Bit(b, k)])
      [] op = "==" -> Flag(a = b)
      [] op = "!=" -> Flag(a # b)
      [] op = ">" -> Flag(a > b)
      [] op = "<" -> Flag(a < b)
      [] op = ">=" -> Flag(a >= b)
      [] op = "<=" -> Flag(a <= b)
=============================================================================
