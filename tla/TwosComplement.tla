--------------------------- MODULE TwosComplement ---------------------------
(***************************************************************************)
(* Integers of a fixed width, as C and Java both represent them.  A width  *)
(* is given by the number of values it has room for, 2 ^ w for w bits: all *)
(* that matters is that it is even and, of a larger type, a multiple.      *)
(***************************************************************************)
EXTENDS Integers

Unsigned(width, n) == n % width

Signed(width, n) == LET u == Unsigned(width, n)
                    IN  IF 2 * u >= width THEN u - width ELSE u

SignedRange(width) == -(width \div 2) .. width \div 2 - 1

(* Division of both languages: towards zero.                               *)
Quotient(a, b) == LET abs(n) == IF n < 0 THEN -n ELSE n
                      q == abs(a) \div abs(b)
                  IN  IF (a < 0) = (b < 0) THEN q ELSE -q
=============================================================================
