------------------------------ MODULE ValueType ------------------------------
(***************************************************************************)
(* value_t of include/zephyr/drivers/value.h, and the arithmetic of C that *)
(* produces one.                                                           *)
(***************************************************************************)
EXTENDS Integers

CONSTANT ValueMax  \* VALUE_MAX

ASSUME ValueAssumption == ValueMax \in Nat \ {0}

(* The conversion of a wider integer to value_t; a sum in value_t that       *)
(* overflows wraps in the same way.                                          *)
Narrow(x) == ((x + ValueMax + 1) % (2 * (ValueMax + 1))) - (ValueMax + 1)

(* Division of C: towards zero.                                              *)
Quotient(a, b) ==
  LET abs(x) == IF x < 0 THEN -x ELSE x
      q == abs(a) \div abs(b)
  IN IF (a < 0) = (b < 0) THEN q ELSE -q
=============================================================================
