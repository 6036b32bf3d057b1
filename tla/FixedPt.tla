------------------------------ MODULE FixedPt ------------------------------
(***************************************************************************)
(* Fixed-point numbers (fixedptc.h, fixedpt_cpp.cc).  A number is the      *)
(* integer that is stored; products are shifted right (floor), quotients   *)
(* are truncated towards zero.  Results are assumed to fit in the 64 bits  *)
(* of a fixedpt; the products in between have 128.                         *)
(***************************************************************************)
EXTENDS Integers

CONSTANT One  \* FIXEDPT_ONE, the representation of 1: 2^40 in the code

FromInt(i) == i * One

FpMul(x, y) == (x * y) \div One

FpAbs(x) == IF x < 0 THEN -x ELSE x

FpDiv(x, y) ==
  LET q == (FpAbs(x) * One) \div FpAbs(y)
  IN  IF (x < 0) = (y < 0) THEN q ELSE -q

FpMax(x, y) == IF x > y THEN x ELSE y
=============================================================================
