----------------------------- MODULE NumberKeys -----------------------------
(***************************************************************************)
(* Keys made of numbers (value2key): unsigned words whose order is the     *)
(* order of the floating-point numbers and of the JSON integers they stand *)
(* for, and the way back (key2value).                                      *)
(*                                                                         *)
(* A floating-point number is the word of its bits, as the unions of the   *)
(* code have it: a sign, ExponentSize and MantissaSize bits (11 and 52 in  *)
(* the library, 8 and 23 for a float).  Words are naturals below Words.    *)
(***************************************************************************)
EXTENDS Integers

CONSTANTS MantissaSize, ExponentSize

WordSize == 1 + ExponentSize + MantissaSize
Words    == 2 ^ WordSize
bias     == 2 ^ (WordSize - 1)

EXPONENTA_BIAS == 2 ^ (ExponentSize - 1) - 1
EXPONENTA_MAX  == 2 ^ ExponentSize - 1
IMPLICIT_LEAD  == 2 ^ MantissaSize
MANTISSA_AMAX  == 2 * IMPLICIT_LEAD - 1

INT_MIN == -bias
INT_MAX == bias - 1

-----------------------------------------------------------------------------
(* Floating-point numbers: key2double, double2key and their float forms. *)

double2key(f) == IF f >= bias THEN (Words - 1) - f ELSE f + bias
key2double(k) == IF k >= bias THEN k - bias ELSE (Words - 1) - k

(* mdbx_key_from_int64 is inline in mdbx.h; mdbx_int64_from_key *)
int64_from_key(k) == k - bias

-----------------------------------------------------------------------------
(* JSON integers. *)

(* The number of zero bits above the highest one that is set. *)
clz64(v) == CHOOSE n \in 0..(WordSize - 1) :
              2 ^ (WordSize - 1 - n) <= v /\ v < 2 ^ (WordSize - n)

\* Mutant: a number half-way between two others is rounded up.
round_mantissaUp(v, shift) == (v + 2 ^ (-shift - 1)) \div 2 ^ (-shift)

(* To the nearest one, half-way to the even one. *)
round_mantissa(v, shift) ==
  LET unit     == 2 ^ (-shift)
      tie2even == 1 - ((v \div unit) % 2)
  IN  (v + unit \div 2 - tie2even) \div unit

(* Without its sign, an integer is mantissa * 2 ^ (-shift). *)
Normal(mantissa, shift) == [mantissa |-> mantissa, shift |-> shift]

Normalised(v) ==
  LET shift == clz64(v) - (WordSize - MantissaSize - 1)
      near  == round_mantissa(v, shift)
  IN  IF shift >= 0 THEN Normal(v * 2 ^ shift, shift)
      ELSE IF near <= MANTISSA_AMAX THEN Normal(near, shift)
      ELSE Normal(round_mantissa(v, shift - 1), shift - 1)

Covalent(v) ==
  LET z == Normalised(v)
      exponent == EXPONENTA_BIAS + MantissaSize - z.shift
  IN  exponent * IMPLICIT_LEAD + (z.mantissa - IMPLICIT_LEAD)

(* INT_MIN has no absolute value in C and is no argument. *)
mdbx_key_from_jsonInteger(i) ==
  IF i > 0 THEN bias + Covalent(i) ELSE IF i < 0 THEN bias - 1 - Covalent(-i) ELSE bias

(* The subtraction wraps around for the key of zero. *)
mdbx_jsonInteger_from_key(k) ==
  LET covalent == IF k > bias THEN k - bias ELSE (bias - k - 1) % Words
      exponent == (covalent \div IMPLICIT_LEAD) % (EXPONENTA_MAX + 1)
      shift    == EXPONENTA_BIAS + (WordSize - 1) - exponent
      unscaled == (covalent % IMPLICIT_LEAD) * 2 ^ (WordSize - 1 - MantissaSize) + bias
      absolute == unscaled \div 2 ^ shift
  IN  IF shift < 1 THEN IF k < bias THEN INT_MIN ELSE INT_MAX
      ELSE IF shift > WordSize - 1 THEN 0
      ELSE IF k < bias THEN -absolute ELSE absolute

=============================================================================
