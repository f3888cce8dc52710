--------------------------- MODULE SaturationMath ---------------------------
(***************************************************************************)
(* impl/utilities/SaturationMath.hpp: arithmetic on integer types that     *)
(* stops at the limits.  An integer type is its sign and half the number   *)
(* of its values, which also orders the types by size.                     *)
(***************************************************************************)
EXTENDS Integers

IntegerTypes(halves) == [signed : BOOLEAN, half : halves]

MinOf(type) == IF type.signed THEN -type.half ELSE 0
MaxOf(type) == IF type.signed THEN type.half - 1 ELSE 2 * type.half - 1
ValuesOf(type) == MinOf(type)..MaxOf(type)

\* A conversion takes the value modulo the number of values of the type.
StaticCast(type, value) == ((value - MinOf(type)) % (2 * type.half)) + MinOf(type)

WillAddOverflow(type, a, b) == a + b \notin ValuesOf(type)
WillMultiplyOverflow(type, a, b) == a * b \notin ValuesOf(type)

-----------------------------------------------------------------------------
(* The comparisons are made in the source type, so each limit of the       *)
(* target is converted to it first.  A limit that does not fit is not      *)
(* compared at all.                                                        *)

\* The source has values below or above those of the target.
TestsMinimum(target, source) ==
  source.signed /\ (~target.signed \/ target.half < source.half)
TestsMaximum(target, source) ==
  \/ target.half < source.half
  \/ target.half = source.half /\ target.signed /\ ~source.signed

IsBelow(target, source, value) ==
  TestsMinimum(target, source) /\ value < StaticCast(source, MinOf(target))
IsAbove(target, source, value) ==
  TestsMaximum(target, source) /\ value > StaticCast(source, MaxOf(target))

SaturatingCast(target, source, value) ==
  IF target = source THEN value
  ELSE IF IsBelow(target, source, value) THEN MinOf(target)
  ELSE IF IsAbove(target, source, value) THEN MaxOf(target)
  ELSE StaticCast(target, value)

WillSaturatingCastOverflow(target, source, value) ==
  IsBelow(target, source, value) \/ IsAbove(target, source, value)

-----------------------------------------------------------------------------
(* The reference: the nearest value of the target type.                    *)
Nearest(type, value) ==
  IF value < MinOf(type) THEN MinOf(type)
  ELSE IF value > MaxOf(type) THEN MaxOf(type) ELSE value
=============================================================================
