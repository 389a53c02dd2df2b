------------------------------ MODULE Conversions ------------------------------
(***************************************************************************)
(* The checked conversions between integer types                           *)
(* (src/include/core/convert.h).  A type is the range of its values, as    *)
(* many above and below zero as two's complement has.                      *)
(***************************************************************************)
EXTENDS Integers

Unsigned(size) == [low |-> 0, high |-> size - 1]
Signed(half)   == [low |-> -half, high |-> half - 1]

\* The integer types; those of w bits are Unsigned(2^w) and Signed(2^(w - 1)).
IntegerTypes == {Unsigned(2 * half) : half \in Nat \ {0}} \cup {Signed(half) : half \in Nat \ {0}}

Values(type) == type.low .. type.high

IsSigned(type) == type.low < 0

\* static_cast wraps around.
LossyCast(target, val) ==
    target.low + ((val - target.low) % (target.high - target.low + 1))

SafeCastUnsigned(target, original, val) ==      \* slip: the signs are not compared
    LET cast_val == LossyCast(target, val)
    IN  [val |-> cast_val, asserts |-> LossyCast(original, cast_val) # val]

\* Casting there and back must give val; between types of different
\* signedness it may do so with another sign.
SafeCast(target, original, val) ==
    LET cast_val == LossyCast(target, val)
    IN  [val     |-> cast_val,
         asserts |-> \/ LossyCast(original, cast_val) # val
                     \/ /\ IsSigned(target) # IsSigned(original)
                        /\ (cast_val < 0) # (val < 0)]
===============================================================================
