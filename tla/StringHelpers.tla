----------------------------- MODULE StringHelpers -----------------------------
(***************************************************************************)
(* src/src/core/utility.cpp on strings as sequences of characters.         *)
(***************************************************************************)
EXTENDS Integers, SequencesExt

StrTrimLosingLast(str, chars) ==    \* slip: str_end is taken for a length
    LET str_start == Min({i \in 0 .. Len(str) : i < Len(str) => str[i + 1] \notin chars})
        rest      == SubSeq(str, str_start + 1, Len(str))
        str_end   == Max({i \in 0 .. Len(rest) - 1 : i > 0 => rest[i + 1] \notin chars})
    IN  IF rest = <<>> THEN rest ELSE SubSeq(rest, 1, str_end)

\* The first loop stops at the first character to keep, or at the end; the
\* second at the last one to keep, or at index 0.
StrTrim(str, chars) ==
    LET str_start == Min({i \in 0 .. Len(str) : i < Len(str) => str[i + 1] \notin chars})
        rest      == SubSeq(str, str_start + 1, Len(str))
        str_end   == Max({i \in 0 .. Len(rest) - 1 : i > 0 => rest[i + 1] \notin chars})
    IN  IF rest = <<>> THEN rest ELSE SubSeq(rest, 1, str_end + 1)

StrMatchLenCutting(str, target_len, padding) ==     \* slip: to exactly target_len
    [i \in 1 .. target_len |-> IF i <= Len(str) THEN str[i] ELSE padding]

StrMatchLen(str, target_len, padding) ==
    str \o [i \in 1 .. target_len - Len(str) |-> padding]
===============================================================================
