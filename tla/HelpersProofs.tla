----------------------------- MODULE HelpersProofs -----------------------------
(***************************************************************************)
(* The pure functions, for every input: integer types of any size, strings *)
(* and paths of any length, sweeps of any number of connections.  The      *)
(* facts about least and greatest elements that the loops of the source    *)
(* come down to follow from the well-foundedness of < on Nat.  The sweep   *)
(* has a loop invariant; the other calls are exact in a single step.       *)
(***************************************************************************)
EXTENDS Helpers, SequenceTheorems, WellFoundedInduction, TLAPS

\* A type has its two ends on either side of zero, the lower one at zero or as
\* far away as two's complement has it.
LEMMA TypeRange ==
  ASSUME NEW type \in IntegerTypes
  PROVE  /\ type.low \in Int /\ type.high \in Int
         /\ type.low <= 0 /\ type.high >= 0
         /\ IF IsSigned(type) THEN type.low = -type.high - 1 ELSE type.low = 0
<1>1. CASE \E half \in Nat \ {0} : type = Unsigned(2 * half)
  BY <1>1 DEF Unsigned, IsSigned
<1>2. CASE \E half \in Nat \ {0} : type = Signed(half)
  BY <1>2 DEF Signed, IsSigned
<1>3. QED BY <1>1, <1>2 DEF IntegerTypes

LEMMA Remainder ==
  ASSUME NEW x \in Int, NEW n \in Nat \ {0}
  PROVE  x % n \in 0 .. n - 1 /\ (x \in 0 .. n - 1 => x % n = x)
<1>1. x % n \in 0 .. n - 1
  OBVIOUS
<1>2. x \in 0 .. n - 1 => x % n = x
  OBVIOUS
<1>3. QED BY <1>1, <1>2

\* static_cast gives a value of the type, and one that the type has unchanged.
LEMMA CastInRange ==
  ASSUME NEW type \in IntegerTypes, NEW v \in Int
  PROVE  /\ LossyCast(type, v) \in Values(type)
         /\ v \in Values(type) => LossyCast(type, v) = v
<1> DEFINE n == type.high - type.low + 1
           x == v - type.low
<1>1. type.low \in Int /\ type.high \in Int /\ n \in Nat \ {0} /\ x \in Int
  BY TypeRange
<1>2. x % n \in 0 .. n - 1 /\ (x \in 0 .. n - 1 => x % n = x)
  BY <1>1, Remainder
<1>3. LossyCast(type, v) = type.low + (x % n)
  BY DEF LossyCast
<1>4. x % n \in Int
  BY <1>2
<1> HIDE DEF n, x
<1>5. n = type.high - type.low + 1 /\ x = v - type.low
  BY DEF n, x
<1>6. QED BY <1>1, <1>2, <1>3, <1>4, <1>5 DEF Values

\* A value that the other type lacks, and gives back with its sign kept, is
\* one that the first type has room for.
LEMMA WiderType ==
  ASSUME NEW target \in IntegerTypes, NEW original \in IntegerTypes,
         NEW val \in Values(original), NEW c \in Values(target),
         c \notin Values(original),
         IsSigned(target) # IsSigned(original) => ((c < 0) <=> (val < 0))
  PROVE  val \in Values(target)
<1>1. val \in Int /\ c \in Int
  BY TypeRange DEF Values
<1>2. target.low <= c /\ c <= target.high /\ original.low <= val /\ val <= original.high
  BY TypeRange DEF Values
<1>3. c < original.low \/ c > original.high
  BY <1>1, TypeRange DEF Values
<1>4. QED BY <1>1, <1>2, <1>3, TypeRange DEF Values, IsSigned

\* SafeCast is exact: its assertion fails just when the target type does not
\* have the value, and otherwise it gives the value unchanged; for every pair
\* of integer types of any size, whatever their signedness.
THEOREM SafeCastExact ==
  ASSUME NEW target \in IntegerTypes, NEW original \in IntegerTypes, NEW val \in Values(original)
  PROVE  LET cast == SafeCast(target, original, val)
         IN  /\ cast.asserts <=> val \notin Values(target)
             /\ ~cast.asserts => cast.val = val
<1> DEFINE c    == LossyCast(target, val)
           back == LossyCast(original, c)
           flip == IsSigned(target) # IsSigned(original) /\ (c < 0) # (val < 0)
<1>1. val \in Int
  BY TypeRange DEF Values
<1>2. c \in Values(target) /\ (val \in Values(target) => c = val)
  BY <1>1, CastInRange
<1>3. c \in Int
  BY <1>2, TypeRange DEF Values
<1>4. c \in Values(original) => back = c
  BY <1>3, CastInRange
<1>5. (c \notin Values(original) /\ ~flip) => val \in Values(target)
  BY <1>2, WiderType
<1>6. SafeCast(target, original, val) = [val |-> c, asserts |-> (back # val \/ flip)]
  BY DEF SafeCast
<1> HIDE DEF c, back, flip
<1>7. ASSUME val \in Values(target)
      PROVE  ~(back # val \/ flip) /\ c = val
  <2>1. c = val /\ back = val
    BY <1>2, <1>4, <1>7
  <2>2. ~flip
    BY <2>1 DEF flip
  <2>3. QED BY <2>1, <2>2
<1>8. ASSUME val \notin Values(target)
      PROVE  back # val \/ flip
  <2>1. CASE c \in Values(original)
    BY <2>1, <1>2, <1>4, <1>8
  <2>2. CASE c \notin Values(original)
    BY <2>2, <1>5, <1>8
  <2>3. QED BY <2>1, <2>2
<1> DEFINE cast == SafeCast(target, original, val)
<1>9. cast.asserts = (back # val \/ flip)
  BY <1>6
<1>10. cast.val = c
  BY <1>6
<1>11. ~cast.asserts => cast.val = val
  BY <1>7, <1>8, <1>9, <1>10
<1>12. cast.asserts <=> val \notin Values(target)
  BY <1>7, <1>8, <1>9
<1>13. QED BY <1>11, <1>12, Zenon

-------------------------------------------------------------------------------
(***************************************************************************)
(* Least and greatest elements, from the well-foundedness of < on Nat.     *)
(***************************************************************************)
LEMMA LeastElement ==
  ASSUME NEW T \in SUBSET Nat, T # {}
  PROVE  \E x \in T : \A y \in T : x <= y
<1> DEFINE R == OpToRel(<, Nat)
<1>1. IsWellFoundedOn(R, Nat)
  BY NatLessThanWellFounded
<1> HIDE DEF R
<1>2. PICK x \in T : \A y \in T : <<y, x>> \notin R
  BY <1>1, WFMin
<1>3. ASSUME NEW y \in T PROVE x <= y
  <2>1. <<y, x>> \notin OpToRel(<, Nat)
    BY <1>2 DEF R
  <2>2. ~(y < x)
    BY <2>1 DEF OpToRel
  <2>3. QED BY <2>2
<1>4. QED BY <1>3

LEMMA MinOfNats ==
  ASSUME NEW T \in SUBSET Nat, T # {}
  PROVE  Min(T) \in T /\ \A y \in T : Min(T) <= y
BY LeastElement DEF Min

LEMMA MaxBelow ==
  ASSUME NEW n \in Nat, NEW T \in SUBSET (0 .. n), T # {}
  PROVE  Max(T) \in T /\ \A y \in T : y <= Max(T)
<1> DEFINE D == {d \in Nat : n - d \in T}
<1>1. D \in SUBSET Nat /\ D # {}
  <2>1. PICK i \in T : TRUE
    OBVIOUS
  <2>2. n - i \in D
    BY <2>1
  <2>3. QED BY <2>2
<1>2. PICK d \in D : \A e \in D : d <= e
  BY <1>1, LeastElement
<1>3. ASSUME NEW y \in T PROVE n - d >= y
  <2>1. n - y \in D
    OBVIOUS
  <2>2. d <= n - y
    BY <1>2, <2>1
  <2>3. QED BY <2>2
<1>4. n - d \in T
  BY <1>2
<1>5. QED BY <1>3, <1>4 DEF Max

-------------------------------------------------------------------------------
(***************************************************************************)
(* Sequences.                                                              *)
(***************************************************************************)
\* A part of a sequence.
LEMMA Part ==
  ASSUME NEW S, NEW s \in Seq(S), NEW m \in 1 .. Len(s) + 1, NEW n \in 0 .. Len(s), m <= n + 1
  PROVE  /\ SubSeq(s, m, n) \in Seq(S)
         /\ Len(SubSeq(s, m, n)) = n - m + 1
         /\ \A i \in 1 .. n - m + 1 : SubSeq(s, m, n)[i] = s[m + i - 1]
<1>1. Len(s) \in Nat /\ \A i \in m .. n : s[i] \in S
  BY LenProperties, ElementOfSeq
<1>2. m \in Int /\ n \in Int
  BY <1>1
<1>3. /\ SubSeq(s, m, n) \in Seq(S)
      /\ Len(SubSeq(s, m, n)) = IF m <= n THEN n - m + 1 ELSE 0
      /\ \A i \in 1 .. n - m + 1 : SubSeq(s, m, n)[i] = s[m + i - 1]
  BY <1>1, <1>2, SubSeqProperties
<1>4. QED BY <1>1, <1>2, <1>3

LEMMA BoundedAreSeqs ==
  ASSUME NEW S, NEW n \in Nat, NEW s \in BoundedSeq(S, n)
  PROVE  s \in Seq(S)
BY DEF BoundedSeq, SeqOf

-------------------------------------------------------------------------------
(***************************************************************************)
(* Paths.                                                                  *)
(***************************************************************************)
LEMMA LastSlash ==
  ASSUME NEW S, NEW d \in Seq(S)
  PROVE  \E m \in 0 .. Len(d) :
            /\ ExecutingDirectory(d) = SubSeq(d, 1, m)
            /\ \A k \in m + 2 .. Len(d) : d[k] # Slash
            /\ (\E k \in 1 .. Len(d) : d[k] = Slash) => m < Len(d) /\ d[m + 1] = Slash
            /\ ~(\E k \in 1 .. Len(d) : d[k] = Slash) => m = 0
<1> DEFINE slashes == {k \in 0 .. Len(d) - 1 : d[k + 1] = Slash}
           m == Max(slashes \cup {0})
<1>1. Len(d) \in Nat
  BY LenProperties
<1>2. slashes \cup {0} \in SUBSET (0 .. Len(d)) /\ slashes \cup {0} # {}
  BY <1>1
<1>3. m \in slashes \cup {0} /\ \A y \in slashes \cup {0} : y <= m
  BY <1>1, <1>2, MaxBelow
<1>4. ExecutingDirectory(d) = SubSeq(d, 1, m)
  BY DEF ExecutingDirectory
<1> HIDE DEF m
<1>5. m \in 0 .. Len(d)
  BY <1>2, <1>3
<1>6. ASSUME NEW k \in m + 2 .. Len(d), d[k] = Slash PROVE FALSE
  <2>1. k - 1 \in slashes
    BY <1>1, <1>5, <1>6
  <2>2. QED BY <1>1, <1>3, <1>5, <2>1
<1>7. ASSUME NEW k \in 1 .. Len(d), d[k] = Slash PROVE m < Len(d) /\ d[m + 1] = Slash
  <2>1. k - 1 \in slashes /\ (k - 1) + 1 = k
    BY <1>1, <1>7
  <2>2. CASE m \in slashes
    BY <1>1, <2>2
  <2>3. CASE m \notin slashes
    <3>1. m = 0 /\ k - 1 <= 0
      BY <1>3, <2>1, <2>3
    <3>2. QED BY <1>1, <2>1, <2>3, <3>1
  <2>4. QED BY <2>2, <2>3
<1>8. ASSUME ~(\E k \in 1 .. Len(d) : d[k] = Slash) PROVE m = 0
  <2>1. slashes = {}
    BY <1>1, <1>8
  <2>2. QED BY <1>3, <2>1
<1>9. QED BY <1>4, <1>5, <1>6, <1>7, <1>8

\* The directory of what lies in a directory, directly, is the directory.
LEMMA DirectoryOf ==
  ASSUME NEW S, Slash \in S, NEW d \in Seq(S), NEW name \in Seq(S),
         \A k \in 1 .. Len(name) : name[k] # Slash
  PROVE  ExecutingDirectory(Append(d, Slash) \o name) = d
<1> DEFINE p == Append(d, Slash) \o name
<1>1. /\ Append(d, Slash) \in Seq(S) /\ Len(Append(d, Slash)) = Len(d) + 1
      /\ \A i \in 1 .. Len(d) : Append(d, Slash)[i] = d[i]
      /\ Append(d, Slash)[Len(d) + 1] = Slash
  BY AppendProperties
<1>2. Len(d) \in Nat /\ Len(name) \in Nat
  BY LenProperties
<1>3. /\ p \in Seq(S) /\ Len(p) = Len(d) + 1 + Len(name)
      /\ \A i \in 1 .. Len(d) + 1 + Len(name) :
            p[i] = IF i <= Len(d) + 1 THEN Append(d, Slash)[i] ELSE name[i - (Len(d) + 1)]
  BY <1>1, ConcatProperties
<1> HIDE DEF p
<1>4. p[Len(d) + 1] = Slash /\ \A k \in Len(d) + 2 .. Len(p) : p[k] # Slash
  BY <1>1, <1>2, <1>3
<1>5. PICK m \in 0 .. Len(p) : /\ ExecutingDirectory(p) = SubSeq(p, 1, m)
                               /\ \A k \in m + 2 .. Len(p) : p[k] # Slash
                               /\ (\E k \in 1 .. Len(p) : p[k] = Slash) => m < Len(p) /\ p[m + 1] = Slash
  BY <1>3, LastSlash
<1>6. m = Len(d)
  <2>1. Len(d) + 1 \in 1 .. Len(p)
    BY <1>2, <1>3
  <2>2. m < Len(p) /\ p[m + 1] = Slash
    BY <1>4, <1>5, <2>1
  <2>3. m <= Len(d)
    BY <1>2, <1>3, <1>4, <2>2
  <2>4. Len(d) + 1 <= m + 1
    BY <1>2, <1>3, <1>4, <1>5, <2>1
  <2>5. QED BY <1>2, <2>3, <2>4
<1>7. /\ SubSeq(p, 1, m) \in Seq(S) /\ Len(SubSeq(p, 1, m)) = m
      /\ \A i \in 1 .. m : SubSeq(p, 1, m)[i] = p[i]
  <2>1. 1 \in 1 .. Len(p) + 1 /\ m \in 0 .. Len(p) /\ 1 <= m + 1
    BY <1>2, <1>3
  <2>2. QED BY <1>2, <1>3, <1>6, <2>1, Part
<1>8. SubSeq(p, 1, m) = d
  BY <1>1, <1>2, <1>3, <1>6, <1>7, SeqEqual
<1>9. QED BY <1>5, <1>8 DEF p

LEMMA PrefixOf ==
  ASSUME NEW S, NEW s \in Seq(S), NEW t \in Seq(S), Len(s) <= Len(t),
         \A i \in 1 .. Len(s) : s[i] = t[i]
  PROVE  IsPrefix(s, t)
<1>1. Len(s) \in Nat /\ Len(t) \in Nat
  BY LenProperties
<1>2. 1 \in 1 .. Len(s) + 1 /\ 1 \in 1 .. Len(t) + 1 /\ Len(s) \in 0 .. Len(s)
      /\ Len(s) \in 0 .. Len(t) /\ 1 <= Len(s) + 1
  BY <1>1
<1>3. /\ SubSeq(s, 1, Len(s)) \in Seq(S) /\ Len(SubSeq(s, 1, Len(s))) = Len(s)
      /\ \A i \in 1 .. Len(s) : SubSeq(s, 1, Len(s))[i] = s[i]
  BY <1>1, <1>2, Part
<1>4. /\ SubSeq(t, 1, Len(s)) \in Seq(S) /\ Len(SubSeq(t, 1, Len(s))) = Len(s)
      /\ \A i \in 1 .. Len(s) : SubSeq(t, 1, Len(s))[i] = t[i]
  BY <1>1, <1>2, Part
<1>5. SubSeq(s, 1, Len(s)) = SubSeq(t, 1, Len(s))
  BY <1>1, <1>3, <1>4, SeqEqual
<1>6. QED BY <1>5 DEF IsPrefix

\* A file's name replaces what follows the last slash.
LEMMA ResolvedBeside ==
  ASSUME NEW S, Slash \in S, NEW file \in S, NEW argv0 \in Seq(S),
         \E i \in 1 .. Len(argv0) : argv0[i] = Slash
  PROVE  LET resolved == ResolvePath(ExecutingDirectory(argv0), <<file>>)
         IN  /\ IsPrefix(SubSeq(resolved, 1, Len(resolved) - 1), argv0)
             /\ \A i \in Len(resolved) .. Len(argv0) : argv0[i] # Slash
<1> DEFINE ed       == ExecutingDirectory(argv0)
           resolved == ResolvePath(ed, <<file>>)
           start    == SubSeq(resolved, 1, Len(resolved) - 1)
<1>1. PICK m \in 0 .. Len(argv0) :
         /\ ed = SubSeq(argv0, 1, m)
         /\ \A k \in m + 2 .. Len(argv0) : argv0[k] # Slash
         /\ m < Len(argv0) /\ argv0[m + 1] = Slash
  BY LastSlash
<1>2. Len(argv0) \in Nat /\ m \in Nat
  BY LenProperties
<1>3. /\ ed \in Seq(S) /\ Len(ed) = m
      /\ \A i \in 1 .. m : ed[i] = argv0[i]
  <2>1. 1 \in 1 .. Len(argv0) + 1 /\ 1 <= m + 1
    BY <1>2
  <2>2. QED BY <1>1, <1>2, <2>1, Part
<1> HIDE DEF ed
<1>4. /\ Append(ed, Slash) \in Seq(S) /\ Len(Append(ed, Slash)) = m + 1
      /\ \A i \in 1 .. m : Append(ed, Slash)[i] = ed[i]
      /\ Append(ed, Slash)[m + 1] = Slash
  BY <1>3, AppendProperties
<1>5. <<file>> \in Seq(S) /\ Len(<<file>>) = 1
  OBVIOUS
<1>6. /\ resolved \in Seq(S) /\ Len(resolved) = m + 2
      /\ \A i \in 1 .. m + 1 : resolved[i] = Append(ed, Slash)[i]
  <2>1. resolved = Append(ed, Slash) \o <<file>>
    BY DEF ResolvePath
  <2> HIDE DEF resolved
  <2>2. /\ resolved \in Seq(S) /\ Len(resolved) = (m + 1) + 1
        /\ \A i \in 1 .. (m + 1) + 1 : resolved[i] = IF i <= m + 1 THEN Append(ed, Slash)[i]
                                                                     ELSE <<file>>[i - (m + 1)]
    BY <1>4, <1>5, <2>1, ConcatProperties
  <2>3. (m + 1) + 1 = m + 2 /\ \A i \in 1 .. m + 1 : i \in 1 .. (m + 1) + 1 /\ i <= m + 1
    BY <1>2
  <2>4. QED BY <2>2, <2>3
<1>7. \A i \in 1 .. m + 1 : resolved[i] = argv0[i]
  BY <1>1, <1>2, <1>3, <1>4, <1>6
<1> HIDE DEF resolved
<1>8. /\ start \in Seq(S) /\ Len(start) = m + 1
      /\ \A i \in 1 .. m + 1 : start[i] = resolved[i]
  <2>1. 1 \in 1 .. Len(resolved) + 1 /\ Len(resolved) - 1 \in 0 .. Len(resolved) /\ 1 <= Len(resolved)
        /\ Len(resolved) - 1 = m + 1
    BY <1>2, <1>6
  <2>2. /\ SubSeq(resolved, 1, m + 1) \in Seq(S) /\ Len(SubSeq(resolved, 1, m + 1)) = m + 1
        /\ \A i \in 1 .. m + 1 : SubSeq(resolved, 1, m + 1)[i] = resolved[i]
    <3>1. m + 1 \in 0 .. Len(resolved) /\ 1 <= (m + 1) + 1
      BY <1>2, <2>1
    <3>2. QED BY <1>2, <1>6, <2>1, <3>1, Part
  <2>3. QED BY <2>1, <2>2
<1> HIDE DEF start
<1>9. IsPrefix(start, argv0)
  BY <1>1, <1>2, <1>7, <1>8, PrefixOf
<1>10. \A i \in Len(resolved) .. Len(argv0) : argv0[i] # Slash
  BY <1>1, <1>6
<1>11. QED BY <1>9, <1>10 DEF start, resolved, ed

\* The path of a recording: in the output path, directly.
LEMMA SavedBelow ==
  ASSUME NEW S, Slash \in S, NEW digit \in S, digit # Slash, NEW out \in Seq(S)
  PROVE  LET path == MediaSavePath(out, <<digit>>)
         IN  /\ IsPrefix(out, path)
             /\ path[1] = Slash => out # <<>> /\ out[1] = Slash
             /\ ExecutingDirectory(path) = out
<1> DEFINE path == MediaSavePath(out, <<digit>>)
<1>1. <<digit>> \in Seq(S) /\ Len(<<digit>>) = 1 /\ <<digit>>[1] = digit
  OBVIOUS
<1>2. Len(out) \in Nat
  BY LenProperties
<1>3. CASE out = <<>>
  <2>1. path = <<digit>>
    BY <1>1, <1>3, ConcatEmptySeq DEF MediaSavePath, SavePath
  <2> HIDE DEF path
  <2>2. path \in Seq(S) /\ Len(path) = 1 /\ path[1] = digit
    BY <1>1, <2>1
  <2>3. Len(out) <= Len(path) /\ \A i \in 1 .. Len(out) : out[i] = path[i]
    BY <1>3, <2>2
  <2>4. IsPrefix(out, path)
    BY <2>2, <2>3, PrefixOf
  <2>5. ~(\E k \in 1 .. Len(path) : path[k] = Slash)
    BY <2>2
  <2>6. ExecutingDirectory(path) = SubSeq(path, 1, 0)
    BY <2>2, <2>5, LastSlash
  <2>7. SubSeq(path, 1, 0) = <<>>
    BY SubSeqEmpty
  <2>8. QED BY <1>3, <2>2, <2>4, <2>6, <2>7 DEF path
<1>4. CASE out # <<>>
  <2>1. path = Append(out, Slash) \o <<digit>>
    BY <1>4 DEF MediaSavePath, SavePath
  <2>2. ExecutingDirectory(Append(out, Slash) \o <<digit>>) = out
    <3>1. \A k \in 1 .. Len(<<digit>>) : <<digit>>[k] # Slash
      BY <1>1
    <3>2. QED BY <1>1, <3>1, DirectoryOf
  <2>3. /\ Append(out, Slash) \in Seq(S) /\ Len(Append(out, Slash)) = Len(out) + 1
        /\ \A i \in 1 .. Len(out) : Append(out, Slash)[i] = out[i]
    BY AppendProperties
  <2> HIDE DEF path
  <2>4. /\ path \in Seq(S) /\ Len(path) = Len(out) + 1 + 1
        /\ \A i \in 1 .. Len(out) + 1 + 1 : path[i] = IF i <= Len(out) + 1 THEN Append(out, Slash)[i]
                                                      ELSE <<digit>>[i - (Len(out) + 1)]
    BY <1>1, <2>1, <2>3, ConcatProperties
  <2>5. Len(out) <= Len(path) /\ \A i \in 1 .. Len(out) : out[i] = path[i]
    BY <1>2, <2>3, <2>4
  <2>6. IsPrefix(out, path)
    BY <2>4, <2>5, PrefixOf
  <2>7. Len(out) > 0
    BY <1>4, EmptySeq
  <2>8. path[1] = out[1]
    BY <1>2, <2>5, <2>7
  <2>9. QED BY <1>4, <2>1, <2>2, <2>6, <2>8 DEF path
<1>5. QED BY <1>3, <1>4

-------------------------------------------------------------------------------
(***************************************************************************)
(* Strings.                                                                *)
(***************************************************************************)
LEMMA Window ==
  ASSUME NEW S, NEW s \in Seq(S), NEW i \in 0 .. Len(s), NEW n \in 0 .. Len(s) - i
  PROVE  /\ SubSeq(s, i + 1, i + n) \in Seq(S)
         /\ Len(SubSeq(s, i + 1, i + n)) = n
         /\ \A k \in 1 .. n : SubSeq(s, i + 1, i + n)[k] = s[i + k]
<1>1. Len(s) \in Nat
  BY LenProperties
<1>2. i + 1 \in 1 .. Len(s) + 1 /\ i + n \in 0 .. Len(s) /\ i + 1 <= i + n + 1
  BY <1>1
<1>3. /\ SubSeq(s, i + 1, i + n) \in Seq(S)
      /\ Len(SubSeq(s, i + 1, i + n)) = i + n - (i + 1) + 1
      /\ \A k \in 1 .. i + n - (i + 1) + 1 : SubSeq(s, i + 1, i + n)[k] = s[(i + 1) + k - 1]
  BY <1>2, Part
<1>4. i + n - (i + 1) + 1 = n /\ \A k \in 1 .. n : (i + 1) + k - 1 = i + k
  BY <1>1
<1>5. QED BY <1>3, <1>4

\* What is left of a string is a part of it, up to characters that stay, with
\* only characters to remove on both sides.
LEMMA Trimmed ==
  ASSUME NEW S, NEW str \in Seq(S), NEW chars
  PROVE  \E i \in 0 .. Len(str) : \E n \in 0 .. Len(str) - i :
            /\ StrTrim(str, chars) = SubSeq(str, i + 1, i + n)
            /\ \A k \in 1 .. i : str[k] \in chars
            /\ \A k \in i + n + 1 .. Len(str) : str[k] \in chars
            /\ n > 0 => str[i + 1] \notin chars /\ str[i + n] \notin chars
<1> DEFINE starts == {i \in 0 .. Len(str) : i < Len(str) => str[i + 1] \notin chars}
           i      == Min(starts)
           rest   == SubSeq(str, i + 1, Len(str))
           ends   == {j \in 0 .. Len(rest) - 1 : j > 0 => rest[j + 1] \notin chars}
           e      == Max(ends)
<1>1. Len(str) \in Nat
  BY LenProperties
<1>2. starts \in SUBSET Nat /\ Len(str) \in starts
  BY <1>1
<1>3. i \in starts /\ \A j \in starts : i <= j
  BY <1>2, MinOfNats
<1>4. StrTrim(str, chars) = IF rest = <<>> THEN rest ELSE SubSeq(rest, 1, e + 1)
  BY DEF StrTrim
<1> HIDE DEF i
<1>5. i \in 0 .. Len(str)
  BY <1>3
<1>6. ASSUME NEW k \in 1 .. i PROVE str[k] \in chars
  <2>1. k - 1 \in 0 .. Len(str) /\ k - 1 < Len(str) /\ k - 1 < i /\ (k - 1) + 1 = k
    BY <1>1, <1>5
  <2>2. k - 1 \notin starts
    BY <1>1, <1>3, <1>5, <2>1
  <2>3. QED BY <2>1, <2>2
<1>7. /\ rest \in Seq(S) /\ Len(rest) = Len(str) - i
      /\ \A k \in 1 .. Len(str) - i : rest[k] = str[i + k]
  <2>1. i + 1 \in 1 .. Len(str) + 1 /\ Len(str) \in 0 .. Len(str) /\ i + 1 <= Len(str) + 1
    BY <1>1, <1>5
  <2>2. /\ rest \in Seq(S) /\ Len(rest) = Len(str) - (i + 1) + 1
        /\ \A k \in 1 .. Len(str) - (i + 1) + 1 : rest[k] = str[(i + 1) + k - 1]
    BY <2>1, Part
  <2>3. QED BY <1>1, <1>5, <2>2
<1>8. CASE rest = <<>>
  <2>1. i = Len(str)
    BY <1>1, <1>5, <1>7, <1>8
  <2>2. StrTrim(str, chars) = SubSeq(str, i + 1, i + 0)
    BY <1>1, <1>4, <1>8, <2>1
  <2>3. 0 \in 0 .. Len(str) - i /\ ~(0 > 0) /\ \A k \in i + 0 + 1 .. Len(str) : str[k] \in chars
    BY <1>1, <2>1
  <2>4. \E n \in 0 .. Len(str) - i :
            /\ StrTrim(str, chars) = SubSeq(str, i + 1, i + n)
            /\ \A k \in i + n + 1 .. Len(str) : str[k] \in chars
            /\ n > 0 => str[i + 1] \notin chars /\ str[i + n] \notin chars
    BY <2>2, <2>3
  <2>5. QED BY <1>5, <1>6, <2>4
<1>9. CASE rest # <<>>
  <2> HIDE DEF rest
  <2>1. i < Len(str) /\ str[i + 1] \notin chars
    <3>1. Len(rest) > 0
      BY <1>7, <1>9, EmptySeq
    <3>2. QED BY <1>1, <1>3, <1>5, <1>7, <3>1
  <2>2. ends \in SUBSET (0 .. Len(rest) - 1) /\ 0 \in ends /\ Len(rest) - 1 \in Nat
    BY <1>1, <1>5, <1>7, <2>1
  <2>3. e \in ends /\ \A j \in ends : j <= e
    BY <2>2, MaxBelow
  <2>4. StrTrim(str, chars) = SubSeq(rest, 1, e + 1)
    BY <1>4, <1>9
  <2> HIDE DEF e
  <2>5. e \in 0 .. Len(str) - i - 1 /\ e + 1 \in 0 .. Len(str) - i
    BY <1>1, <1>5, <1>7, <2>2, <2>3
  <2>6. SubSeq(rest, 1, e + 1) = SubSeq(str, i + 1, i + (e + 1))
    <3>1. /\ SubSeq(rest, 1, e + 1) \in Seq(S) /\ Len(SubSeq(rest, 1, e + 1)) = e + 1
          /\ \A k \in 1 .. e + 1 : SubSeq(rest, 1, e + 1)[k] = rest[k]
      <4>1. 1 \in 1 .. Len(rest) + 1 /\ e + 1 \in 0 .. Len(rest) /\ 1 <= (e + 1) + 1
        BY <1>1, <1>5, <1>7, <2>5
      <4>2. /\ SubSeq(rest, 1, e + 1) \in Seq(S) /\ Len(SubSeq(rest, 1, e + 1)) = (e + 1) - 1 + 1
            /\ \A k \in 1 .. (e + 1) - 1 + 1 : SubSeq(rest, 1, e + 1)[k] = rest[1 + k - 1]
        BY <1>7, <4>1, Part
      <4>3. QED BY <2>5, <4>2
    <3>2. /\ SubSeq(str, i + 1, i + (e + 1)) \in Seq(S)
          /\ Len(SubSeq(str, i + 1, i + (e + 1))) = e + 1
          /\ \A k \in 1 .. e + 1 : SubSeq(str, i + 1, i + (e + 1))[k] = str[i + k]
      BY <1>5, <2>5, Window
    <3>3. \A k \in 1 .. e + 1 : rest[k] = str[i + k]
      BY <1>7, <2>5
    <3>4. \A k \in 1 .. e + 1 : SubSeq(rest, 1, e + 1)[k] = SubSeq(str, i + 1, i + (e + 1))[k]
      BY <3>1, <3>2, <3>3
    <3>5. QED BY <3>1, <3>2, <3>4, SeqEqual
  <2>7. ASSUME NEW k \in i + (e + 1) + 1 .. Len(str) PROVE str[k] \in chars
    <3>1. k - i - 1 \in 0 .. Len(rest) - 1 /\ k - i - 1 > e /\ (k - i - 1) + 1 = k - i
      BY <1>1, <1>5, <1>7, <2>5
    <3>2. k - i - 1 \notin ends
      BY <2>3, <2>5, <3>1
    <3>3. rest[k - i] \in chars
      BY <3>1, <3>2
    <3>4. rest[k - i] = str[k]
      BY <1>1, <1>5, <1>7, <2>5
    <3>5. QED BY <3>3, <3>4
  <2>8. str[i + (e + 1)] \notin chars
    <3>1. CASE e = 0
      BY <2>1, <3>1
    <3>2. CASE e > 0
      <4>1. rest[e + 1] \notin chars
        BY <2>3, <3>2
      <4>2. rest[e + 1] = str[i + (e + 1)]
        BY <1>7, <2>5
      <4>3. QED BY <4>1, <4>2
    <3>3. QED BY <2>5, <3>1, <3>2
  <2>9. QED BY <1>5, <1>6, <2>1, <2>4, <2>5, <2>6, <2>7, <2>8
<1>10. QED BY <1>8, <1>9

\* The same as the property has it, of what is kept.
LEMMA TrimmedWindow ==
  ASSUME NEW S, NEW str \in Seq(S), NEW chars
  PROVE  LET trimmed == StrTrim(str, chars)
         IN  \E i \in 0 .. Len(str) :
                LET kept == SubSeq(str, i + 1, i + Len(trimmed))
                IN  /\ kept = trimmed
                    /\ \A k \in 1 .. Len(str) : k <= i \/ k > i + Len(kept) => str[k] \in chars
                    /\ kept # <<>> => kept[1] \notin chars /\ Last(kept) \notin chars
<1> DEFINE trimmed == StrTrim(str, chars)
<1>1. PICK i \in 0 .. Len(str) : \E n \in 0 .. Len(str) - i :
         /\ trimmed = SubSeq(str, i + 1, i + n)
         /\ \A k \in 1 .. i : str[k] \in chars
         /\ \A k \in i + n + 1 .. Len(str) : str[k] \in chars
         /\ n > 0 => str[i + 1] \notin chars /\ str[i + n] \notin chars
  BY Trimmed
<1>2. PICK n \in 0 .. Len(str) - i :
         /\ trimmed = SubSeq(str, i + 1, i + n)
         /\ \A k \in 1 .. i : str[k] \in chars
         /\ \A k \in i + n + 1 .. Len(str) : str[k] \in chars
         /\ n > 0 => str[i + 1] \notin chars /\ str[i + n] \notin chars
  BY <1>1
<1> HIDE DEF trimmed
<1>3. /\ trimmed \in Seq(S) /\ Len(trimmed) = n
      /\ \A k \in 1 .. n : trimmed[k] = str[i + k]
  BY <1>2, Window
<1>4. Len(str) \in Nat
  BY LenProperties
<1>5. ASSUME NEW k \in 1 .. Len(str), k <= i \/ k > i + n PROVE str[k] \in chars
  <2>1. k \in 1 .. i \/ k \in i + n + 1 .. Len(str)
    BY <1>4, <1>5
  <2>2. QED BY <1>2, <2>1
<1>6. ASSUME trimmed # <<>> PROVE trimmed[1] \notin chars /\ Last(trimmed) \notin chars
  <2>1. n > 0
    BY <1>3, <1>6, EmptySeq
  <2>2. 1 \in 1 .. n /\ n \in 1 .. n
    BY <1>4, <2>1
  <2>3. trimmed[1] = str[i + 1] /\ trimmed[n] = str[i + n]
    BY <1>3, <2>2
  <2>4. Last(trimmed) = trimmed[n]
    BY <1>3 DEF Last
  <2>5. QED BY <1>2, <2>1, <2>3, <2>4
<1> DEFINE kept == SubSeq(str, i + 1, i + Len(trimmed))
<1>7. kept = trimmed
  BY <1>2, <1>3
<1> HIDE DEF kept
<1>8. /\ kept = trimmed
      /\ \A k \in 1 .. Len(str) : k <= i \/ k > i + Len(kept) => str[k] \in chars
      /\ kept # <<>> => kept[1] \notin chars /\ Last(kept) \notin chars
  BY <1>3, <1>5, <1>6, <1>7
<1>9. QED BY <1>8 DEF kept, trimmed

\* Where a string ends and begins to have characters that stay tells what is
\* left of it: nothing when it has none.
LEMMA PaddedTrims ==
  ASSUME NEW S, NEW str \in Seq(S), NEW padding \in S, NEW target_len \in Nat
  PROVE  LET matched == StrMatchLen(str, target_len, padding)
         IN  /\ Len(matched) = IF Len(str) < target_len THEN target_len ELSE Len(str)
             /\ \A k \in 1 .. Len(str) : matched[k] = str[k]
             /\ StrTrim(matched, {padding}) = StrTrim(str, {padding})
<1> DEFINE more    == IF target_len > Len(str) THEN target_len - Len(str) ELSE 0
           pad     == [i \in 1 .. target_len - Len(str) |-> padding]
           matched == StrMatchLen(str, target_len, padding)
<1>1. /\ Len(str) \in Nat /\ more \in Nat
      /\ Len(str) + more = IF Len(str) < target_len THEN target_len ELSE Len(str)
  BY LenProperties
<1>2. pad \in Seq(S) /\ Len(pad) = more /\ \A k \in 1 .. more : pad[k] = padding
  <2>1. 1 .. target_len - Len(str) = 1 .. more
    BY <1>1
  <2>2. pad = [i \in 1 .. more |-> padding]
    BY <2>1
  <2> HIDE DEF pad, more
  <2>3. [i \in 1 .. more |-> padding] \in Seq(S)
    BY <1>1
  <2>4. Len([i \in 1 .. more |-> padding]) = more
    BY <1>1
  <2>5. QED BY <2>2, <2>3, <2>4
<1>3. matched = str \o pad
  BY DEF StrMatchLen
<1> HIDE DEF pad, more, matched
<1>4. /\ matched \in Seq(S) /\ Len(matched) = Len(str) + more
      /\ \A k \in 1 .. Len(str) : matched[k] = str[k]
      /\ \A k \in Len(str) + 1 .. Len(matched) : matched[k] = padding
  <2>1. /\ matched \in Seq(S) /\ Len(matched) = Len(str) + more
        /\ \A k \in 1 .. Len(str) + more : matched[k] = IF k <= Len(str) THEN str[k] ELSE pad[k - Len(str)]
    BY <1>2, <1>3, ConcatProperties
  <2>2. \A k \in Len(str) + 1 .. Len(str) + more : k - Len(str) \in 1 .. more
    BY <1>1
  <2>3. QED BY <1>1, <1>2, <2>1, <2>2
<1>5. PICK i \in 0 .. Len(str) : \E n \in 0 .. Len(str) - i :
         /\ StrTrim(str, {padding}) = SubSeq(str, i + 1, i + n)
         /\ \A k \in 1 .. i : str[k] \in {padding}
         /\ \A k \in i + n + 1 .. Len(str) : str[k] \in {padding}
         /\ n > 0 => str[i + 1] \notin {padding} /\ str[i + n] \notin {padding}
  BY Trimmed
<1>6. PICK n \in 0 .. Len(str) - i :
         /\ StrTrim(str, {padding}) = SubSeq(str, i + 1, i + n)
         /\ \A k \in 1 .. i : str[k] = padding
         /\ \A k \in i + n + 1 .. Len(str) : str[k] = padding
         /\ n > 0 => str[i + 1] # padding /\ str[i + n] # padding
  BY <1>5
<1>7. PICK j \in 0 .. Len(matched) : \E q \in 0 .. Len(matched) - j :
         /\ StrTrim(matched, {padding}) = SubSeq(matched, j + 1, j + q)
         /\ \A k \in 1 .. j : matched[k] \in {padding}
         /\ \A k \in j + q + 1 .. Len(matched) : matched[k] \in {padding}
         /\ q > 0 => matched[j + 1] \notin {padding} /\ matched[j + q] \notin {padding}
  BY <1>4, Trimmed
<1>8. PICK q \in 0 .. Len(matched) - j :
         /\ StrTrim(matched, {padding}) = SubSeq(matched, j + 1, j + q)
         /\ \A k \in 1 .. j : matched[k] = padding
         /\ \A k \in j + q + 1 .. Len(matched) : matched[k] = padding
         /\ q > 0 => matched[j + 1] # padding /\ matched[j + q] # padding
  BY <1>7
<1>9. i \in Nat /\ j \in Nat /\ n \in Nat /\ q \in Nat /\ i + n <= Len(str) /\ j + q <= Len(matched)
      /\ Len(matched) \in Nat /\ Len(str) <= Len(matched)
  BY <1>1, <1>4
<1>10. CASE n = 0
  <2>1. \A k \in 1 .. Len(str) : str[k] = padding
    BY <1>6, <1>9, <1>10
  <2>2. \A k \in 1 .. Len(matched) : matched[k] = padding
    <3>1. \A k \in 1 .. Len(matched) : k \in 1 .. Len(str) \/ k \in Len(str) + 1 .. Len(matched)
      BY <1>9
    <3>2. QED BY <1>4, <2>1, <3>1
  <2>3. q = 0
    <3>1. j + q \in 1 .. Len(matched) \/ q = 0
      BY <1>9
    <3>2. QED BY <1>8, <1>9, <2>2, <3>1
  <2>4. SubSeq(str, i + 1, i + n) = <<>> /\ SubSeq(matched, j + 1, j + q) = <<>>
    BY <1>9, <1>10, <2>3, SubSeqEmpty
  <2>5. QED BY <1>4, <1>1, <1>6, <1>8, <2>4 DEF matched
<1>11. CASE n > 0
  <2>1. i + 1 \in 1 .. Len(str) /\ i + n \in 1 .. Len(str)
    BY <1>9, <1>11
  <2>2. matched[i + 1] # padding /\ matched[i + n] # padding
    BY <1>4, <1>6, <1>11, <2>1
  <2>3. i + 1 \notin 1 .. j /\ i + 1 \notin j + q + 1 .. Len(matched)
    BY <1>8, <2>2
  <2>4. i + n \notin 1 .. j /\ i + n \notin j + q + 1 .. Len(matched)
    BY <1>8, <2>2
  <2>5. j <= i /\ i + n <= j + q /\ q > 0
    BY <1>9, <1>11, <2>3, <2>4
  <2>6. matched[j + 1] # padding /\ matched[j + q] # padding
    BY <1>8, <2>5
  <2>7. j + 1 \notin 1 .. i
    <3>1. j + 1 \in 1 .. i => j + 1 \in 1 .. Len(str)
      BY <1>9
    <3>2. j + 1 \in 1 .. i => matched[j + 1] = str[j + 1] /\ str[j + 1] = padding
      BY <1>4, <1>6, <3>1
    <3>3. QED BY <2>6, <3>2
  <2>8. j = i
    BY <1>9, <2>5, <2>7
  <2>9. j + q \notin Len(str) + 1 .. Len(matched)
    BY <1>4, <2>6
  <2>10. j + q \in 1 .. Len(str)
    BY <1>9, <2>5, <2>9
  <2>11. j + q \notin i + n + 1 .. Len(str)
    BY <1>4, <1>6, <2>6, <2>10
  <2>12. q = n
    BY <1>9, <2>5, <2>8, <2>10, <2>11
  <2>13. n \in 0 .. Len(str) - i /\ i \in 0 .. Len(matched) /\ n \in 0 .. Len(matched) - i
    BY <1>9
  <2>14. /\ SubSeq(str, i + 1, i + n) \in Seq(S)
         /\ Len(SubSeq(str, i + 1, i + n)) = n
         /\ \A k \in 1 .. n : SubSeq(str, i + 1, i + n)[k] = str[i + k]
    BY <2>13, Window
  <2>15. /\ SubSeq(matched, i + 1, i + n) \in Seq(S)
         /\ Len(SubSeq(matched, i + 1, i + n)) = n
         /\ \A k \in 1 .. n : SubSeq(matched, i + 1, i + n)[k] = matched[i + k]
    BY <1>4, <2>13, Window
  <2>16. \A k \in 1 .. n : i + k \in 1 .. Len(str)
    BY <1>9
  <2>17. \A k \in 1 .. n : SubSeq(str, i + 1, i + n)[k] = SubSeq(matched, i + 1, i + n)[k]
    BY <1>4, <2>14, <2>15, <2>16
  <2>18. SubSeq(str, i + 1, i + n) = SubSeq(matched, i + 1, i + n)
    BY <2>14, <2>15, <2>17, SeqEqual
  <2>19. QED BY <1>1, <1>4, <1>6, <1>8, <2>8, <2>12, <2>18 DEF matched
<1>12. QED BY <1>9, <1>10, <1>11

-------------------------------------------------------------------------------
(***************************************************************************)
(* The sweep.                                                              *)
(***************************************************************************)
LEMMA Erased ==
  ASSUME NEW S, NEW s \in Seq(S), NEW i \in 1 .. Len(s)
  PROVE  /\ RemoveAt(s, i) \in Seq(S) /\ Len(RemoveAt(s, i)) = Len(s) - 1
         /\ \A k \in 1 .. Len(s) - 1 : RemoveAt(s, i)[k] = IF k < i THEN s[k] ELSE s[k + 1]
<1> DEFINE front == SubSeq(s, 1, i - 1)
           back  == SubSeq(s, i + 1, Len(s))
<1>1. Len(s) \in Nat
  BY LenProperties
<1>2. front \in Seq(S) /\ Len(front) = i - 1 /\ \A k \in 1 .. i - 1 : front[k] = s[k]
  <2>1. 1 \in 1 .. Len(s) + 1 /\ i - 1 \in 0 .. Len(s) /\ 1 <= (i - 1) + 1
    BY <1>1
  <2>2. /\ front \in Seq(S) /\ Len(front) = (i - 1) - 1 + 1
        /\ \A k \in 1 .. (i - 1) - 1 + 1 : front[k] = s[1 + k - 1]
    BY <2>1, Part
  <2>3. (i - 1) - 1 + 1 = i - 1 /\ \A k \in 1 .. i - 1 : 1 + k - 1 = k
    BY <1>1
  <2>4. QED BY <2>2, <2>3
<1>3. back \in Seq(S) /\ Len(back) = Len(s) - i /\ \A k \in 1 .. Len(s) - i : back[k] = s[i + k]
  <2>1. PICK n \in 0 .. Len(s) - i : n = Len(s) - i
    BY <1>1
  <2>2. Len(s) = i + n /\ i \in 0 .. Len(s)
    BY <1>1, <2>1
  <2>3. /\ SubSeq(s, i + 1, i + n) \in Seq(S) /\ Len(SubSeq(s, i + 1, i + n)) = n
        /\ \A k \in 1 .. n : SubSeq(s, i + 1, i + n)[k] = s[i + k]
    BY <2>2, Window
  <2>4. back = SubSeq(s, i + 1, i + n)
    BY <2>2
  <2>5. QED BY <2>1, <2>3, <2>4
<1>4. RemoveAt(s, i) = front \o back
  BY DEF RemoveAt
<1> HIDE DEF front, back
<1>5. /\ RemoveAt(s, i) \in Seq(S) /\ Len(RemoveAt(s, i)) = (i - 1) + (Len(s) - i)
      /\ \A k \in 1 .. (i - 1) + (Len(s) - i) :
            RemoveAt(s, i)[k] = IF k <= i - 1 THEN front[k] ELSE back[k - (i - 1)]
  <2>1. /\ front \o back \in Seq(S) /\ Len(front \o back) = Len(front) + Len(back)
        /\ \A k \in 1 .. Len(front) + Len(back) :
              (front \o back)[k] = IF k <= Len(front) THEN front[k] ELSE back[k - Len(front)]
    <3>1. front \in Seq(S) /\ back \in Seq(S)
      BY <1>2, <1>3
    <3>2. QED BY <3>1, ConcatProperties
  <2>2. Len(front) = i - 1 /\ Len(back) = Len(s) - i
    BY <1>2, <1>3
  <2>3. QED BY <1>4, <2>1, <2>2
<1>6. (i - 1) + (Len(s) - i) = Len(s) - 1
  BY <1>1
<1>7. ASSUME NEW k \in 1 .. Len(s) - 1
      PROVE  RemoveAt(s, i)[k] = IF k < i THEN s[k] ELSE s[k + 1]
  <2>1. CASE k < i
    BY <1>1, <1>2, <1>5, <1>6, <2>1
  <2>2. CASE ~(k < i)
    <3>1. ~(k <= i - 1) /\ k - (i - 1) \in 1 .. Len(s) - i /\ i + (k - (i - 1)) = k + 1
      BY <1>1, <2>2
    <3>2. back[k - (i - 1)] = s[k + 1]
      BY <1>3, <3>1
    <3>3. QED BY <1>5, <1>6, <2>2, <3>1, <3>2
  <2>3. QED BY <2>1, <2>2
<1>8. QED BY <1>5, <1>6, <1>7

\* The loop has reached element "it", having erased "gone" of those before it:
\* those it has left there are alive, in order, and all that are alive; from
\* "it" on nothing is touched.
SweptSoFar(before, swept, it) ==
    LET gone == Len(before) - Len(swept)
    IN  /\ before \in SweptConnections
        /\ swept \in Seq([id : 1 .. MaxSwept, dead : BOOLEAN])
        /\ gone \in Nat /\ it \in 1 .. Len(swept) + 1
        /\ \A j \in it .. Len(swept) : swept[j] = before[j + gone]
        /\ \A j \in 1 .. it - 1 :
              /\ ~swept[j].dead
              /\ swept[j].id \in 1 .. it + gone - 1 /\ swept[j] = before[swept[j].id]
        /\ \A j, k \in 1 .. it - 1 : j < k => swept[j].id < swept[k].id
        /\ \A i \in 1 .. it + gone - 1 : ~before[i].dead => \E j \in 1 .. it - 1 : swept[j] = before[i]

SweptUpToIterator == call.op = "Sweep" => SweptSoFar(call.before, call.swept, call.it)

\* An iteration that erases: what is behind has moved up by one.
LEMMA SweptErasing ==
  ASSUME NEW before, NEW swept, NEW it, SweptSoFar(before, swept, it),
         it <= Len(swept), swept[it].dead
  PROVE  SweptSoFar(before, RemoveAt(swept, it), it)
<1> DEFINE gone == Len(before) - Len(swept)
           w    == RemoveAt(swept, it)
           C    == [id : 1 .. MaxSwept, dead : BOOLEAN]
<1>1. /\ before \in SweptConnections /\ swept \in Seq(C)
      /\ gone \in Nat /\ it \in 1 .. Len(swept) + 1
      /\ \A j \in it .. Len(swept) : swept[j] = before[j + gone]
      /\ \A j \in 1 .. it - 1 : /\ ~swept[j].dead
                                /\ swept[j].id \in 1 .. it + gone - 1 /\ swept[j] = before[swept[j].id]
      /\ \A j, k \in 1 .. it - 1 : j < k => swept[j].id < swept[k].id
      /\ \A i \in 1 .. it + gone - 1 : ~before[i].dead => \E j \in 1 .. it - 1 : swept[j] = before[i]
  BY DEF SweptSoFar
<1>2. before \in Seq(C)
  BY HelpersAssumption, BoundedAreSeqs, <1>1 DEF SweptConnections
<1>3. Len(before) \in Nat /\ Len(swept) \in Nat /\ it \in 1 .. Len(swept)
  BY <1>1, <1>2, LenProperties
<1>4. /\ w \in Seq(C) /\ Len(w) = Len(swept) - 1
      /\ \A k \in 1 .. Len(swept) - 1 : w[k] = IF k < it THEN swept[k] ELSE swept[k + 1]
  BY <1>1, <1>3, Erased
<1> HIDE DEF w
<1>5. Len(before) - Len(w) = gone + 1
  BY <1>3, <1>4
<1> DEFINE g == gone + 1
<1>6. g \in Nat /\ it \in 1 .. Len(w) + 1
  BY <1>1, <1>3, <1>4
<1>7. ASSUME NEW j \in it .. Len(w) PROVE w[j] = before[j + g]
  <2>1. j \in 1 .. Len(swept) - 1 /\ ~(j < it) /\ j + 1 \in it .. Len(swept)
    BY <1>3, <1>4
  <2>2. w[j] = swept[j + 1] /\ swept[j + 1] = before[(j + 1) + gone]
    BY <1>1, <1>4, <2>1
  <2>3. (j + 1) + gone = j + g
    BY <1>1, <1>3
  <2>4. QED BY <2>2, <2>3
<1>8. \A j \in 1 .. it - 1 : w[j] = swept[j]
  <2>1. \A j \in 1 .. it - 1 : j \in 1 .. Len(swept) - 1 /\ j < it
    BY <1>3
  <2>2. QED BY <1>4, <2>1
<1>9. it + g - 1 = it + gone /\ \A i \in 1 .. it + gone - 1 : i \in 1 .. it + g - 1
  BY <1>1, <1>3
<1>10. \A j \in 1 .. it - 1 : /\ ~w[j].dead
                              /\ w[j].id \in 1 .. it + g - 1 /\ w[j] = before[w[j].id]
  BY <1>1, <1>8, <1>9
<1>11. \A j, k \in 1 .. it - 1 : j < k => w[j].id < w[k].id
  BY <1>1, <1>8
<1>12. ASSUME NEW i \in 1 .. it + g - 1, ~before[i].dead
       PROVE  \E j \in 1 .. it - 1 : w[j] = before[i]
  <2>1. i # it + gone
    BY <1>1, <1>3, <1>12
  <2>2. i \in 1 .. it + gone - 1
    <3>1. i \in 1 .. it + gone
      BY <1>9, <1>12
    <3>2. it \in Int /\ gone \in Int
      BY <1>1, <1>3
    <3>3. QED BY <2>1, <3>1, <3>2
  <2>3. QED BY <1>1, <1>8, <1>12, <2>2
<1> HIDE DEF g, gone
<1>13. Len(before) - Len(w) = g
  BY <1>5 DEF g
<1>14. SweptSoFar(before, w, it)
  BY <1>1, <1>4, <1>6, <1>7, <1>10, <1>11, <1>12, <1>13 DEF SweptSoFar
<1>15. QED BY <1>14 DEF w

\* An iteration that goes on keeps the element it was at.
LEMMA SweptKeeping ==
  ASSUME NEW before, NEW swept, NEW it, SweptSoFar(before, swept, it),
         it <= Len(swept), ~swept[it].dead
  PROVE  SweptSoFar(before, swept, it + 1)
<1> DEFINE gone == Len(before) - Len(swept)
           C    == [id : 1 .. MaxSwept, dead : BOOLEAN]
<1>1. /\ before \in SweptConnections /\ swept \in Seq(C)
      /\ gone \in Nat /\ it \in 1 .. Len(swept) + 1
      /\ \A j \in it .. Len(swept) : swept[j] = before[j + gone]
      /\ \A j \in 1 .. it - 1 : /\ ~swept[j].dead
                                /\ swept[j].id \in 1 .. it + gone - 1 /\ swept[j] = before[swept[j].id]
      /\ \A j, k \in 1 .. it - 1 : j < k => swept[j].id < swept[k].id
      /\ \A i \in 1 .. it + gone - 1 : ~before[i].dead => \E j \in 1 .. it - 1 : swept[j] = before[i]
  BY DEF SweptSoFar
<1>2. before \in Seq(C) /\ \A i \in DOMAIN before : before[i].id = i
  BY HelpersAssumption, BoundedAreSeqs, <1>1 DEF SweptConnections
<1>3. /\ Len(before) \in Nat /\ Len(swept) \in Nat /\ it \in 1 .. Len(swept)
      /\ DOMAIN before = 1 .. Len(before)
  BY <1>1, <1>2, LenProperties
<1>4. it + gone \in 1 .. Len(before)
  BY <1>1, <1>3
<1>5. swept[it] = before[it + gone] /\ swept[it].id = it + gone
  <2>1. it \in it .. Len(swept)
    BY <1>3
  <2>2. swept[it] = before[it + gone]
    BY <1>1, <2>1
  <2>3. before[it + gone].id = it + gone
    BY <1>2, <1>3, <1>4
  <2>4. QED BY <2>2, <2>3
<1> HIDE DEF gone
<1>6. it \in Nat /\ gone \in Nat
  BY <1>1, <1>3
<1>7. it + 1 \in 1 .. Len(swept) + 1 /\ (it + 1) - 1 = it /\ it + 1 + gone - 1 = it + gone
  BY <1>3, <1>6
<1>8. \A j \in it + 1 .. Len(swept) : swept[j] = before[j + gone]
  BY <1>1, <1>3
<1>9. \A j \in 1 .. it : j = it \/ j \in 1 .. it - 1
  BY <1>6
<1>10. \A i \in 1 .. it + gone : i = it + gone \/ i \in 1 .. it + gone - 1
  BY <1>6
<1>11. \A j \in 1 .. it : /\ ~swept[j].dead
                          /\ swept[j].id \in 1 .. it + gone /\ swept[j] = before[swept[j].id]
  <2>1. \A i \in 1 .. it + gone - 1 : i \in 1 .. it + gone
    BY <1>6
  <2>2. it + gone \in 1 .. it + gone
    BY <1>3, <1>6
  <2>3. QED BY <1>1, <1>5, <1>9, <2>1, <2>2
<1>12. ASSUME NEW j \in 1 .. it, NEW k \in 1 .. it, j < k PROVE swept[j].id < swept[k].id
  <2>1. j \in 1 .. it - 1
    BY <1>6, <1>12
  <2>2. CASE k \in 1 .. it - 1
    BY <1>1, <1>12, <2>1, <2>2
  <2>3. CASE k = it
    <3>1. swept[j].id \in 1 .. it + gone - 1
      BY <1>1, <2>1
    <3>2. QED BY <1>5, <1>6, <2>3, <3>1
  <2>4. QED BY <1>9, <2>2, <2>3
<1>13. ASSUME NEW i \in 1 .. it + gone, ~before[i].dead
       PROVE  \E j \in 1 .. it : swept[j] = before[i]
  <2>1. CASE i = it + gone
    BY <1>3, <1>5, <1>6, <2>1
  <2>2. CASE i \in 1 .. it + gone - 1
    <3>1. PICK j \in 1 .. it - 1 : swept[j] = before[i]
      BY <1>1, <1>13, <2>2
    <3>2. j \in 1 .. it
      BY <1>6
    <3>3. QED BY <3>1, <3>2
  <2>3. QED BY <1>10, <2>1, <2>2
<1>14. gone = Len(before) - Len(swept)
  BY DEF gone
<1>15. QED BY <1>1, <1>7, <1>8, <1>11, <1>12, <1>13, <1>14 DEF SweptSoFar

\* At the end it has been through everything.
LEMMA SweptAtEnd ==
  ASSUME NEW before, NEW swept, NEW it, SweptSoFar(before, swept, it), it > Len(swept)
  PROVE  /\ Range(swept) = {c \in Range(before) : ~c.dead}
         /\ \A i, j \in DOMAIN swept : i < j => swept[i].id < swept[j].id
<1> DEFINE gone == Len(before) - Len(swept)
           C    == [id : 1 .. MaxSwept, dead : BOOLEAN]
<1>1. /\ before \in SweptConnections /\ swept \in Seq(C)
      /\ gone \in Nat /\ it \in 1 .. Len(swept) + 1
      /\ \A j \in 1 .. it - 1 : /\ ~swept[j].dead
                                /\ swept[j].id \in 1 .. it + gone - 1 /\ swept[j] = before[swept[j].id]
      /\ \A j, k \in 1 .. it - 1 : j < k => swept[j].id < swept[k].id
      /\ \A i \in 1 .. it + gone - 1 : ~before[i].dead => \E j \in 1 .. it - 1 : swept[j] = before[i]
  BY DEF SweptSoFar
<1>2. before \in Seq(C)
  BY HelpersAssumption, BoundedAreSeqs, <1>1 DEF SweptConnections
<1>3. /\ Len(before) \in Nat /\ DOMAIN before = 1 .. Len(before)
      /\ Len(swept) \in Nat /\ DOMAIN swept = 1 .. Len(swept)
  BY <1>1, <1>2, LenProperties
<1>4. it - 1 = Len(swept) /\ it + gone - 1 = Len(before)
  <2>1. it \in 1 .. Len(swept) + 1
    BY <1>1
  <2>2. it = Len(swept) + 1
    BY <1>3, <2>1
  <2>3. QED BY <1>3, <2>2
<1> HIDE DEF gone
<1>5. /\ \A j \in DOMAIN swept : ~swept[j].dead /\ swept[j].id \in DOMAIN before /\ swept[j] = before[swept[j].id]
      /\ \A j, k \in DOMAIN swept : j < k => swept[j].id < swept[k].id
      /\ \A i \in DOMAIN before : ~before[i].dead => \E j \in DOMAIN swept : swept[j] = before[i]
  BY <1>1, <1>3, <1>4
<1>6. Range(swept) = {swept[j] : j \in DOMAIN swept} /\ Range(before) = {before[i] : i \in DOMAIN before}
  BY DEF Range
<1>7. Range(swept) = {c \in Range(before) : ~c.dead}
  BY <1>5, <1>6
<1>8. QED BY <1>5, <1>7

\* The loop begins with nothing done.
LEMMA SweptBegins ==
  ASSUME NEW v \in SweptConnections
  PROVE  SweptSoFar(v, v, 1)
<1>1. v \in Seq([id : 1 .. MaxSwept, dead : BOOLEAN])
  BY HelpersAssumption, BoundedAreSeqs DEF SweptConnections
<1>2. Len(v) \in Nat
  BY <1>1, LenProperties
<1>3. Len(v) - Len(v) = 0 /\ 1 \in 1 .. Len(v) + 1
  BY <1>2
<1>4. \A j \in 1 .. Len(v) : v[j] = v[j + 0]
  BY <1>2
<1>5. 1 - 1 = 0 /\ 1 + 0 - 1 = 0 /\ 1 .. 0 = {}
  OBVIOUS
<1>6. QED BY <1>1, <1>3, <1>4, <1>5 DEF SweptSoFar

-------------------------------------------------------------------------------
(***************************************************************************)
(* Every call.                                                             *)
(***************************************************************************)
HelpersInv ==
    /\ executing_directory \in Seq(Chars)
    /\ ResolvedBesideExecutable /\ SavedBelowOutputPath /\ TrimsBothEnds
    /\ PaddingTrimsAway /\ CastsWhatFits /\ SweptUpToIterator

LEMMA HelpersInvInit == HelpersInit => HelpersInv
BY EmptySeq DEF HelpersInit, HelpersInv, ResolvedBesideExecutable, SavedBelowOutputPath,
   TrimsBothEnds, PaddingTrimsAway, CastsWhatFits, SweptUpToIterator

\* A call of one function says nothing about the others.
LEMMA HelpersInvStep == HelpersInv /\ [HelpersNext]_helpersVars => HelpersInv'
<1> SUFFICES ASSUME HelpersInv, [HelpersNext]_helpersVars PROVE HelpersInv'
  OBVIOUS
<1>1. /\ call'.op \notin {"SetExecutingDirectory", "SetToItself"} => ResolvedBesideExecutable'
      /\ call'.op # "MediaSavePath" => SavedBelowOutputPath'
      /\ call'.op # "StrTrim" => TrimsBothEnds'
      /\ call'.op # "StrMatchLen" => PaddingTrimsAway'
      /\ call'.op # "SafeCast" => CastsWhatFits'
      /\ call'.op # "Sweep" => SweptUpToIterator'
  BY DEF ResolvedBesideExecutable, SavedBelowOutputPath, TrimsBothEnds, PaddingTrimsAway,
         CastsWhatFits, SweptUpToIterator
<1>2. executing_directory \in Seq(Chars) /\ SweptUpToIterator
  BY DEF HelpersInv
<1>3. Strings \subseteq Seq(Chars)
  BY HelpersAssumption, BoundedAreSeqs DEF Strings
<1>4. CASE CallSetExecutingDirectory
  <2>1. PICK argv0 \in Strings : /\ executing_directory' = ExecutingDirectory(argv0)
                                 /\ call' = [op |-> "SetExecutingDirectory", argv0 |-> argv0]
    BY <1>4 DEF CallSetExecutingDirectory
  <2>2. argv0 \in Seq(Chars) /\ DOMAIN argv0 = 1 .. Len(argv0)
    BY <1>3, <2>1, LenProperties
  <2>3. executing_directory' \in Seq(Chars)
    <3>1. PICK m \in 0 .. Len(argv0) : ExecutingDirectory(argv0) = SubSeq(argv0, 1, m)
      BY <2>2, LastSlash
    <3>2. 1 \in 1 .. Len(argv0) + 1 /\ 1 <= m + 1
      BY <2>2, LenProperties
    <3>3. SubSeq(argv0, 1, m) \in Seq(Chars)
      BY <2>2, <3>2, Part
    <3>4. QED BY <2>1, <3>1, <3>3
  <2>4. ResolvedBesideExecutable'
    <3>1. call'.op = "SetExecutingDirectory" /\ call'.argv0 = argv0
      BY <2>1
    <3>2. ASSUME \E i \in DOMAIN argv0 : argv0[i] = Slash
          PROVE  LET resolved == ResolvePath(executing_directory', <<"f">>)
                 IN  /\ IsPrefix(SubSeq(resolved, 1, Len(resolved) - 1), argv0)
                     /\ \A i \in Len(resolved) .. Len(argv0) : argv0[i] # Slash
      <4>1. argv0 \in Seq(Chars \cup {"f"}) /\ Slash \in Chars \cup {"f"} /\ "f" \in Chars \cup {"f"}
        BY <2>2, SeqMonotonic, HelpersAssumption
      <4>2. \E i \in 1 .. Len(argv0) : argv0[i] = Slash
        BY <2>2, <3>2
      <4>3. QED BY <2>1, <4>1, <4>2, ResolvedBeside
    <3>3. QED BY <3>1, <3>2 DEF ResolvedBesideExecutable
  <2>5. call'.op = "SetExecutingDirectory"
    BY <2>1
  <2>6. QED BY <1>1, <2>3, <2>4, <2>5 DEF HelpersInv
<1>5. CASE CallSetToItself
  <2>1. /\ executing_directory' = ExecutingDirectory(Append(executing_directory, Slash))
        /\ call' = [op |-> "SetToItself", before |-> executing_directory]
    BY <1>5 DEF CallSetToItself
  <2>2. executing_directory' = executing_directory
    <3>1. <<>> \in Seq(Chars) /\ \A k \in 1 .. Len(<<>>) : <<>>[k] # Slash
      BY EmptySeq
    <3>2. ExecutingDirectory(Append(executing_directory, Slash) \o <<>>) = executing_directory
      BY <1>2, <3>1, HelpersAssumption, DirectoryOf
    <3>3. Append(executing_directory, Slash) \in Seq(Chars)
      BY <1>2, HelpersAssumption, AppendProperties
    <3>4. Append(executing_directory, Slash) \o <<>> = Append(executing_directory, Slash)
      BY <3>3, ConcatEmptySeq
    <3>5. QED BY <2>1, <3>2, <3>4
  <2>3. call'.op = "SetToItself" /\ call'.before = executing_directory
    BY <2>1
  <2>4. ResolvedBesideExecutable'
    BY <2>2, <2>3 DEF ResolvedBesideExecutable
  <2>5. QED BY <1>1, <1>2, <2>2, <2>3, <2>4 DEF HelpersInv
<1>6. CASE CallMediaSavePath
  <2>1. PICK out_path \in Strings, digit \in Chars \ {Slash} :
          Calls([op |-> "MediaSavePath", out_path |-> out_path, path |-> MediaSavePath(out_path, <<digit>>)])
    BY <1>6 DEF CallMediaSavePath
  <2>2. /\ call' = [op |-> "MediaSavePath", out_path |-> out_path, path |-> MediaSavePath(out_path, <<digit>>)]
        /\ executing_directory' = executing_directory
    BY <2>1 DEF Calls
  <2>3. call'.op = "MediaSavePath" /\ call'.out_path = out_path /\ call'.path = MediaSavePath(out_path, <<digit>>)
    BY <2>2
  <2>4. SavedBelowOutputPath'
    BY <1>3, <2>3, SavedBelow, HelpersAssumption DEF SavedBelowOutputPath
  <2>5. QED BY <1>1, <1>2, <2>2, <2>3, <2>4 DEF HelpersInv
<1>7. CASE CallStrTrim
  <2>1. PICK str \in Strings, chars \in SUBSET Chars :
          Calls([op |-> "StrTrim", str |-> str, chars |-> chars, trimmed |-> StrTrim(str, chars)])
    BY <1>7 DEF CallStrTrim
  <2>2. /\ call' = [op |-> "StrTrim", str |-> str, chars |-> chars, trimmed |-> StrTrim(str, chars)]
        /\ executing_directory' = executing_directory
    BY <2>1 DEF Calls
  <2>3. call'.op = "StrTrim" /\ call'.str = str /\ call'.chars = chars /\ call'.trimmed = StrTrim(str, chars)
    BY <2>2
  <2>4. TrimsBothEnds'
    BY <1>3, <2>3, TrimmedWindow DEF TrimsBothEnds
  <2>5. QED BY <1>1, <1>2, <2>2, <2>3, <2>4 DEF HelpersInv
<1>8. CASE CallStrMatchLen
  <2>1. PICK str \in Strings, target_len \in 0 .. MaxLength + 1, padding \in Chars :
          Calls([op |-> "StrMatchLen", str |-> str, target_len |-> target_len, padding |-> padding,
                 matched |-> StrMatchLen(str, target_len, padding)])
    BY <1>8 DEF CallStrMatchLen
  <2>2. /\ call' = [op |-> "StrMatchLen", str |-> str, target_len |-> target_len, padding |-> padding,
                    matched |-> StrMatchLen(str, target_len, padding)]
        /\ executing_directory' = executing_directory
    BY <2>1 DEF Calls
  <2>3. /\ call'.op = "StrMatchLen" /\ call'.str = str /\ call'.target_len = target_len
        /\ call'.padding = padding /\ call'.matched = StrMatchLen(str, target_len, padding)
    BY <2>2
  <2>4. PaddingTrimsAway'
    <3>1. target_len \in Nat /\ str \in Seq(Chars)
      BY <1>3, HelpersAssumption
    <3>2. QED BY <2>3, <3>1, PaddedTrims DEF PaddingTrimsAway
  <2>5. QED BY <1>1, <1>2, <2>2, <2>3, <2>4 DEF HelpersInv
<1>9. CASE CallSafeCast
  <2>0. PICK target \in Types, original \in Types :
          \E val \in Values(original) :
            Calls([op |-> "SafeCast", target |-> target, val |-> val, cast |-> SafeCast(target, original, val)])
    BY <1>9 DEF CallSafeCast
  <2>1. PICK val \in Values(original) :
          Calls([op |-> "SafeCast", target |-> target, val |-> val, cast |-> SafeCast(target, original, val)])
    BY <2>0
  <2>2. /\ call' = [op |-> "SafeCast", target |-> target, val |-> val, cast |-> SafeCast(target, original, val)]
        /\ executing_directory' = executing_directory
    BY <2>1 DEF Calls
  <2>3. call'.op = "SafeCast" /\ call'.target = target /\ call'.val = val
        /\ call'.cast = SafeCast(target, original, val)
    BY <2>2
  <2>4. target \in IntegerTypes /\ original \in IntegerTypes
    BY HelpersAssumption DEF Types, IntegerTypes
  <2>5. CastsWhatFits'
    BY <2>3, <2>4, SafeCastExact DEF CastsWhatFits
  <2>6. QED BY <1>1, <1>2, <2>2, <2>3, <2>5 DEF HelpersInv
<1>10. CASE CallSweep
  <2>1. PICK v \in SweptConnections : Calls([op |-> "Sweep", before |-> v, swept |-> v, it |-> 1])
    BY <1>10 DEF CallSweep
  <2>2. /\ call' = [op |-> "Sweep", before |-> v, swept |-> v, it |-> 1]
        /\ executing_directory' = executing_directory
    BY <2>1 DEF Calls
  <2>3. call'.op = "Sweep" /\ call'.before = v /\ call'.swept = v /\ call'.it = 1
    BY <2>2
  <2>4. SweptUpToIterator'
    BY <2>3, SweptBegins DEF SweptUpToIterator
  <2>5. QED BY <1>1, <1>2, <2>2, <2>3, <2>4 DEF HelpersInv
<1>11. CASE SweepIteration
  <2>1. /\ call.op = "Sweep" /\ call.it <= Len(call.swept)
        /\ call' = IF call.swept[call.it].dead
                   THEN [call EXCEPT !.swept = RemoveAt(@, call.it)]
                   ELSE [call EXCEPT !.it = @ + 1]
        /\ executing_directory' = executing_directory
    BY <1>11 DEF SweepIteration
  <2>2. SweptSoFar(call.before, call.swept, call.it)
    BY <1>2, <2>1 DEF SweptUpToIterator
  <2>3. call'.op = "Sweep" /\ SweptSoFar(call'.before, call'.swept, call'.it)
    <3>1. CASE call.swept[call.it].dead
      <4>1. call' = [call EXCEPT !.swept = RemoveAt(@, call.it)]
        BY <2>1, <3>1
      <4>2. QED BY <2>1, <2>2, <3>1, <4>1, SweptErasing
    <3>2. CASE ~call.swept[call.it].dead
      <4>1. call' = [call EXCEPT !.it = @ + 1]
        BY <2>1, <3>2
      <4>2. QED BY <2>1, <2>2, <3>2, <4>1, SweptKeeping
    <3>3. QED BY <3>1, <3>2
  <2>4. SweptUpToIterator'
    BY <2>3 DEF SweptUpToIterator
  <2>5. QED BY <1>1, <1>2, <2>1, <2>3, <2>4 DEF HelpersInv
<1>12. CASE UNCHANGED helpersVars
  BY <1>12 DEF HelpersInv, helpersVars, ResolvedBesideExecutable, SavedBelowOutputPath,
     TrimsBothEnds, PaddingTrimsAway, CastsWhatFits, SweptUpToIterator
<1>13. QED BY <1>4, <1>5, <1>6, <1>7, <1>8, <1>9, <1>10, <1>11, <1>12 DEF HelpersNext

LEMMA HelpersInvHolds == HelpersSpec => []HelpersInv
BY HelpersInvInit, HelpersInvStep, PTL DEF HelpersSpec

\* Every call of SafeCast is exact.
THEOREM EveryCastExact == HelpersSpec => []CastsWhatFits
<1>1. HelpersInv => CastsWhatFits
  BY DEF HelpersInv
<1>2. QED BY <1>1, HelpersInvHolds, PTL

\* Whatever directories are set: a file is resolved to the place of the
\* executable's name, and a directory set again is the same.
THEOREM EveryFileBesideExecutable == HelpersSpec => []ResolvedBesideExecutable
<1>1. HelpersInv => ResolvedBesideExecutable
  BY DEF HelpersInv
<1>2. QED BY <1>1, HelpersInvHolds, PTL

\* Recordings are saved in the output path, whatever it is, and a blank one
\* never becomes the root directory.
THEOREM EveryRecordingBelowOutputPath == HelpersSpec => []SavedBelowOutputPath
<1>1. HelpersInv => SavedBelowOutputPath
  BY DEF HelpersInv
<1>2. QED BY <1>1, HelpersInvHolds, PTL

\* Trimming removes the given characters at both ends, all of them and nothing
\* else, for strings of every length.
THEOREM EveryTrimBothEnds == HelpersSpec => []TrimsBothEnds
<1>1. HelpersInv => TrimsBothEnds
  BY DEF HelpersInv
<1>2. QED BY <1>1, HelpersInvHolds, PTL

\* Padding gives the length, leaves the string in front of it whole and is undone
\* by trimming, for strings of every length.
THEOREM EveryPaddingTrimsAway == HelpersSpec => []PaddingTrimsAway
<1>1. HelpersInv => PaddingTrimsAway
  BY DEF HelpersInv
<1>2. QED BY <1>1, HelpersInvHolds, PTL

\* A sweep of any number of connections, dead ones anywhere among them, erases
\* just those.
THEOREM EverySweepComplete == HelpersSpec => []SweepsAllThatCanDestruct
<1>1. HelpersInv => SweepsAllThatCanDestruct
  BY SweptAtEnd DEF HelpersInv, SweptUpToIterator, SweepsAllThatCanDestruct
<1>2. QED BY <1>1, HelpersInvHolds, PTL
===============================================================================
