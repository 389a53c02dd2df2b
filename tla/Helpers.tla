-------------------------------- MODULE Helpers --------------------------------
(***************************************************************************)
(* The program's pure functions, called one at a time with every input of  *)
(* the bounds, and the loop of the collector's sweep, one iteration a      *)
(* step.  Only the executing directory outlives a call.                    *)
(***************************************************************************)
EXTENDS Conversions, StringHelpers, Paths

CONSTANTS
    Chars,          \* the characters strings are made of
    MaxLength,      \* bound on their length
    MaxHalf,        \* bound on half the number of values of an integer type
    MaxSwept        \* bound on the connections of a sweep

ASSUME HelpersAssumption ==
    /\ Slash \in Chars
    /\ MaxLength \in Nat /\ MaxHalf \in Nat /\ MaxSwept \in Nat

VARIABLES executing_directory, call

helpersVars == <<executing_directory, call>>

Strings == BoundedSeq(Chars, MaxLength)
Types   == {Unsigned(2 * half) : half \in 1 .. MaxHalf} \cup {Signed(half) : half \in 1 .. MaxHalf}

\* A swept connection is its place in the vector and whether it can destruct.
SweptConnections == {v \in BoundedSeq([id : 1 .. MaxSwept, dead : BOOLEAN], MaxSwept) :
                        \A i \in DOMAIN v : v[i].id = i}

-------------------------------------------------------------------------------
HelpersInit == executing_directory = <<>> /\ call = [op |-> "none"]

\* Of the functions without a state a behaviour calls one, as its first step.
Calls(record) == call.op = "none" /\ call' = record /\ UNCHANGED executing_directory

Sets == call.op \in {"none", "SetExecutingDirectory", "SetToItself"}

CallSetExecutingDirectory ==
    /\ Sets
    /\ \E argv0 \in Strings :
           /\ executing_directory' = ExecutingDirectory(argv0)
           /\ call' = [op |-> "SetExecutingDirectory", argv0 |-> argv0]

\* As a test does before and after: to the directory itself and a slash.
CallSetToItself ==
    /\ Sets
    /\ executing_directory' = ExecutingDirectory(Append(executing_directory, Slash))
    /\ call' = [op |-> "SetToItself", before |-> executing_directory]

CallMediaSavePath ==
    \E out_path \in Strings, digit \in Chars \ {Slash} :
        Calls([op |-> "MediaSavePath", out_path |-> out_path, path |-> MediaSavePath(out_path, <<digit>>)])

CallStrTrim ==
    \E str \in Strings, chars \in SUBSET Chars :
        Calls([op |-> "StrTrim", str |-> str, chars |-> chars, trimmed |-> StrTrim(str, chars)])

CallStrMatchLen ==
    \E str \in Strings, target_len \in 0 .. MaxLength + 1, padding \in Chars :
        Calls([op |-> "StrMatchLen", str |-> str, target_len |-> target_len, padding |-> padding,
               matched |-> StrMatchLen(str, target_len, padding)])

CallSafeCast ==
    \E target, original \in Types : \E val \in Values(original) :
        Calls([op |-> "SafeCast", target |-> target, val |-> val, cast |-> SafeCast(target, original, val)])

\* for (auto it = begin(); it != end();) begins...
CallSweep ==
    \E v \in SweptConnections : Calls([op |-> "Sweep", before |-> v, swept |-> v, it |-> 1])

SweepIterationSkipping ==       \* slip: on to the next also after erasing
    /\ call.op = "Sweep" /\ call.it <= Len(call.swept)
    /\ call' = [call EXCEPT !.it = @ + 1,
                            !.swept = IF @[call.it].dead THEN RemoveAt(@, call.it) ELSE @]
    /\ UNCHANGED executing_directory

\* ... and goes on: erase gives the iterator after the erased element, which
\* has moved to the same place.
SweepIteration ==
    /\ call.op = "Sweep" /\ call.it <= Len(call.swept)
    /\ call' = IF call.swept[call.it].dead
               THEN [call EXCEPT !.swept = RemoveAt(@, call.it)]
               ELSE [call EXCEPT !.it = @ + 1]
    /\ UNCHANGED executing_directory

HelpersNext ==
    \/ CallSetExecutingDirectory \/ CallSetToItself \/ CallMediaSavePath
    \/ CallStrTrim \/ CallStrMatchLen \/ CallSafeCast
    \/ CallSweep \/ SweepIteration

HelpersSpec == HelpersInit /\ [][HelpersNext]_helpersVars

-------------------------------------------------------------------------------
\* A file of the program, such as the log, is resolved to the directory that
\* holds the executable, if its path names one: what follows the last slash is
\* replaced by the file's name.  A directory that was set can be set again.
ResolvedBesideExecutable ==
    LET resolved == ResolvePath(executing_directory, <<"f">>)
    IN  /\ call.op = "SetExecutingDirectory" /\ (\E i \in DOMAIN call.argv0 : call.argv0[i] = Slash) =>
              /\ IsPrefix(SubSeq(resolved, 1, Len(resolved) - 1), call.argv0)
              /\ \A i \in Len(resolved) .. Len(call.argv0) : call.argv0[i] # Slash
        /\ call.op = "SetToItself" => executing_directory = call.before

\* The save directory is in the output path, and with none in the working
\* directory: "Prevents accessing root directory on UNIX systems if save_path
\* is blank".
SavedBelowOutputPath ==
    call.op = "MediaSavePath" =>
        /\ IsPrefix(call.out_path, call.path)
        /\ call.path[1] = Slash => call.out_path # <<>> /\ call.out_path[1] = Slash
        /\ ExecutingDirectory(call.path) = call.out_path

\* Only the given characters are removed, at both ends, and all of them there.
TrimsBothEnds ==
    call.op = "StrTrim" =>
        \E i \in 0 .. Len(call.str) :
            LET kept == SubSeq(call.str, i + 1, i + Len(call.trimmed))
            IN  /\ kept = call.trimmed
                /\ \A k \in 1 .. Len(call.str) :
                      k <= i \/ k > i + Len(kept) => call.str[k] \in call.chars
                /\ kept # <<>> => kept[1] \notin call.chars /\ Last(kept) \notin call.chars

\* Padding brings a string to the length, never past it, is put behind the
\* string, which stays whole, and is undone by trimming.
PaddingTrimsAway ==
    call.op = "StrMatchLen" =>
        /\ Len(call.matched) = IF Len(call.str) < call.target_len THEN call.target_len
                                                                 ELSE Len(call.str)
        /\ \A i \in 1 .. Len(call.str) : call.matched[i] = call.str[i]
        /\ StrTrim(call.matched, {call.padding}) = StrTrim(call.str, {call.padding})

\* The assertion fails exactly when the target type does not have the value,
\* and otherwise the cast gives it unchanged.
CastsWhatFits ==
    call.op = "SafeCast" =>
        /\ call.cast.asserts <=> call.val \notin Values(call.target)
        /\ ~call.cast.asserts => call.cast.val = call.val

\* At its end the loop has erased what can be destructed, all of it and nothing
\* else, and has kept the others in order.
SweepsAllThatCanDestruct ==
    call.op = "Sweep" /\ call.it > Len(call.swept) =>
        /\ Range(call.swept) = {c \in Range(call.before) : ~c.dead}
        /\ \A i, j \in DOMAIN call.swept : i < j => call.swept[i].id < call.swept[j].id
===============================================================================
