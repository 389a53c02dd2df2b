--------------------------------- MODULE Paths ---------------------------------
(***************************************************************************)
(* Where the program puts its files: relative to the directory of its      *)
(* executable (src/src/core/filesystem.cpp) and to the output path given   *)
(* on the command line (src/src/hyperion.cpp).                             *)
(***************************************************************************)
EXTENDS Integers, SequencesExt

Slash == "/"

\* Slip: the search for a slash begins at the front.
ExecutingDirectoryFromFront(directory) ==
    LET slashes == {k \in 0 .. Len(directory) - 1 : directory[k + 1] = Slash}
    IN  SubSeq(directory, 1, IF slashes = {} THEN 0 ELSE Min(slashes))

\* What SetExecutingDirectory stores: up to the last slash, without it.
ExecutingDirectory(directory) ==
    LET slashes == {k \in 0 .. Len(directory) - 1 : directory[k + 1] = Slash}
    IN  SubSeq(directory, 1, Max(slashes \cup {0}))

ResolvePath(executing_directory, path) == Append(executing_directory, Slash) \o path

SavePathWithSlash(out_path) == Append(out_path, Slash)      \* slip: blank or not

SavePath(out_path) == IF out_path = <<>> THEN out_path ELSE Append(out_path, Slash)

\* time is std::to_string of the UNIX time.
MediaSavePath(out_path, time) == SavePath(out_path) \o time
===============================================================================
