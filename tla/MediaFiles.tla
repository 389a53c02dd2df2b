------------------------------- MODULE MediaFiles -------------------------------
(***************************************************************************)
(* Where the received media goes: the out file of each connection          *)
(* (ConnectionBase in src/src/net/connection.cpp, media::MakeSaveFile in   *)
(* src/src/media/save.cpp), over several runs of the server.  The save     *)
(* directory is named after the second the server starts in, the file      *)
(* after the connection's id and media type, and ids restart at 1.         *)
(*                                                                         *)
(* A file is closed at the end of every handler, so a handler is one step  *)
(* and a stopped or crashed server leaves nothing unwritten.               *)
(***************************************************************************)
EXTENDS Integers, Sequences

CONSTANTS
    MaxRuns,          \* bound on the runs of the server
    MaxSecond,        \* bound on the clock
    MaxConnections,   \* bound on the accepted connections of one run
    MaxReceived,      \* bound on the pieces a connection receives
    FileFaults        \* what a file system that fails may do wrong

FileFaultKinds == { "open",      \* an out file that exists cannot be opened
                    "make",      \* a directory or file cannot be made
                    "write",     \* a piece cannot be written
                    "remove" }   \* somebody removes saved media

ASSUME MediaFilesAssumption ==
    /\ MaxRuns \in Nat /\ MaxSecond \in Nat
    /\ MaxConnections \in Nat /\ MaxReceived \in Nat
    /\ FileFaults \subseteq FileFaultKinds

Runs    == 1 .. MaxRuns
Seconds == 0 .. MaxSecond
Exts    == {"png", "mp4"}     \* MediaTypeExt

\* A connection over all runs, and the n-th piece that it receives.
Streams == Runs \X (1 .. MaxConnections)
Pieces  == [of : Streams, n : 1 .. MaxReceived]

\* <save directory>/<id>.<ext>
Paths == Seconds \X (1 .. MaxConnections) \X Exts

VARIABLES
    faults,             \* what the file system may do wrong in this behaviour
    clock,              \* std::time
    run,                \* how often the server was started
    up,                 \* is it running?
    saveDir,            \* mediaSavePath of each run: the second it started in
    ext,                \* the file extension of each stream's media type
    phase,              \* where each stream is
    received,           \* how many pieces each stream has received
    files               \* the content of the files that exist, by path

mediaVars == <<faults, clock, run, up, saveDir, ext, phase, received, files>>

MediaTypeOK ==
    /\ faults \in {{}, FileFaults}
    /\ clock \in Seconds
    /\ run \in 0 .. MaxRuns
    /\ up \in BOOLEAN
    /\ saveDir \in [Runs -> Seconds]
    /\ ext \in [Streams -> Exts]
    /\ phase \in [Streams -> {"none", "receiving", "ended"}]
    /\ received \in [Streams -> 0 .. MaxReceived]
    /\ DOMAIN files \subseteq Paths
    /\ \A p \in DOMAIN files : files[p] \in Seq(Pieces)

MediaInit ==
    /\ faults \in {{}, FileFaults}     \* it works, or it may fail
    /\ clock \in Seconds
    /\ run = 0 /\ up = FALSE
    /\ saveDir = [r \in Runs |-> 0]
    /\ ext = [c \in Streams |-> "png"]
    /\ phase = [c \in Streams |-> "none"]
    /\ received = [c \in Streams |-> 0]
    /\ files = [p \in {} |-> <<>>]

-------------------------------------------------------------------------------
MakeOutFilePathFromZero(c, e) == <<saveDir[c[1]], c[2] - 1, e>>     \* slip: ids from 0

MakeOutFilePathOfType(c, e) == <<saveDir[c[1]], 1, e>>           \* slip: without the id

MakeOutFilePath(c, e) == <<saveDir[c[1]], c[2], e>>

PathOf(c) == MakeOutFilePath(c, ext[c])

\* The files once content is at path.
Put(path, content) ==
    [p \in DOMAIN files \cup {path} |-> IF p = path THEN content ELSE files[p]]

MayFail(fault) == fault \in faults

\* Slip: an existing file is kept.
MakeSaveFileKeeping(path) == IF path \in DOMAIN files THEN files[path] ELSE <<>>

\* media::MakeSaveFile makes the directories and opens the file for writing,
\* which empties it when it exists.
MakeSaveFile(path) == <<>>

\* Slip: opened as MakeSaveFile does.
OpenOutFileEmptying(path) == {<<>>}

\* What the opened file may hold.  Opening for appending makes a file that is
\* not there; when it fails, the file is made anew.
OpenOutFile(path) ==
    {IF path \in DOMAIN files THEN files[path] ELSE MakeSaveFile(path)}
        \cup {MakeSaveFile(path) : f \in {"open"} \cap faults}

\* Neither way succeeds.  A missing directory already makes appending fail.
OpenOutFileThrows(path) == MayFail("make") /\ (MayFail("open") \/ path \notin DOMAIN files)

-------------------------------------------------------------------------------
StartServer ==
    /\ ~up /\ run < MaxRuns
    /\ up' = TRUE
    /\ run' = run + 1
    /\ saveDir' = [saveDir EXCEPT ![run + 1] = clock]
    /\ UNCHANGED <<faults, clock, ext, phase, received, files>>

\* By command or by crash, with all its connections.
ServerEnds ==
    /\ up
    /\ up' = FALSE
    /\ phase' = [c \in Streams |-> IF phase[c] = "receiving" THEN "ended" ELSE phase[c]]
    /\ UNCHANGED <<faults, clock, run, saveDir, ext, received, files>>

SecondPasses ==
    /\ clock < MaxSecond
    /\ clock' = clock + 1
    /\ UNCHANGED <<faults, run, up, saveDir, ext, phase, received, files>>

\* A greeting of media type e is accepted.  An id is taken when a client
\* connects, so greetings come in any order of ids, and of some ids never.  If
\* the out file cannot be made the connection is ended.
BeginOutFiles(c, e) ==
    /\ up /\ c[1] = run /\ phase[c] = "none"
    /\ ext' = [ext EXCEPT ![c] = e]
    /\ \/ /\ phase' = [phase EXCEPT ![c] = "receiving"]
          /\ files' = Put(MakeOutFilePath(c, e), MakeSaveFile(MakeOutFilePath(c, e)))
       \/ /\ MayFail("make")
          /\ phase' = [phase EXCEPT ![c] = "ended"]
          /\ UNCHANGED files
    /\ UNCHANGED <<faults, clock, run, up, saveDir, received>>

\* A piece is received and saved, or lost with no more than a log message.
ReceiveCallback(c) ==
    LET piece == [of |-> c, n |-> received[c] + 1]
    IN  /\ up /\ phase[c] = "receiving" /\ received[c] < MaxReceived
        /\ received' = [received EXCEPT ![c] = @ + 1]
        /\ \/ \E content \in OpenOutFile(PathOf(c)) :
                 \/ files' = Put(PathOf(c), Append(content, piece))
                 \/ MayFail("write") /\ files' = Put(PathOf(c), content)
           \/ OpenOutFileThrows(PathOf(c)) /\ UNCHANGED files
        /\ UNCHANGED <<faults, clock, run, up, saveDir, ext, phase>>

Disconnects(c) ==
    /\ up /\ phase[c] = "receiving"
    /\ phase' = [phase EXCEPT ![c] = "ended"]
    /\ UNCHANGED <<faults, clock, run, up, saveDir, ext, received, files>>

MediaIsRemoved(path) ==
    /\ MayFail("remove") /\ path \in DOMAIN files
    /\ files' = [p \in DOMAIN files \ {path} |-> files[p]]
    /\ UNCHANGED <<faults, clock, run, up, saveDir, ext, phase, received>>

MediaNext ==
    \/ StartServer \/ ServerEnds \/ SecondPasses
    \/ \E c \in Streams, e \in Exts : BeginOutFiles(c, e)
    \/ \E c \in Streams : ReceiveCallback(c) \/ Disconnects(c)
    \/ \E path \in Paths : MediaIsRemoved(path)

MediaSpec == MediaInit /\ [][MediaNext]_mediaVars

-------------------------------------------------------------------------------
\* The pieces of a file come from one connection, whose file it is, in the
\* order in which it received them and none twice, whatever failed, and also
\* when a server that is restarted within the second uses a path again.
FileOfOneStream ==
    \A p \in DOMAIN files : \A i, j \in DOMAIN files[p] :
        /\ files[p][i].of = files[p][j].of
        /\ PathOf(files[p][i].of) = p
        /\ i < j => files[p][i].n < files[p][j].n

\* When the file system works, a stream's file holds everything it received,
\* for good, unless a later run was started in the same second.
EverythingSaved ==
    faults = {} =>
        \A c \in Streams :
            /\ phase[c] # "none"
            /\ \A r \in Runs : c[1] < r /\ r <= run => saveDir[r] # saveDir[c[1]]
            => /\ PathOf(c) \in DOMAIN files
               /\ files[PathOf(c)] = [n \in 1 .. received[c] |-> [of |-> c, n |-> n]]

(***************************************************************************)
(* The refinement of Recorder: a stream's recording is what is at its      *)
(* path, if all of it is the stream's.                                     *)
(***************************************************************************)
Numbers(c, content) ==
    IF \A i \in DOMAIN content : content[i].of = c
    THEN [i \in DOMAIN content |-> content[i].n]
    ELSE <<>>

Recording(c) == IF PathOf(c) \in DOMAIN files THEN Numbers(c, files[PathOf(c)]) ELSE <<>>

recordingBar == [c \in Streams |-> Recording(c)]

R == INSTANCE Recorder WITH
        Stream <- Streams, reliable <- faults = {},
        stage <- phase, heard <- received, recording <- recordingBar

\* Out files are a recorder: whatever is restarted, cut short or goes wrong, a
\* recording changes only by what its own stream receives, is overwritten only
\* once its stream is over, and misses nothing while the file system works.
ImplementsRecorder == R!RecorderSpec
===============================================================================
