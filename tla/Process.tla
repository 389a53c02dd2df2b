-------------------------------- MODULE Process --------------------------------
(***************************************************************************)
(* main (src/src/hyperion.cpp) from its first line to its last, as far as  *)
(* the log is concerned: when it is opened and closed, what is logged when *)
(* by main's thread and, between the start of the services thread and its  *)
(* join, by the handlers of ConnectionServices, and how the process ends.  *)
(***************************************************************************)
EXTENDS CrashHandler

VARIABLES mainPc, servicesPc

processVars == <<logVars, crashVars, mainPc, servicesPc>>

ProcessTypeOK ==
    /\ LoggerTypeOK /\ CrashTypeOK
    /\ mainPc \in {"directory", "open", "startup", "arguments", "save_dir", "thread", "command",
                   "stopping", "join", "destroy", "goodbye", "error", "return", "done"}
    /\ servicesPc \in {"none", "run", "returned"}

ProcessInit ==
    /\ LoggerInit /\ CrashInit
    /\ mainPc = "directory" /\ servicesPc = "none"

-------------------------------------------------------------------------------
Main(at, next) == Idle("main") /\ mainPc = at /\ mainPc' = next

MainLogs(at, next) ==
    /\ Main(at, next)
    /\ LogMessage("main")
    /\ UNCHANGED <<crashVars, servicesPc>>

MainGoes(at, next) ==
    /\ Main(at, next)
    /\ UNCHANGED <<logVars, crashVars, servicesPc>>

\* Logged before there is a log file.
SetExecutingDirectory == MainLogs("directory", "open")

\* The guard that closes the log is made, the log opened, the handler set.
OpenLog ==
    /\ Main("open", "startup")
    /\ OpenLogFile
    /\ UNCHANGED <<crashVars, servicesPc>>

StartupMessage == MainLogs("startup", "arguments")

\* The process ends by return from main or by exit: either way log_file is
\* closed, by the guard or by its own destructor.
Exits ==
    /\ CloseLogFile("main")
    /\ process' = "exited"
    /\ UNCHANGED <<signal, handler, servicesPc>>

ParseArguments == MainGoes("arguments", "save_dir") \/ MainGoes("arguments", "error")

\* --help, --version and what TCLAP reports itself.
ArgumentsExit == Main("arguments", "done") /\ Exits

SaveDirectoryMessage == MainLogs("save_dir", "thread")

StartThread ==
    /\ Main("thread", "command")
    /\ servicesPc' = "run"
    /\ UNCHANGED <<logVars, crashVars>>

\* A std::exception before there is a thread.
RunServerThrows == MainGoes("thread", "error")

\* Any other line than "stop".
InvalidCommand == logged["main"] < 3 + MaxLines /\ MainLogs("command", "command")

StopCommand == MainGoes("command", "stopping")

\* The io_context is stopped right after.
StopMessage == MainLogs("stopping", "join")

JoinDetached == MainGoes("join", "destroy")     \* slip: the thread is left to itself

Join == servicesPc = "returned" /\ MainGoes("join", "destroy")

\* ~NetData; the assertion in ~Connection may fail (Server).
DestroyNetData ==
    \/ MainGoes("destroy", "goodbye")
    \/ mainPc = "destroy" /\ Idle("main") /\ Raise("main", "SIGABRT") /\ UNCHANGED <<mainPc, servicesPc>>

Goodbye == MainLogs("goodbye", "return")

ErrorMessage == MainLogs("error", "return")

Return == Main("return", "done") /\ Exits

MainNext ==
    \/ SetExecutingDirectory \/ OpenLog \/ StartupMessage \/ ParseArguments \/ ArgumentsExit
    \/ SaveDirectoryMessage \/ StartThread \/ RunServerThrows
    \/ InvalidCommand \/ StopCommand \/ StopMessage \/ Join \/ DestroyNetData
    \/ Goodbye \/ ErrorMessage \/ Return

-------------------------------------------------------------------------------
\* A handler logs a message.
HandlerLogs ==
    /\ servicesPc = "run" /\ Idle("services") /\ logged["services"] < MaxLines
    /\ LogMessage("services")
    /\ UNCHANGED <<crashVars, mainPc, servicesPc>>

\* run() returns when main's thread has stopped the io_context.
ServicesReturn ==
    /\ servicesPc = "run" /\ Idle("services")
    /\ mainPc = "join" /\ part["main"] = "none"
    /\ servicesPc' = "returned"
    /\ UNCHANGED <<logVars, crashVars, mainPc>>

\* An assertion fails or an exception leaves the thread (Server).
ServicesAbort ==
    /\ servicesPc = "run" /\ Idle("services")
    /\ Raise("services", "SIGABRT")
    /\ UNCHANGED <<mainPc, servicesPc>>

ServicesNext == HandlerLogs \/ ServicesReturn \/ ServicesAbort

-------------------------------------------------------------------------------
Insert(t) ==
    /\ Runs(t)
    /\ InsertBegins(t) \/ InsertEnds(t)
    /\ UNCHANGED <<crashVars, mainPc, servicesPc>>

Crash(t) ==
    /\ InsertFaults(t) \/ SignalCrashHandler(t)
    /\ UNCHANGED <<mainPc, servicesPc>>

\* SIGINT, SIGTERM and SIGKILL have no handler.
Killed ==
    /\ process = "up"
    /\ process' = "killed"
    /\ UNCHANGED <<signal, handler, logVars, mainPc, servicesPc>>

ProcessNext == MainNext \/ ServicesNext \/ (\E t \in Threads : Insert(t) \/ Crash(t)) \/ Killed

\* A thread that runs is scheduled, in a signal handler as anywhere.
ProcessSpec == ProcessInit /\ [][ProcessNext]_processVars
FairProcessSpec ==
    ProcessSpec /\ \A t \in Threads : WF_processVars(Insert(t)) /\ WF_processVars(Crash(t))

-------------------------------------------------------------------------------
\* The first line a thread logs to the file; main's first line is logged before.
FirstLine(t) == IF t = "main" THEN 2 ELSE 1

\* What a thread has logged since the log was opened.
LoggedBy(t) == [by : {t}, n : FirstLine(t) .. logged[t], part : {"text", "newline"}]

\* After an exit the file holds all that every thread has logged, and after a
\* crash all that the crashed thread has (not the other, whose lines are lost
\* once the handler has closed log_file), each part once and in order, unless
\* there was no log file or two threads raced for it.
LogComplete ==
    \A t \in Threads :
        /\ faults = {} /\ ~raced
        /\ process = "exited" \/ (process = "crashed" /\ handler[t] # "none")
        => LET places == PlacesOf(t, file)
           IN  /\ \A k \in LoggedBy(t) : \E i \in places : file[i] = k
               /\ \A i \in places : file[i] \in LoggedBy(t)
               /\ \A i, j \in places : i < j => Turn(file[i]) < Turn(file[j])

\* A crash report is the end of the log, whatever the other thread still logs
\* and log_file still held when the handler took its file over.
ReportsLast ==
    \A i, j \in DOMAIN file : i < j /\ file[i].part = "report" => file[j].part = "report"

\* The lines main logs with no services thread beside it: up to its start, and
\* from its join on.
Alone(n) == n \in 1 .. 3 \/ (mainPc \in {"return", "done"} /\ n = logged["main"])

\* Those lines are whole: nothing comes between a text and its newline.
LinesWholeWhenAlone ==
    LET log == file \o buffer
    IN  \A i \in DOMAIN log :
            log[i].by = "main" /\ log[i].part = "text" /\ Alone(log[i].n)
            => IF i = Len(log) THEN part["main"] = "newline"
               ELSE log[i + 1] = [log[i] EXCEPT !.part = "newline"]

\* What is in the log stays there for the life of the process.
LogOnlyGrows ==
    [][mainPc = "open" \/ IsPrefix(file, file')]_processVars

\* On the orderly way out the log is never closed under a thread that writes it.
ClosedUnderWriterOnlyByCrash ==
    [][stream.open /\ ~stream'.open /\ inside # {} => \E t \in Threads : handler[t] # "none"]_processVars

\* The refinement of Lifecycle: main starts until there is a services thread,
\* and when there never is one it still is starting as it ends.
MainStage ==
    IF servicesPc = "none" THEN "starting"
    ELSE IF mainPc = "command" THEN "serving"
    ELSE IF mainPc \in {"stopping", "join"} THEN "stopping" ELSE "tearing"

Life == INSTANCE Lifecycle WITH
            main     <- MainStage,
            services <- IF servicesPc = "run" THEN "running" ELSE servicesPc,
            end      <- IF process \in {"up", "exited"} THEN process ELSE "crashed"

\* Whoever logs, races or crashes: main and the services thread go through the
\* stages that Server shows in detail, and an orderly end, which closes the log,
\* is one before the thread's start or after its join.
ImplementsLifecycle == Life!LifecycleSpec

\* A process that has crashed ends, also when the handler crashes.
CrashEnds == (\E t \in Threads : handler[t] # "none") ~> process # "up"
===============================================================================
