------------------------------ MODULE CrashHandler ------------------------------
(***************************************************************************)
(* SignalCrashHandler (src/src/core/crash_handler.cpp) runs in the thread  *)
(* that raised a signal: it closes the log under every other thread, opens *)
(* its file again with fopen, writes the report there and calls exit.  The *)
(* result of fopen is not looked at.  A thread's signal is blocked while   *)
(* its handler runs: raised again, it kills the process.                   *)
(***************************************************************************)
EXTENDS Logger

VARIABLES
    process,    \* up; or how it ended: exited, crashed (by exit in the
                \*  handler), killed (with no handler running to its end)
    signal,     \* the last signal each thread has raised
    handler     \* where the thread is in SignalCrashHandler

crashVars == <<process, signal, handler>>

CrashTypeOK ==
    /\ process \in {"up", "exited", "crashed", "killed"}
    /\ signal \in [Threads -> {"none", "SIGABRT", "SIGSEGV"}]
    /\ handler \in [Threads -> {"none", "close", "fopen", "report", "exit"}]
    /\ \A t \in Threads : signal[t] = "none" <=> handler[t] = "none"

CrashInit ==
    /\ process = "up"
    /\ signal = [t \in Threads |-> "none"]
    /\ handler = [t \in Threads |-> "none"]

\* Thread t runs its own code, and is not inside LogMessage.
Runs(t) == process = "up" /\ handler[t] = "none"
Idle(t) == Runs(t) /\ part[t] = "none"

-------------------------------------------------------------------------------
Raise(t, sig) ==
    /\ Runs(t)
    /\ signal' = [signal EXCEPT ![t] = sig]
    /\ handler' = [handler EXCEPT ![t] = "close"]
    /\ UNCHANGED <<process, logVars>>

\* An insertion that raced may fault.
InsertFaults(t) == t \in racing /\ Raise(t, "SIGSEGV")

Handler(t, at, next) ==
    /\ process = "up" /\ handler[t] = at
    /\ handler' = [handler EXCEPT ![t] = next]

HandlerLeavesLogOpen(t) ==      \* slip: opened a second time only
    /\ Handler(t, "close", "fopen")
    /\ UNCHANGED <<process, signal, logVars>>

\* CRASH_OPEN_LOG_FILE closes log_file...
HandlerClosesLog(t) ==
    /\ Handler(t, "close", "fopen")
    /\ CloseLogFile(t)
    /\ UNCHANGED <<process, signal>>

HandlerOpensTruncating(t) ==    \* slip: fopen(..., "w")
    /\ Handler(t, "fopen", "report")
    /\ file' = <<>>
    /\ UNCHANGED <<process, signal, faults, logged, part, inside, racing, raced, stream, buffer>>

\* ... and opens its file for appending...
HandlerOpensLog(t) ==
    /\ Handler(t, "fopen", "report")
    /\ UNCHANGED <<process, signal, logVars>>

HandlerWritesToNullAgain(t) ==  \* slip: a signal is not blocked in its handler
    /\ "reopen" \in faults
    /\ process = "up" /\ handler[t] = "fopen"
    /\ signal' = [signal EXCEPT ![t] = "SIGSEGV"]
    /\ handler' = [handler EXCEPT ![t] = "close"]
    /\ UNCHANGED <<process, logVars>>

\* ... or, that failing, writes to a null FILE: a fault in the handler, which
\* starts over for the new signal and is not started for the same one.
HandlerWritesToNull(t) ==
    /\ "reopen" \in faults
    /\ process = "up" /\ handler[t] = "fopen"
    /\ IF signal[t] = "SIGSEGV"
       THEN process' = "killed" /\ UNCHANGED <<signal, handler>>
       ELSE /\ signal' = [signal EXCEPT ![t] = "SIGSEGV"]
            /\ handler' = [handler EXCEPT ![t] = "close"]
            /\ UNCHANGED process
    /\ UNCHANGED logVars

\* The signal's name, PrintStackTrace, which closes the file.
PrintStackTrace(t) ==
    /\ Handler(t, "report", "exit")
    /\ file' = Append(file, [by |-> t, n |-> logged[t], part |-> "report"])
    /\ UNCHANGED <<process, signal, faults, logged, part, inside, racing, raced, stream, buffer>>

\* exit destroys log_file, which would close it.
HandlerExits(t) ==
    /\ process = "up" /\ handler[t] = "exit"
    /\ process' = "crashed"
    /\ CloseLogFile(t)
    /\ UNCHANGED <<signal, handler>>

SignalCrashHandler(t) ==
    \/ HandlerClosesLog(t) \/ HandlerOpensLog(t) \/ HandlerWritesToNull(t)
    \/ PrintStackTrace(t) \/ HandlerExits(t)
===============================================================================
