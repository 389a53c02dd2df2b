-------------------------------- MODULE Logger --------------------------------
(***************************************************************************)
(* The log (src/src/core/logger.cpp): one std::ofstream, log_file, that    *)
(* every thread writes through LogMessage without a lock.  A line is two   *)
(* insertions, its text and its newline.  An insertion takes time: it      *)
(* begins and it ends, and if another thread uses log_file in between that *)
(* is a data race, whose outcomes are that the insertion is kept, is lost  *)
(* or faults (CrashHandler).                                               *)
(*                                                                         *)
(* What LogMessage writes to the console first, through a stream that does *)
(* its own locking, is left out.                                           *)
(***************************************************************************)
EXTENDS Integers, SequencesExt

CONSTANTS
    MaxLines,       \* bound on the lines of each thread that repeat
    LogFaults       \* what may go wrong with the log's file

Threads == {"main", "services"}

LogFaultKinds == { "open",      \* OpenLogFile cannot open it
                   "reopen" }   \* the crash handler cannot open it

ASSUME LoggerAssumption == MaxLines \in Nat /\ LogFaults \subseteq LogFaultKinds

VARIABLES
    faults,     \* what may go wrong in this behaviour
    logged,     \* how many lines each thread has begun to log
    part,       \* what each thread's LogMessage inserts next; none outside
    inside,     \* the threads in the middle of an insertion
    racing,     \* those whose insertion overlaps with another use of log_file
    raced,      \* history: was there ever a data race?
    stream,     \* log_file: is its file open, is its state good?
    buffer,     \* what log_file holds and has not written to its file
    file        \* what is in log.txt

logVars == <<faults, logged, part, inside, racing, raced, stream, buffer, file>>

Parts == {"text", "newline", "report"}

\* A part of the n-th line of a thread, or the thread's crash report.
Tokens == [by : Threads, n : Nat, part : Parts]

LoggerTypeOK ==
    /\ faults \in {{}, LogFaults}
    /\ logged \in [Threads -> Nat]
    /\ part \in [Threads -> {"none", "text", "newline"}]
    /\ racing \subseteq inside /\ inside \subseteq {t \in Threads : part[t] # "none"}
    /\ raced \in BOOLEAN /\ (racing # {} => raced)
    /\ stream \in [open : BOOLEAN, good : BOOLEAN]
    /\ buffer \in Seq(Tokens) /\ (~stream.open => buffer = <<>>)
    /\ file \in Seq(Tokens)

\* The process starts: log_file is constructed and not open.
LoggerInit ==
    /\ faults \in {{}, LogFaults}
    /\ logged = [t \in Threads |-> 0]
    /\ part = [t \in Threads |-> "none"]
    /\ inside = {} /\ racing = {} /\ raced = FALSE
    /\ stream = [open |-> FALSE, good |-> TRUE]
    /\ buffer = <<>>
    /\ file = <<>>

-------------------------------------------------------------------------------
\* Thread t uses log_file while others are inside an insertion.
Uses(t) ==
    LET others == inside \ {t}
    IN  /\ racing' = (IF others = {} THEN racing ELSE racing \cup others \cup ({t} \cap inside'))
        /\ raced' = (raced \/ others # {})

\* Opening for writing empties the file, and on success clears the error that
\* a line logged before has left.
OpenLogFile ==
    /\ \/ /\ stream' = [open |-> TRUE, good |-> TRUE]
          /\ file' = <<>>
       \/ /\ "open" \in faults
          /\ stream' = [stream EXCEPT !.good = FALSE]
          /\ UNCHANGED file
    /\ UNCHANGED <<faults, logged, part, inside, racing, raced, buffer>>

\* Slip: closed without what is buffered.
CloseLogFileDropping(t) ==
    /\ IF stream.open
       THEN /\ stream' = [stream EXCEPT !.open = FALSE]
            /\ buffer' = <<>>
            /\ UNCHANGED <<inside, file>> /\ Uses(t)
       ELSE UNCHANGED <<inside, racing, raced, stream, buffer, file>>
    /\ UNCHANGED <<faults, logged, part>>

\* Slip: what is buffered is not written, and not dropped.
CloseLogFileKeeping(t) ==
    /\ IF stream.open
       THEN /\ stream' = [stream EXCEPT !.open = FALSE]
            /\ UNCHANGED <<inside, buffer, file>> /\ Uses(t)
       ELSE UNCHANGED <<inside, racing, raced, stream, buffer, file>>
    /\ UNCHANGED <<faults, logged, part>>

CloseLogFile(t) ==
    /\ IF stream.open
       THEN /\ stream' = [stream EXCEPT !.open = FALSE]
            /\ file' = file \o buffer /\ buffer' = <<>>
            /\ UNCHANGED inside /\ Uses(t)
       ELSE UNCHANGED <<inside, racing, raced, stream, buffer, file>>
    /\ UNCHANGED <<faults, logged, part>>

\* LogMessage begins.
LogMessage(t) ==
    /\ part[t] = "none"
    /\ logged' = [logged EXCEPT ![t] = @ + 1]
    /\ part' = [part EXCEPT ![t] = "text"]
    /\ UNCHANGED <<faults, inside, racing, raced, stream, buffer, file>>

InsertBegins(t) ==
    /\ part[t] # "none" /\ t \notin inside
    /\ inside' = inside \cup {t}
    /\ Uses(t)
    /\ UNCHANGED <<faults, logged, part, stream, buffer, file>>

\* Into a file that is not open nothing goes, and the next insertions are
\* ignored.  A full buffer is written to the file.
InsertEnds(t) ==
    LET token == [by |-> t, n |-> logged[t], part |-> part[t]]
    IN  /\ t \in inside
        /\ inside' = inside \ {t} /\ racing' = racing \ {t}
        /\ part' = [part EXCEPT ![t] = IF @ = "text" THEN "newline" ELSE "none"]
        /\ IF stream.open /\ stream.good
           THEN /\ \/ buffer' = Append(buffer, token) /\ UNCHANGED file
                   \/ buffer' = <<>> /\ file' = Append(file \o buffer, token)
                   \/ t \in racing /\ UNCHANGED <<buffer, file>>
                /\ UNCHANGED stream
           ELSE stream' = [stream EXCEPT !.good = FALSE] /\ UNCHANGED <<buffer, file>>
        /\ UNCHANGED <<faults, logged, raced>>

\* Where a sequence of tokens has the parts that thread t has logged, and when
\* its thread inserts a part.
PlacesOf(t, tokens) == {i \in DOMAIN tokens : tokens[i].by = t /\ tokens[i].part # "report"}
Turn(k) == 2 * k.n + IF k.part = "newline" THEN 1 ELSE 0
===============================================================================
