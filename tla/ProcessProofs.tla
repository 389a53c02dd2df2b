----------------------------- MODULE ProcessProofs -----------------------------
(***************************************************************************)
(* The log over the life of the process, for any number of lines and every *)
(* fault.  A report is last because whoever writes one has closed log_file *)
(* for good: only main opens it, before there is a thread to crash.  A     *)
(* line is whole where main logs alone: nothing can come in between then.  *)
(* Nothing is lost because the file and the buffer together hold each      *)
(* thread's lines up to its next turn, and every end closes the log.  The  *)
(* threads keep to the stages of Lifecycle, in which Server has them, too. *)
(***************************************************************************)
EXTENDS Process, SequenceTheorems, TLAPS

NoReport(tokens) == \A i \in 1 .. Len(tokens) : tokens[i].part # "report"

\* Main has not opened the log: nothing can have gone wrong.
BeforeLog ==
    mainPc \in {"directory", "open"} =>
        /\ ~stream.open /\ servicesPc = "none"
        /\ racing = {} /\ \A t \in Threads : handler[t] = "none"

\* From the handler's close on log_file is closed, and until then there is no
\* report.
ClosedByHandler ==
    /\ \A t \in Threads : handler[t] \in {"fopen", "report", "exit"} => ~stream.open
    /\ NoReport(buffer)
    /\ mainPc \in {"directory", "open"} \/ stream.open => NoReport(file)

\* The services thread logs only while it runs, and it runs only where main
\* waits for commands or for its end.
ServicesBesideMain ==
    /\ servicesPc # "run" => part["services"] = "none"
    /\ servicesPc = "run" => mainPc \in {"command", "stopping", "join"}

PInv ==
    /\ ProcessTypeOK
    /\ BeforeLog /\ ClosedByHandler /\ ServicesBesideMain /\ ReportsLast

-------------------------------------------------------------------------------
(***************************************************************************)
(* Sequences of tokens.                                                    *)
(***************************************************************************)
LEMMA AppendedToken ==
  ASSUME NEW s \in Seq(Tokens), NEW k \in Tokens
  PROVE  /\ Append(s, k) \in Seq(Tokens)
         /\ IsPrefix(s, Append(s, k))
         /\ NoReport(s) /\ k.part # "report" => NoReport(Append(s, k))
<1>1. /\ Append(s, k) \in Seq(Tokens) /\ Len(Append(s, k)) = Len(s) + 1
      /\ \A i \in 1 .. Len(s) : Append(s, k)[i] = s[i]
      /\ Append(s, k)[Len(s) + 1] = k
  BY AppendProperties
<1>2. IsPrefix(s, Append(s, k))
  BY <1>1 DEF IsPrefix
<1>3. Len(s) \in Nat
  OBVIOUS
<1>4. NoReport(s) /\ k.part # "report" => NoReport(Append(s, k))
  BY <1>1, <1>3 DEF NoReport
<1>5. QED BY <1>1, <1>2, <1>4

LEMMA JoinedTokens ==
  ASSUME NEW s \in Seq(Tokens), NEW u \in Seq(Tokens)
  PROVE  /\ s \o u \in Seq(Tokens)
         /\ IsPrefix(s, s \o u)
         /\ NoReport(s) /\ NoReport(u) => NoReport(s \o u)
<1>1. /\ s \o u \in Seq(Tokens) /\ Len(s \o u) = Len(s) + Len(u)
      /\ \A i \in 1 .. Len(s) + Len(u) : (s \o u)[i] = IF i <= Len(s) THEN s[i] ELSE u[i - Len(s)]
  BY ConcatProperties, Zenon
<1>2. Len(s) \in Nat /\ Len(u) \in Nat
  OBVIOUS
<1>3. IsPrefix(s, s \o u)
  BY <1>1, <1>2 DEF IsPrefix
<1>4. NoReport(s) /\ NoReport(u) => NoReport(s \o u)
  BY <1>1, <1>2 DEF NoReport
<1>5. QED BY <1>1, <1>3, <1>4

LEMMA SameTokens ==
  ASSUME NEW s \in Seq(Tokens)
  PROVE  IsPrefix(s, s)
BY DEF IsPrefix

LEMMA PrefixTransitive ==
  ASSUME NEW s \in Seq(Tokens), NEW u \in Seq(Tokens), NEW k \in Tokens
  PROVE  IsPrefix(s, Append(s \o u, k))
<1>1. s \o u \in Seq(Tokens) /\ IsPrefix(s, s \o u)
  BY JoinedTokens
<1>2. IsPrefix(s \o u, Append(s \o u, k)) /\ Append(s \o u, k) \in Seq(Tokens)
  BY <1>1, AppendedToken
<1>3. QED BY <1>1, <1>2 DEF IsPrefix

LEMMA NoneIsLast ==
  ASSUME file \in Seq(Tokens), NoReport(file)
  PROVE  ReportsLast
BY DEF ReportsLast, NoReport

\* A flag of the stream is cleared, the other one stays.
Streams == [open : BOOLEAN, good : BOOLEAN]

LEMMA FlagCleared ==
  ASSUME NEW s \in Streams
  PROVE  /\ [s EXCEPT !.open = FALSE] \in Streams /\ ~([s EXCEPT !.open = FALSE]).open
         /\ [s EXCEPT !.good = FALSE] \in Streams /\ ([s EXCEPT !.good = FALSE]).open = s.open
<1>1. [s EXCEPT !.open = FALSE] \in Streams
  BY DEF Streams
<1>2. [s EXCEPT !.good = FALSE] \in Streams
  BY DEF Streams
<1>3. ~([s EXCEPT !.open = FALSE]).open
  BY DEF Streams
<1>4. ([s EXCEPT !.good = FALSE]).open = s.open
  BY DEF Streams
<1>5. QED BY <1>1, <1>2, <1>3, <1>4

\* A token of a line.
LEMMA LineToken ==
  ASSUME LoggerTypeOK, NEW t \in Threads, part[t] # "none"
  PROVE  /\ [by |-> t, n |-> logged[t], part |-> part[t]] \in Tokens
         /\ part[t] # "report"
BY DEF LoggerTypeOK, Tokens, Parts

-------------------------------------------------------------------------------
LEMMA PInvInit == ProcessInit => PInv
<1> SUFFICES ASSUME ProcessInit PROVE PInv
  OBVIOUS
<1> USE DEF ProcessInit, LoggerInit, CrashInit
<1>1. ProcessTypeOK
  <2>1. stream \in [open : BOOLEAN, good : BOOLEAN] /\ raced \in BOOLEAN
    OBVIOUS
  <2>2. <<>> \in Seq(Tokens)
    OBVIOUS
  <2>3. LoggerTypeOK
    BY <2>1, <2>2 DEF LoggerTypeOK
  <2>4. CrashTypeOK
    BY DEF CrashTypeOK
  <2>5. QED BY <2>3, <2>4 DEF ProcessTypeOK
<1>2. BeforeLog /\ ClosedByHandler /\ ServicesBesideMain
  BY DEF BeforeLog, ClosedByHandler, ServicesBesideMain, NoReport, Threads
<1>3. ReportsLast
  BY DEF ReportsLast
<1>4. QED BY <1>1, <1>2, <1>3 DEF PInv

(***************************************************************************)
(* The steps of main's thread.                                             *)
(***************************************************************************)
\* Where main goes from at to next, the conditions PInv puts on the two.
Orderly(at, next) ==
    /\ next \in {"directory", "open", "startup", "arguments", "save_dir", "thread", "command",
                 "stopping", "join", "destroy", "goodbye", "error", "return", "done"}
    /\ next \in {"directory", "open"} => at = "directory"
    /\ at \in {"command", "stopping", "join"} =>
          next \in {"command", "stopping", "join"} \/ servicesPc = "returned"

LEMMA MainGoesStep ==
  ASSUME PInv, NEW at, NEW next, MainGoes(at, next), Orderly(at, next)
  PROVE  PInv'
<1> USE DEF PInv, MainGoes, Main, logVars, crashVars, Orderly
<1>1. ProcessTypeOK'
  BY DEF ProcessTypeOK, LoggerTypeOK, CrashTypeOK
<1>2. BeforeLog'
  BY DEF BeforeLog
<1>3. ClosedByHandler'
  BY DEF ClosedByHandler
<1>4. ServicesBesideMain'
  BY DEF ServicesBesideMain, ProcessTypeOK
<1>5. ReportsLast'
  BY DEF ReportsLast
<1>6. QED BY <1>1, <1>2, <1>3, <1>4, <1>5

LEMMA MainLogsStep ==
  ASSUME PInv, NEW at, NEW next, MainLogs(at, next), Orderly(at, next)
  PROVE  PInv'
<1> USE DEF PInv, MainLogs, Main, LogMessage, crashVars, Orderly
<1>1. ProcessTypeOK'
  BY DEF ProcessTypeOK, LoggerTypeOK, CrashTypeOK, Threads
<1>2. BeforeLog'
  BY DEF BeforeLog
<1>3. ClosedByHandler'
  BY DEF ClosedByHandler
<1>4. ServicesBesideMain'
  BY DEF ServicesBesideMain, ProcessTypeOK, LoggerTypeOK, Threads
<1>5. ReportsLast'
  BY DEF ReportsLast
<1>6. QED BY <1>1, <1>2, <1>3, <1>4, <1>5

LEMMA OpenLogStep == PInv /\ OpenLog => PInv'
<1> SUFFICES ASSUME PInv, OpenLog PROVE PInv'
  OBVIOUS
<1> USE DEF PInv, OpenLog, Main, OpenLogFile, crashVars
<1>0. stream \in Streams /\ ~stream.open /\ <<>> \in Seq(Tokens)
  BY DEF ProcessTypeOK, LoggerTypeOK, BeforeLog, Streams
<1>2. NoReport(file') /\ file' \in Seq(Tokens)
  BY <1>0 DEF ClosedByHandler, NoReport, ProcessTypeOK, LoggerTypeOK
<1>8. stream' \in Streams
  <2>1. CASE stream' = [open |-> TRUE, good |-> TRUE]
    BY <2>1 DEF Streams
  <2>2. CASE stream' = [stream EXCEPT !.good = FALSE]
    BY <1>0, <2>2, FlagCleared, Zenon
  <2>3. QED BY <2>1, <2>2, Zenon
<1>9. LoggerTypeOK'
  BY <1>0, <1>2, <1>8 DEF ProcessTypeOK, LoggerTypeOK, Streams
<1>1. ProcessTypeOK'
  BY <1>9 DEF ProcessTypeOK, CrashTypeOK
<1>3. BeforeLog'
  BY DEF BeforeLog
<1>4. ClosedByHandler'
  BY <1>2 DEF ClosedByHandler, BeforeLog
<1>5. ServicesBesideMain'
  BY DEF ServicesBesideMain, BeforeLog
<1>6. ReportsLast'
  BY <1>2 DEF ReportsLast, NoReport
<1>7. QED BY <1>1, <1>3, <1>4, <1>5, <1>6

\* What closing log_file does, in whichever thread.
LEMMA CloseStep ==
  ASSUME PInv, NEW t \in Threads, CloseLogFile(t)
  PROVE  /\ LoggerTypeOK' /\ ~stream'.open /\ part' = part
         /\ NoReport(buffer')
         /\ mainPc \in {"directory", "open"} => UNCHANGED <<racing, file>>
         /\ ReportsLast'
         /\ IsPrefix(file, file')
<1> USE DEF PInv, CloseLogFile
<1>0. file \in Seq(Tokens) /\ buffer \in Seq(Tokens)
  BY DEF ProcessTypeOK, LoggerTypeOK
<1>1. CASE stream.open
  <2>1. NoReport(file \o buffer) /\ file \o buffer \in Seq(Tokens) /\ IsPrefix(file, file \o buffer)
    <3>1. NoReport(file) /\ NoReport(buffer)
      BY <1>1 DEF ClosedByHandler
    <3>2. QED BY <1>0, <3>1, JoinedTokens
  <2>7. stream' \in Streams /\ ~stream'.open
    <3>1. stream \in Streams
      BY DEF ProcessTypeOK, LoggerTypeOK, Streams
    <3>2. stream' = [stream EXCEPT !.open = FALSE]
      BY <1>1
    <3>3. QED BY <3>1, <3>2, FlagCleared, Zenon
  <2>8. racing' \subseteq inside' /\ raced' \in BOOLEAN /\ (racing' # {} => raced')
    BY <1>1 DEF Uses, ProcessTypeOK, LoggerTypeOK
  <2>9. buffer' = <<>> /\ file' = file \o buffer /\ <<>> \in Seq(Tokens)
    BY <1>1
  <2>2. LoggerTypeOK' /\ ~stream'.open
    BY <2>1, <2>7, <2>8, <2>9 DEF ProcessTypeOK, LoggerTypeOK, Streams
  <2>3. ReportsLast'
    BY <2>1, <2>9 DEF ReportsLast, NoReport
  <2>4. NoReport(buffer')
    BY <1>1 DEF NoReport
  <2>5. mainPc \notin {"directory", "open"}
    BY <1>1 DEF BeforeLog
  <2>6. QED BY <1>1, <2>1, <2>2, <2>3, <2>4, <2>5
<1>2. CASE ~stream.open
  BY <1>0, <1>2, SameTokens DEF ProcessTypeOK, LoggerTypeOK, ReportsLast, ClosedByHandler
<1>3. QED BY <1>1, <1>2

\* main returns or exits.
LEMMA ExitStep ==
  ASSUME PInv, NEW at \in {"arguments", "return"}, Main(at, "done"), Exits
  PROVE  PInv'
<1> USE DEF PInv, Main, Exits
<1>1. /\ LoggerTypeOK' /\ ~stream'.open /\ part' = part /\ NoReport(buffer')
      /\ ReportsLast'
  BY CloseStep DEF Threads
<1>2. ProcessTypeOK'
  BY <1>1 DEF ProcessTypeOK, CrashTypeOK
<1>3. BeforeLog' /\ ClosedByHandler'
  BY <1>1 DEF BeforeLog, ClosedByHandler
<1>4. ServicesBesideMain'
  BY <1>1 DEF ServicesBesideMain
<1>5. QED BY <1>1, <1>2, <1>3, <1>4

LEMMA StartThreadStep == PInv /\ StartThread => PInv'
<1> SUFFICES ASSUME PInv, StartThread PROVE PInv'
  OBVIOUS
<1> USE DEF PInv, StartThread, Main, logVars, crashVars
<1>1. ProcessTypeOK'
  BY DEF ProcessTypeOK, LoggerTypeOK, CrashTypeOK
<1>2. BeforeLog' /\ ClosedByHandler' /\ ServicesBesideMain'
  BY DEF BeforeLog, ClosedByHandler, ServicesBesideMain
<1>3. ReportsLast'
  BY DEF ReportsLast
<1>4. QED BY <1>1, <1>2, <1>3

(***************************************************************************)
(* Signals, in either thread.                                              *)
(***************************************************************************)
LEMMA RaiseStep ==
  ASSUME PInv, NEW t \in Threads, NEW sig \in {"SIGABRT", "SIGSEGV"}, Raise(t, sig),
         UNCHANGED <<mainPc, servicesPc>>, mainPc \notin {"directory", "open"}
  PROVE  PInv'
<1> USE DEF PInv, Raise, logVars
<1>1. CrashTypeOK'
  BY DEF ProcessTypeOK, CrashTypeOK
<1>2. ProcessTypeOK'
  BY <1>1 DEF ProcessTypeOK, LoggerTypeOK
<1>3. BeforeLog' /\ ServicesBesideMain'
  BY DEF BeforeLog, ServicesBesideMain
<1>4. ClosedByHandler'
  BY DEF ClosedByHandler, ProcessTypeOK, CrashTypeOK
<1>5. ReportsLast'
  BY DEF ReportsLast
<1>6. QED BY <1>2, <1>3, <1>4, <1>5

\* The handler's steps.  That it runs at all is after main has opened the log.
LEMMA HandlerAfterLog ==
  ASSUME PInv, NEW t \in Threads, handler[t] # "none"
  PROVE  mainPc \notin {"directory", "open"}
BY DEF PInv, BeforeLog

LEMMA HandlerClosesStep ==
  ASSUME PInv, NEW t \in Threads, HandlerClosesLog(t) \/ HandlerExits(t),
         UNCHANGED <<mainPc, servicesPc>>
  PROVE  PInv'
<1> USE DEF PInv, HandlerClosesLog, HandlerExits, Handler
<1>1. CloseLogFile(t) /\ mainPc \notin {"directory", "open"}
  BY HandlerAfterLog
<1>2. /\ LoggerTypeOK' /\ ~stream'.open /\ part' = part /\ NoReport(buffer')
      /\ ReportsLast'
  BY <1>1, CloseStep
<1>3. CrashTypeOK'
  BY DEF ProcessTypeOK, CrashTypeOK
<1>4. ProcessTypeOK'
  BY <1>2, <1>3 DEF ProcessTypeOK
<1>5. BeforeLog' /\ ClosedByHandler'
  BY <1>1, <1>2 DEF BeforeLog, ClosedByHandler
<1>6. ServicesBesideMain'
  BY <1>2 DEF ServicesBesideMain
<1>7. QED BY <1>2, <1>4, <1>5, <1>6

LEMMA HandlerOpensStep ==
  ASSUME PInv, NEW t \in Threads, HandlerOpensLog(t) \/ HandlerWritesToNull(t),
         UNCHANGED <<mainPc, servicesPc>>
  PROVE  PInv'
<1> USE DEF PInv, HandlerOpensLog, HandlerWritesToNull, Handler, logVars
<1>1. CrashTypeOK'
  BY DEF ProcessTypeOK, CrashTypeOK
<1>2. ProcessTypeOK'
  BY <1>1 DEF ProcessTypeOK, LoggerTypeOK
<1>3. BeforeLog' /\ ServicesBesideMain'
  BY HandlerAfterLog DEF BeforeLog, ServicesBesideMain
<1>4. ClosedByHandler'
  BY DEF ClosedByHandler, ProcessTypeOK, CrashTypeOK
<1>5. ReportsLast'
  BY DEF ReportsLast
<1>6. QED BY <1>2, <1>3, <1>4, <1>5

\* A report follows reports only or stands alone after the lines.
LEMMA ReportStep ==
  ASSUME PInv, NEW t \in Threads, PrintStackTrace(t), UNCHANGED <<mainPc, servicesPc>>
  PROVE  PInv'
<1> USE DEF PInv, PrintStackTrace, Handler
<1> DEFINE report == [by |-> t, n |-> logged[t], part |-> "report"]
<1>1. file \in Seq(Tokens) /\ report \in Tokens /\ ~stream.open
  BY DEF ProcessTypeOK, LoggerTypeOK, Tokens, Parts, ClosedByHandler
<1>2. file' = Append(file, report) /\ report.part = "report"
  OBVIOUS
<1> HIDE DEF report
<1>3. /\ file' \in Seq(Tokens) /\ Len(file') = Len(file) + 1
      /\ \A i \in 1 .. Len(file) : file'[i] = file[i]
      /\ file'[Len(file) + 1] = report
  BY <1>1, <1>2, AppendProperties
<1>4. ReportsLast'
  <2>1. DOMAIN file = 1 .. Len(file) /\ DOMAIN file' = 1 .. Len(file) + 1 /\ Len(file) \in Nat
    BY <1>1, <1>3
  <2>2. QED BY <1>2, <1>3, <2>1 DEF ReportsLast
<1>5. CrashTypeOK'
  BY DEF ProcessTypeOK, CrashTypeOK
<1>6. ProcessTypeOK'
  BY <1>3, <1>5 DEF ProcessTypeOK, LoggerTypeOK
<1>7. BeforeLog' /\ ClosedByHandler'
  BY <1>1, HandlerAfterLog DEF BeforeLog, ClosedByHandler, ProcessTypeOK, CrashTypeOK
<1>8. ServicesBesideMain'
  BY DEF ServicesBesideMain
<1>9. QED BY <1>4, <1>6, <1>7, <1>8

(***************************************************************************)
(* Insertions, and the other steps of the services thread.                 *)
(***************************************************************************)
LEMMA InsertBeginsStep ==
  ASSUME PInv, NEW t \in Threads, InsertBegins(t), UNCHANGED <<crashVars, mainPc, servicesPc>>
  PROVE  PInv'
<1> USE DEF PInv, InsertBegins, Uses, crashVars
<1>1. ProcessTypeOK'
  <2>1. LoggerTypeOK
    BY DEF ProcessTypeOK
  <2>2. UNCHANGED <<faults, logged, part, stream, buffer, file>>
    OBVIOUS
  <2>3. racing' \subseteq inside' /\ inside' \subseteq {u \in Threads : part'[u] # "none"}
    BY <2>1 DEF LoggerTypeOK
  <2>4. raced' \in BOOLEAN /\ (racing' # {} => raced')
    BY <2>1 DEF LoggerTypeOK
  <2>5. LoggerTypeOK'
    BY <2>1, <2>2, <2>3, <2>4 DEF LoggerTypeOK
  <2>6. CrashTypeOK'
    BY DEF ProcessTypeOK, CrashTypeOK
  <2>7. QED BY <2>5, <2>6 DEF ProcessTypeOK
<1>2. BeforeLog'
  <2>1. SUFFICES ASSUME mainPc \in {"directory", "open"} PROVE racing' = racing
    BY DEF BeforeLog
  <2>2. part["services"] = "none"
    BY <2>1 DEF BeforeLog, ServicesBesideMain
  <2>3. inside \ {t} = {}
    BY <2>2 DEF ProcessTypeOK, LoggerTypeOK, Threads
  <2>4. QED BY <2>3
<1>3. ClosedByHandler' /\ ServicesBesideMain'
  BY DEF ClosedByHandler, ServicesBesideMain
<1>4. ReportsLast'
  BY DEF ReportsLast
<1>5. QED BY <1>1, <1>2, <1>3, <1>4

\* What an insertion does to the file: nothing, or it adds what is no report.
LEMMA InsertedTokens ==
  ASSUME PInv, NEW t \in Threads, InsertEnds(t)
  PROVE  /\ file' \in Seq(Tokens) /\ buffer' \in Seq(Tokens)
         /\ stream' \in Streams /\ stream'.open = stream.open
         /\ ~stream.open => UNCHANGED <<buffer, file>>
         /\ NoReport(buffer')
         /\ NoReport(file) /\ stream.open => NoReport(file')
         /\ IsPrefix(file, file')
<1> DEFINE token == [by |-> t, n |-> logged[t], part |-> part[t]]
<1>1. /\ file \in Seq(Tokens) /\ buffer \in Seq(Tokens) /\ stream \in Streams
      /\ token \in Tokens /\ token.part # "report"
      /\ NoReport(buffer)
  BY LineToken DEF PInv, ProcessTypeOK, LoggerTypeOK, ClosedByHandler, InsertEnds, Streams
<1>2. \/ buffer' = Append(buffer, token) /\ UNCHANGED file /\ UNCHANGED stream /\ stream.open
      \/ buffer' = <<>> /\ file' = Append(file \o buffer, token) /\ UNCHANGED stream /\ stream.open
      \/ UNCHANGED <<buffer, file>> /\ UNCHANGED stream
      \/ UNCHANGED <<buffer, file>> /\ stream' = [stream EXCEPT !.good = FALSE]
  BY DEF InsertEnds
<1> HIDE DEF token
<1>3. CASE buffer' = Append(buffer, token) /\ UNCHANGED file /\ UNCHANGED stream /\ stream.open
  <2>1. Append(buffer, token) \in Seq(Tokens) /\ NoReport(Append(buffer, token))
    BY <1>1, AppendedToken
  <2>2. QED BY <1>1, <1>3, <2>1, SameTokens
<1>4. CASE buffer' = <<>> /\ file' = Append(file \o buffer, token) /\ UNCHANGED stream /\ stream.open
  <2>1. file \o buffer \in Seq(Tokens) /\ (NoReport(file) => NoReport(file \o buffer))
    BY <1>1, JoinedTokens
  <2>2. Append(file \o buffer, token) \in Seq(Tokens)
    BY <1>1, <2>1, AppendedToken
  <2>3. NoReport(file) => NoReport(Append(file \o buffer, token))
    BY <1>1, <2>1, AppendedToken
  <2>4. IsPrefix(file, Append(file \o buffer, token))
    BY <1>1, PrefixTransitive
  <2>5. buffer' \in Seq(Tokens) /\ NoReport(buffer')
    BY <1>4 DEF NoReport
  <2>6. QED BY <1>1, <1>4, <2>2, <2>3, <2>4, <2>5
<1>5. CASE UNCHANGED <<buffer, file>> /\ UNCHANGED stream
  BY <1>1, <1>5, SameTokens
<1>6. CASE UNCHANGED <<buffer, file>> /\ stream' = [stream EXCEPT !.good = FALSE]
  <2>1. stream' \in Streams /\ stream'.open = stream.open
    BY <1>1, <1>6, FlagCleared, Zenon
  <2>2. QED BY <1>1, <1>6, <2>1, SameTokens
<1>7. QED BY <1>2, <1>3, <1>4, <1>5, <1>6

LEMMA InsertEndsStep ==
  ASSUME PInv, NEW t \in Threads, InsertEnds(t), UNCHANGED <<crashVars, mainPc, servicesPc>>
  PROVE  PInv'
<1> USE DEF PInv, crashVars
<1>0. /\ file' \in Seq(Tokens) /\ buffer' \in Seq(Tokens)
      /\ stream' \in Streams /\ stream'.open = stream.open
      /\ ~stream.open => UNCHANGED <<buffer, file>>
      /\ NoReport(buffer')
      /\ NoReport(file) /\ stream.open => NoReport(file')
  BY InsertedTokens
<1>1. /\ t \in inside /\ inside' = inside \ {t} /\ racing' = racing \ {t}
      /\ part' = [part EXCEPT ![t] = IF @ = "text" THEN "newline" ELSE "none"]
      /\ UNCHANGED <<faults, logged, raced>>
  BY DEF InsertEnds
<1>2. part' \in [Threads -> {"none", "text", "newline"}]
  BY <1>1 DEF ProcessTypeOK, LoggerTypeOK
<1>3. racing' \subseteq inside' /\ inside' \subseteq {u \in Threads : part'[u] # "none"}
  BY <1>1 DEF ProcessTypeOK, LoggerTypeOK
<1>4. LoggerTypeOK'
  BY <1>0, <1>1, <1>2, <1>3 DEF ProcessTypeOK, LoggerTypeOK, Streams
<1>5. ProcessTypeOK'
  BY <1>4 DEF ProcessTypeOK, CrashTypeOK
<1>6. BeforeLog'
  BY <1>0, <1>1 DEF BeforeLog
<1>7. ClosedByHandler'
  BY <1>0 DEF ClosedByHandler, BeforeLog
<1>8. ServicesBesideMain'
  BY <1>1 DEF ServicesBesideMain, ProcessTypeOK, LoggerTypeOK, Threads
<1>9. ReportsLast'
  <2>1. CASE stream.open
    <3>1. NoReport(file')
      BY <1>0, <2>1 DEF ClosedByHandler
    <3>2. QED BY <1>0, <3>1 DEF ReportsLast, NoReport
  <2>2. CASE ~stream.open
    BY <1>0, <2>2 DEF ReportsLast
  <2>3. QED BY <2>1, <2>2
<1>10. QED BY <1>5, <1>6, <1>7, <1>8, <1>9

LEMMA HandlerLogsStep == PInv /\ HandlerLogs => PInv'
<1> SUFFICES ASSUME PInv, HandlerLogs PROVE PInv'
  OBVIOUS
<1> USE DEF PInv, HandlerLogs, LogMessage, crashVars
<1>1. ProcessTypeOK'
  BY DEF ProcessTypeOK, LoggerTypeOK, CrashTypeOK, Threads
<1>2. BeforeLog' /\ ClosedByHandler' /\ ServicesBesideMain'
  BY DEF BeforeLog, ClosedByHandler, ServicesBesideMain
<1>3. ReportsLast'
  BY DEF ReportsLast
<1>4. QED BY <1>1, <1>2, <1>3

LEMMA ServicesReturnStep == PInv /\ ServicesReturn => PInv'
<1> SUFFICES ASSUME PInv, ServicesReturn PROVE PInv'
  OBVIOUS
<1> USE DEF PInv, ServicesReturn, Idle, logVars, crashVars
<1>1. ProcessTypeOK'
  BY DEF ProcessTypeOK, LoggerTypeOK, CrashTypeOK
<1>2. BeforeLog' /\ ClosedByHandler' /\ ServicesBesideMain'
  BY DEF BeforeLog, ClosedByHandler, ServicesBesideMain
<1>3. ReportsLast'
  BY DEF ReportsLast
<1>4. QED BY <1>1, <1>2, <1>3

\* What leaves the log and both threads where they are.
LEMMA QuietStep ==
  ASSUME PInv, UNCHANGED <<logVars, signal, handler, mainPc, servicesPc>>,
         process' \in {"up", "exited", "crashed", "killed"}
  PROVE  PInv'
<1> USE DEF PInv, logVars
<1>1. ProcessTypeOK'
  BY DEF ProcessTypeOK, LoggerTypeOK, CrashTypeOK
<1>2. BeforeLog' /\ ClosedByHandler' /\ ServicesBesideMain'
  BY DEF BeforeLog, ClosedByHandler, ServicesBesideMain
<1>3. ReportsLast'
  BY DEF ReportsLast
<1>4. QED BY <1>1, <1>2, <1>3

-------------------------------------------------------------------------------
LEMMA MainStep == PInv /\ MainNext => PInv'
<1> SUFFICES ASSUME PInv, MainNext PROVE PInv'
  OBVIOUS
<1>1. CASE SetExecutingDirectory
  BY <1>1, MainLogsStep DEF SetExecutingDirectory, Orderly
<1>2. CASE OpenLog
  BY <1>2, OpenLogStep
<1>3. CASE StartupMessage
  BY <1>3, MainLogsStep DEF StartupMessage, Orderly
<1>4. CASE ParseArguments
  BY <1>4, MainGoesStep DEF ParseArguments, Orderly
<1>5. CASE ArgumentsExit
  BY <1>5, ExitStep DEF ArgumentsExit
<1>6. CASE SaveDirectoryMessage
  BY <1>6, MainLogsStep DEF SaveDirectoryMessage, Orderly
<1>7. CASE StartThread
  BY <1>7, StartThreadStep
<1>8. CASE RunServerThrows
  BY <1>8, MainGoesStep DEF RunServerThrows, Orderly
<1>9. CASE InvalidCommand
  BY <1>9, MainLogsStep DEF InvalidCommand, Orderly
<1>10. CASE StopCommand
  BY <1>10, MainGoesStep DEF StopCommand, Orderly
<1>11. CASE StopMessage
  BY <1>11, MainLogsStep DEF StopMessage, Orderly
<1>12. CASE Join
  BY <1>12, MainGoesStep DEF Join, Orderly
<1>13. CASE DestroyNetData
  <2>1. CASE MainGoes("destroy", "goodbye")
    BY <2>1, MainGoesStep DEF Orderly
  <2>2. CASE mainPc = "destroy" /\ Raise("main", "SIGABRT") /\ UNCHANGED <<mainPc, servicesPc>>
    BY <2>2, RaiseStep DEF Threads
  <2>3. QED BY <1>13, <2>1, <2>2 DEF DestroyNetData
<1>14. CASE Goodbye
  BY <1>14, MainLogsStep DEF Goodbye, Orderly
<1>15. CASE ErrorMessage
  BY <1>15, MainLogsStep DEF ErrorMessage, Orderly
<1>16. CASE Return
  BY <1>16, ExitStep DEF Return
<1>17. QED BY <1>1, <1>2, <1>3, <1>4, <1>5, <1>6, <1>7, <1>8, <1>9, <1>10, <1>11, <1>12, <1>13,
              <1>14, <1>15, <1>16 DEF MainNext

LEMMA CrashStep ==
  ASSUME PInv, NEW t \in Threads, Crash(t)
  PROVE  PInv'
<1>1. UNCHANGED <<mainPc, servicesPc>>
  BY DEF Crash
<1>2. CASE InsertFaults(t)
  <2>1. mainPc \notin {"directory", "open"}
    BY <1>2 DEF InsertFaults, PInv, BeforeLog
  <2>2. QED BY <1>1, <1>2, <2>1, RaiseStep DEF InsertFaults
<1>3. CASE HandlerClosesLog(t) \/ HandlerExits(t)
  BY <1>1, <1>3, HandlerClosesStep
<1>4. CASE HandlerOpensLog(t) \/ HandlerWritesToNull(t)
  BY <1>1, <1>4, HandlerOpensStep
<1>5. CASE PrintStackTrace(t)
  BY <1>1, <1>5, ReportStep
<1>6. QED BY <1>2, <1>3, <1>4, <1>5 DEF Crash, SignalCrashHandler

LEMMA PInvStep == PInv /\ [ProcessNext]_processVars => PInv'
<1> SUFFICES ASSUME PInv, [ProcessNext]_processVars PROVE PInv'
  OBVIOUS
<1>1. CASE MainNext
  BY <1>1, MainStep
<1>2. CASE HandlerLogs
  BY <1>2, HandlerLogsStep
<1>3. CASE ServicesReturn
  BY <1>3, ServicesReturnStep
<1>4. CASE ServicesAbort
  <2>1. mainPc \notin {"directory", "open"}
    BY <1>4 DEF ServicesAbort, PInv, BeforeLog
  <2>2. QED BY <1>4, <2>1, RaiseStep DEF ServicesAbort, Threads
<1>5. ASSUME NEW t \in Threads, Insert(t) PROVE PInv'
  BY <1>5, InsertBeginsStep, InsertEndsStep DEF Insert
<1>6. ASSUME NEW t \in Threads, Crash(t) PROVE PInv'
  BY <1>6, CrashStep
<1>7. CASE Killed
  BY <1>7, QuietStep DEF Killed
<1>8. CASE UNCHANGED processVars
  BY <1>8, QuietStep DEF processVars, crashVars, PInv, ProcessTypeOK, CrashTypeOK
<1>9. QED BY <1>1, <1>2, <1>3, <1>4, <1>5, <1>6, <1>7, <1>8 DEF ProcessNext, ServicesNext

LEMMA ProcessInvariance == ProcessSpec => []PInv
<1>1. QED BY PInvInit, PInvStep, PTL DEF ProcessSpec

\* Type correctness: a thread races only inside an insertion, and a closed
\* log_file holds nothing.
THEOREM ProcessTypeCorrectness == ProcessSpec => []ProcessTypeOK
<1>1. PInv => ProcessTypeOK
  BY DEF PInv
<1>2. QED BY <1>1, ProcessInvariance, PTL

\* Nothing follows a crash report, whatever is logged and closed after it.
THEOREM ReportEndsLog == ProcessSpec => []ReportsLast
<1>1. PInv => ReportsLast
  BY DEF PInv
<1>2. QED BY <1>1, ProcessInvariance, PTL

-------------------------------------------------------------------------------
(***************************************************************************)
(* What a step may do to the log.                                          *)
(***************************************************************************)
LEMMA FileStep ==
  ASSUME PInv, ProcessNext
  PROVE  mainPc = "open" \/ IsPrefix(file, file')
<1>1. file \in Seq(Tokens)
  BY DEF PInv, ProcessTypeOK, LoggerTypeOK
<1>2. ASSUME UNCHANGED file PROVE IsPrefix(file, file')
  BY <1>1, <1>2, SameTokens
<1>3. ASSUME NEW t \in Threads, CloseLogFile(t) PROVE IsPrefix(file, file')
  BY <1>3, CloseStep
<1>4. CASE MainNext
  <2>1. CASE OpenLog
    BY <2>1 DEF OpenLog, Main
  <2>2. CASE ArgumentsExit \/ Return
    BY <2>2, <1>3 DEF ArgumentsExit, Return, Exits, Threads
  <2>3. CASE ~OpenLog /\ ~ArgumentsExit /\ ~Return
    <3>1. UNCHANGED file
      BY <1>4, <2>3 DEF MainNext, SetExecutingDirectory, StartupMessage, ParseArguments,
         SaveDirectoryMessage, StartThread, RunServerThrows, InvalidCommand, StopCommand,
         StopMessage, Join, DestroyNetData, Goodbye, ErrorMessage, MainLogs, MainGoes, LogMessage,
         Raise, logVars
    <3>2. QED BY <3>1, <1>2
  <2>4. QED BY <2>1, <2>2, <2>3
<1>5. CASE ServicesNext \/ Killed
  <2>1. UNCHANGED file
    BY <1>5 DEF ServicesNext, HandlerLogs, ServicesReturn, ServicesAbort, LogMessage, Raise, Killed,
       logVars
  <2>2. QED BY <2>1, <1>2
<1>6. ASSUME NEW t \in Threads, Insert(t) PROVE IsPrefix(file, file')
  <2>1. CASE InsertBegins(t)
    BY <2>1, <1>2 DEF InsertBegins
  <2>2. CASE InsertEnds(t)
    BY <2>2, InsertedTokens
  <2>3. QED BY <1>6, <2>1, <2>2 DEF Insert
<1>7. ASSUME NEW t \in Threads, Crash(t) PROVE IsPrefix(file, file')
  <2>1. CASE HandlerClosesLog(t) \/ HandlerExits(t)
    BY <2>1, <1>3 DEF HandlerClosesLog, HandlerExits
  <2>2. CASE InsertFaults(t) \/ HandlerOpensLog(t) \/ HandlerWritesToNull(t)
    BY <2>2, <1>2 DEF InsertFaults, Raise, HandlerOpensLog, HandlerWritesToNull, logVars
  <2>3. CASE PrintStackTrace(t)
    <3>1. [by |-> t, n |-> logged[t], part |-> "report"] \in Tokens
      BY DEF PInv, ProcessTypeOK, LoggerTypeOK, Tokens, Parts
    <3>2. QED BY <1>1, <2>3, <3>1, AppendedToken DEF PrintStackTrace
  <2>4. QED BY <1>7, <2>1, <2>2, <2>3 DEF Crash, SignalCrashHandler
<1>8. QED BY <1>4, <1>5, <1>6, <1>7 DEF ProcessNext

\* What has reached the log stays in it until the process is started again.
THEOREM LogIsKept == ProcessSpec => LogOnlyGrows
<1>1. PInv /\ [ProcessNext]_processVars
        => [mainPc = "open" \/ IsPrefix(file, file')]_processVars
  BY FileStep
<1>2. QED BY <1>1, ProcessInvariance, PTL DEF ProcessSpec, LogOnlyGrows

LEMMA ClosingStep ==
  ASSUME PInv, ProcessNext, stream.open, ~stream'.open, inside # {}
  PROVE  \E t \in Threads : handler[t] # "none"
<1>1. CASE ArgumentsExit \/ Return
  <2>1. part["main"] = "none" /\ mainPc \in {"arguments", "return"}
    BY <1>1 DEF ArgumentsExit, Return, Main, Idle
  <2>2. part["services"] = "none"
    BY <2>1 DEF PInv, ServicesBesideMain
  <2>3. inside = {}
    BY <2>1, <2>2 DEF PInv, ProcessTypeOK, LoggerTypeOK, Threads
  <2>4. QED BY <2>3
<1>2. ASSUME NEW t \in Threads, Crash(t), ~InsertFaults(t)
      PROVE  handler[t] # "none"
  BY <1>2 DEF Crash, SignalCrashHandler, HandlerClosesLog, HandlerOpensLog, HandlerWritesToNull,
     PrintStackTrace, HandlerExits, Handler
<1>3. ASSUME NEW t \in Threads, InsertFaults(t) PROVE FALSE
  BY <1>3 DEF InsertFaults, Raise, logVars
<1>4. ASSUME NEW t \in Threads, Insert(t) PROVE FALSE
  <2>1. stream'.open = stream.open
    BY <1>4, InsertedTokens DEF Insert, InsertBegins
  <2>2. QED BY <2>1
<1>5. CASE OpenLog
  BY <1>5 DEF OpenLog, Main, PInv, BeforeLog
<1>6. CASE MainNext /\ ~OpenLog /\ ~ArgumentsExit /\ ~Return
  BY <1>6 DEF MainNext, SetExecutingDirectory, StartupMessage, ParseArguments,
     SaveDirectoryMessage, StartThread, RunServerThrows, InvalidCommand, StopCommand,
     StopMessage, Join, DestroyNetData, Goodbye, ErrorMessage, MainLogs, MainGoes, LogMessage,
     Raise, logVars
<1>7. CASE ServicesNext \/ Killed
  BY <1>7 DEF ServicesNext, HandlerLogs, ServicesReturn, ServicesAbort, LogMessage, Raise, Killed,
     logVars
<1>8. QED BY <1>1, <1>2, <1>3, <1>4, <1>5, <1>6, <1>7 DEF ProcessNext

\* Only a crash closes the log under a thread that writes it.
THEOREM OrderlyClose == ProcessSpec => ClosedUnderWriterOnlyByCrash
<1>1. PInv /\ [ProcessNext]_processVars
        => [stream.open /\ ~stream'.open /\ inside # {}
               => \E t \in Threads : handler[t] # "none"]_processVars
  BY ClosingStep
<1>2. QED BY <1>1, ProcessInvariance, PTL DEF ProcessSpec, ClosedUnderWriterOnlyByCrash

-------------------------------------------------------------------------------
(***************************************************************************)
(* The lines main logs alone.  Such a text can only be the last of the log *)
(* while its newline is the next thing to be inserted, by a main that      *)
(* nothing can disturb: no other thread and no signal handler.             *)
(***************************************************************************)
Log == file \o buffer

\* Nothing races or is interrupted where main is alone, and main counts its
\* lines: the fourth is the first that it logs beside the services thread.
MainAlone ==
    /\ servicesPc # "run" =>
          /\ racing = {} /\ handler["services"] = "none"
          /\ part["main"] # "none" => handler["main"] = "none"
    /\ servicesPc = "run" /\ part["main"] # "none" => logged["main"] >= 4
    /\ mainPc = "directory" => logged["main"] = 0
    /\ mainPc \in {"open", "startup"} => logged["main"] = 1
    /\ mainPc \in {"arguments", "save_dir"} => logged["main"] = 2
    /\ mainPc = "thread" => logged["main"] = 3
    /\ mainPc \in {"command", "stopping"} => logged["main"] >= 3

TokensBegun ==
    \A i \in 1 .. Len(Log) : Log[i].by = "main" => Log[i].n <= logged["main"]

AloneText(k) == k.by = "main" /\ k.part = "text" /\ Alone(k.n)

Pending(k) == part["main"] = "newline" /\ k.n = logged["main"] /\ stream.open /\ stream.good

WholeLines ==
    \A i \in 1 .. Len(Log) :
        AloneText(Log[i]) =>
            IF i = Len(Log) THEN Pending(Log[i])
            ELSE Log[i + 1] = [Log[i] EXCEPT !.part = "newline"]

LInv == MainAlone /\ TokensBegun /\ WholeLines

LEMMA LogIsTokens == PInv => Log \in Seq(Tokens)
<1> SUFFICES ASSUME PInv PROVE Log \in Seq(Tokens)
  OBVIOUS
<1>1. file \in Seq(Tokens) /\ buffer \in Seq(Tokens)
  BY DEF PInv, ProcessTypeOK, LoggerTypeOK
<1>2. QED BY <1>1, JoinedTokens DEF Log

LEMMA LInvInit == ProcessInit => LInv
<1> SUFFICES ASSUME ProcessInit PROVE LInv
  OBVIOUS
<1> USE DEF ProcessInit, LoggerInit, CrashInit
<1>1. MainAlone
  BY DEF MainAlone, Threads
<1>2. Len(Log) = 0
  BY DEF Log
<1>3. TokensBegun /\ WholeLines
  BY <1>2 DEF TokensBegun, WholeLines
<1>4. QED BY <1>1, <1>3 DEF LInv

LEMMA MainAloneStep ==
  ASSUME PInv, MainAlone, [ProcessNext]_processVars
  PROVE  MainAlone'
<1>0. /\ ServicesBesideMain
      /\ logged \in [Threads -> Nat]
      /\ part \in [Threads -> {"none", "text", "newline"}]
      /\ racing \subseteq inside /\ inside \subseteq {t \in Threads : part[t] # "none"}
      /\ handler \in [Threads -> {"none", "close", "fopen", "report", "exit"}]
      /\ \A t \in Threads : t = "main" \/ t = "services"
      /\ "main" \in Threads /\ "services" \in Threads
  BY DEF PInv, ProcessTypeOK, LoggerTypeOK, CrashTypeOK, Threads
<1>1. ASSUME NEW t \in Threads, CloseLogFile(t), servicesPc # "run", part["main"] = "none"
      PROVE  racing' = racing
  <2>1. inside = {}
    BY <1>0, <1>1 DEF ServicesBesideMain
  <2>2. QED BY <1>1, <2>1 DEF CloseLogFile, Uses
<1>2. CASE ArgumentsExit \/ Return
  <2>1. racing' = racing
    BY <1>0, <1>1, <1>2 DEF ArgumentsExit, Return, Exits, Main, Idle, ServicesBesideMain
  <2>2. QED BY <1>2, <2>1 DEF ArgumentsExit, Return, Exits, Main, CloseLogFile, MainAlone
<1>3. CASE OpenLog
  BY <1>3 DEF OpenLog, Main, OpenLogFile, crashVars, MainAlone
<1>4. ASSUME NEW at, NEW next, MainLogs(at, next), next # "directory",
             next = "open" => at = "directory",
             next = "startup" => FALSE,
             next = "arguments" => at = "startup",
             next = "save_dir" => FALSE,
             next = "thread" => at = "save_dir",
             next \in {"command", "stopping"} => at = "command",
             servicesPc = "run" => at \in {"command", "stopping"}
      PROVE  MainAlone'
  BY <1>0, <1>4 DEF MainLogs, Main, Idle, Runs, LogMessage, crashVars, MainAlone
<1>5. CASE SetExecutingDirectory \/ StartupMessage \/ SaveDirectoryMessage \/ InvalidCommand
           \/ StopMessage \/ Goodbye \/ ErrorMessage
  BY <1>0, <1>4, <1>5 DEF SetExecutingDirectory, StartupMessage, SaveDirectoryMessage, InvalidCommand,
     StopMessage, Goodbye, ErrorMessage, MainLogs, Main, ServicesBesideMain
<1>6. CASE ParseArguments \/ RunServerThrows \/ StopCommand \/ Join \/ MainGoes("destroy", "goodbye")
  BY <1>6 DEF ParseArguments, RunServerThrows, StopCommand, Join, MainGoes, Main, logVars,
     crashVars, MainAlone
<1>7. CASE StartThread
  BY <1>7 DEF StartThread, Main, Idle, logVars, crashVars, MainAlone
<1>8. CASE DestroyNetData /\ ~MainGoes("destroy", "goodbye")
  BY <1>0, <1>8 DEF DestroyNetData, Idle, Runs, Raise, logVars, MainAlone, ServicesBesideMain
<1>9. CASE HandlerLogs \/ ServicesAbort
  BY <1>0, <1>9 DEF HandlerLogs, ServicesAbort, LogMessage, Raise, crashVars, logVars, MainAlone
<1>10. CASE ServicesReturn
  <2>1. racing = {} /\ handler["services"] = "none" /\ part["main"] = "none"
    BY <1>0, <1>10 DEF ServicesReturn, Idle, Runs
  <2>2. QED BY <1>10, <2>1 DEF ServicesReturn, logVars, crashVars, MainAlone
<1>11. ASSUME NEW t \in Threads, Insert(t) PROVE MainAlone'
  <2>1. servicesPc # "run" => racing' = {}
    <3>1. SUFFICES ASSUME servicesPc # "run" PROVE racing' = {}
      OBVIOUS
    <3>2. part["services"] = "none" /\ racing = {}
      BY <3>1, <1>0 DEF ServicesBesideMain, MainAlone
    <3>3. CASE InsertBegins(t)
      <4>1. t = "main" /\ inside \ {t} = {}
        BY <1>0, <3>2, <3>3 DEF InsertBegins
      <4>2. QED BY <3>2, <3>3, <4>1 DEF InsertBegins, Uses
    <3>4. CASE InsertEnds(t)
      BY <3>2, <3>4 DEF InsertEnds
    <3>5. QED BY <1>11, <3>3, <3>4 DEF Insert
  <2>2. /\ part["main"] = "none" => part'["main"] = "none"
        /\ UNCHANGED <<logged, handler, mainPc, servicesPc>>
    <3>1. CASE InsertBegins(t)
      BY <1>11, <3>1 DEF Insert, InsertBegins, crashVars
    <3>2. CASE InsertEnds(t)
      BY <1>0, <1>11, <3>2 DEF Insert, InsertEnds, crashVars
    <3>3. QED BY <1>11, <3>1, <3>2 DEF Insert
  <2>3. QED BY <2>1, <2>2 DEF MainAlone
<1>12. ASSUME NEW t \in Threads, Crash(t) PROVE MainAlone'
  <2>1. UNCHANGED <<logged, part, mainPc, servicesPc>>
    BY <1>12 DEF Crash, InsertFaults, SignalCrashHandler, Raise, HandlerClosesLog, HandlerOpensLog,
       HandlerWritesToNull, PrintStackTrace, HandlerExits, CloseLogFile, logVars
  <2>2. SUFFICES ASSUME servicesPc # "run"
                 PROVE  /\ racing' = {} /\ handler'["services"] = "none"
                        /\ part["main"] # "none" => handler'["main"] = "none"
    BY <2>1 DEF MainAlone
  <2>3. handler["services"] = "none" /\ racing = {}
    BY <2>2 DEF MainAlone
  <2>4. ~InsertFaults(t)
    BY <2>3 DEF InsertFaults
  <2>5. t = "main" /\ handler["main"] # "none" /\ part["main"] = "none"
    BY <1>0, <1>12, <2>2, <2>3, <2>4 DEF Crash, SignalCrashHandler, HandlerClosesLog, HandlerOpensLog,
       HandlerWritesToNull, PrintStackTrace, HandlerExits, Handler, MainAlone
  <2>6. racing' = racing
    BY <1>1, <1>12, <2>2, <2>4, <2>5 DEF Crash, SignalCrashHandler, HandlerClosesLog, HandlerOpensLog,
       HandlerWritesToNull, PrintStackTrace, HandlerExits, logVars
  <2>7. handler'["services"] = "none"
    BY <1>0, <1>12, <2>3, <2>4, <2>5 DEF Crash, SignalCrashHandler, HandlerClosesLog, HandlerOpensLog,
       HandlerWritesToNull, PrintStackTrace, HandlerExits, Handler
  <2>8. QED BY <2>3, <2>5, <2>6, <2>7
<1>13. CASE Killed \/ UNCHANGED processVars
  BY <1>13 DEF Killed, processVars, logVars, crashVars, MainAlone
<1>14. QED BY <1>2, <1>3, <1>5, <1>6, <1>7, <1>8, <1>9, <1>10, <1>11, <1>12, <1>13
       DEF ProcessNext, MainNext, ServicesNext

-------------------------------------------------------------------------------
\* While a line main logs alone is half done nothing else moves.
LEMMA PendsAlone ==
  ASSUME PInv, MainAlone, NEW k, AloneText(k), Pending(k)
  PROVE  /\ servicesPc # "run" /\ part["services"] = "none" /\ racing = {}
         /\ \A t \in Threads : handler[t] = "none"
<1>1. servicesPc # "run"
  BY DEF MainAlone, AloneText, Pending, Alone, PInv, ServicesBesideMain, ProcessTypeOK, LoggerTypeOK,
     Threads
<1>2. QED BY <1>1 DEF MainAlone, Pending, PInv, ServicesBesideMain, Threads

\* How a step may change the log: not at all, while no line main logs alone
\* is half done, or it stays so ...
LogStays ==
    /\ Log' = Log
    /\ \A k \in Tokens : AloneText(k)' /\ k.n <= logged["main"] => AloneText(k)
    /\ \A k \in Tokens : AloneText(k) /\ Pending(k) => Pending(k)'

\* ... or by the part that a thread inserts next, or by a report.
LogGains(t, k) ==
    /\ Log' = Append(Log, k)
    /\ k.by = t /\ k.n = logged[t]
    /\ UNCHANGED <<logged, mainPc>>
    /\ \/ k.part = "report" /\ handler[t] = "report"
       \/ /\ k.part = part[t] /\ part[t] \in {"text", "newline"}
          /\ k.part = "text" => part'[t] = "newline"
          /\ stream.open /\ stream.good /\ UNCHANGED stream

LEMMA LogStaysStep ==
  ASSUME PInv, LInv, LogStays, logged["main"] <= logged'["main"],
         logged["main"] \in Nat, logged'["main"] \in Nat
  PROVE  TokensBegun' /\ WholeLines'
<1>1. Log \in Seq(Tokens) /\ Log' = Log
  BY LogIsTokens DEF LogStays
<1>2. \A i \in 1 .. Len(Log) : Log[i] \in Tokens
  BY <1>1, ElementOfSeq
<1>3. \A i \in 1 .. Len(Log) : Log[i].n \in Nat
  BY <1>2 DEF Tokens
<1>4. TokensBegun'
  BY <1>1, <1>3 DEF TokensBegun, LInv
<1>5. WholeLines'
  <2>1. SUFFICES ASSUME NEW i \in 1 .. Len(Log), AloneText(Log[i])'
                 PROVE  IF i = Len(Log) THEN Pending(Log[i])'
                        ELSE Log[i + 1] = [Log[i] EXCEPT !.part = "newline"]
    BY <1>1 DEF WholeLines
  <2>2. Log[i] \in Tokens /\ Log'[i] = Log[i]
    BY <1>1, <1>2
  <2>3. Log[i].n <= logged["main"]
    BY <1>1, <2>1, <2>2 DEF TokensBegun, LInv, AloneText
  <2>4. AloneText(Log[i])
    BY <2>1, <2>2, <2>3 DEF LogStays, AloneText, Alone
  <2>5. QED BY <2>2, <2>4 DEF LogStays, LInv, WholeLines, Pending
<1>6. QED BY <1>4, <1>5

LEMMA LogGainsStep ==
  ASSUME PInv, LInv, NEW t \in Threads, NEW k \in Tokens, LogGains(t, k)
  PROVE  TokensBegun' /\ WholeLines'
<1>1. Log \in Seq(Tokens) /\ Len(Log) \in Nat
  BY LogIsTokens
<1>2. \A i \in 1 .. Len(Log) : Log[i] \in Tokens
  BY <1>1, ElementOfSeq
<1>3. /\ Len(Log') = Len(Log) + 1
      /\ \A i \in 1 .. Len(Log) : Log'[i] = Log[i]
      /\ Log'[Len(Log) + 1] = k
  BY <1>1, AppendProperties DEF LogGains
<1>4. logged["main"] \in Nat /\ UNCHANGED <<logged, mainPc>> /\ k.by = t /\ k.n = logged[t]
  BY DEF LogGains, PInv, ProcessTypeOK, LoggerTypeOK, Threads
<1>5. TokensBegun'
  BY <1>1, <1>2, <1>3, <1>4 DEF TokensBegun, LInv
<1>6. ASSUME NEW i \in 1 .. Len(Log), AloneText(Log[i])
      PROVE  Log'[i + 1] = [Log[i] EXCEPT !.part = "newline"]
  <2>1. CASE i # Len(Log)
    BY <1>1, <1>3, <1>6, <2>1 DEF LInv, WholeLines
  <2>2. CASE i = Len(Log)
    <3>1. Pending(Log[i])
      BY <1>6, <2>2 DEF LInv, WholeLines
    <3>2. part["services"] = "none" /\ \A u \in Threads : handler[u] = "none"
      BY <1>6, <3>1, PendsAlone DEF LInv
    <3>3. t = "main" /\ k.part = "newline"
      BY <3>1, <3>2 DEF LogGains, Pending, Threads
    <3>4. k.by = Log[i].by /\ k.n = Log[i].n
      BY <1>4, <1>6, <3>1, <3>3 DEF AloneText, Pending
    <3>5. k = [Log[i] EXCEPT !.part = "newline"]
      <4>1. Log[i] \in Tokens
        BY <1>2
      <4>2. QED BY <3>3, <3>4, <4>1 DEF Tokens
    <3>6. QED BY <1>3, <2>2, <3>5
  <2>3. QED BY <2>1, <2>2
<1>7. AloneText(k)' => Pending(k)'
  BY <1>4 DEF LogGains, AloneText, Pending
<1>8. WholeLines'
  <2>1. SUFFICES ASSUME NEW i \in 1 .. Len(Log) + 1, AloneText(Log[i])'
                 PROVE  IF i = Len(Log) + 1 THEN Pending(Log[i])'
                        ELSE Log'[i + 1] = [Log'[i] EXCEPT !.part = "newline"]
    BY <1>3 DEF WholeLines, AloneText, Pending, Alone
  <2>2. CASE i = Len(Log) + 1
    BY <1>3, <1>7, <2>1, <2>2
  <2>3. CASE i # Len(Log) + 1
    <3>1. i \in 1 .. Len(Log) /\ Log'[i] = Log[i]
      BY <1>1, <1>3, <2>3
    <3>2. AloneText(Log[i])
      BY <1>4, <2>1, <3>1 DEF AloneText, Alone
    <3>3. QED BY <1>6, <2>3, <3>1, <3>2
  <2>4. QED BY <2>2, <2>3
<1>9. QED BY <1>5, <1>8

-------------------------------------------------------------------------------
LEMMA Appended ==
  ASSUME NEW s \in Seq(Tokens), NEW u \in Seq(Tokens), NEW k \in Tokens
  PROVE  /\ s \o Append(u, k) = Append(s \o u, k)
         /\ Append(s \o u, k) \o <<>> = Append(s \o u, k)
         /\ (s \o u) \o <<>> = s \o u
         /\ s \o <<>> = s
<1>1. s \o u \in Seq(Tokens) /\ <<k>> \in Seq(Tokens)
  BY JoinedTokens
<1>2. Append(s \o u, k) \in Seq(Tokens)
  BY <1>1, AppendedToken
<1>3. Append(u, k) = u \o <<k>> /\ Append(s \o u, k) = (s \o u) \o <<k>>
  BY <1>1, AppendIsConcat
<1>4. (s \o u) \o <<k>> = s \o (u \o <<k>>)
  BY <1>1, ConcatAssociative
<1>5. s \o Append(u, k) = Append(s \o u, k)
  BY <1>3, <1>4
<1>6. /\ Append(s \o u, k) \o <<>> = Append(s \o u, k)
      /\ (s \o u) \o <<>> = s \o u
      /\ s \o <<>> = s
  BY <1>1, <1>2, ConcatEmptySeq
<1>7. QED BY <1>5, <1>6

\* A step that leaves log_file, main's line and its place alone.
LEMMA NothingLogged ==
  ASSUME UNCHANGED <<file, buffer, stream, logged, mainPc>>,
         part["main"] = "newline" => part'["main"] = "newline"
  PROVE  LogStays
BY DEF LogStays, Log, AloneText, Alone, Pending

LEMMA CloseKeepsLog ==
  ASSUME PInv, LInv, NEW t \in Threads, CloseLogFile(t),
         handler[t] # "none" \/ part["main"] = "none",
         UNCHANGED mainPc \/ mainPc = "return" \/ logged["main"] \in 1 .. 3
  PROVE  LogStays
<1>1. Log' = Log
  <2>1. file \in Seq(Tokens) /\ buffer \in Seq(Tokens)
    BY DEF PInv, ProcessTypeOK, LoggerTypeOK
  <2>2. (file \o buffer) \o <<>> = file \o buffer
    BY <2>1, JoinedTokens, ConcatEmptySeq
  <2>3. QED BY <2>2 DEF CloseLogFile, Log
<1>2. ASSUME NEW k \in Tokens, AloneText(k)', k.n <= logged["main"]
      PROVE  AloneText(k)
  BY <1>2 DEF AloneText, Alone, CloseLogFile
<1>3. ASSUME NEW k \in Tokens, AloneText(k), Pending(k)
      PROVE  FALSE
  <2>1. handler[t] = "none"
    BY <1>3, PendsAlone DEF LInv
  <2>2. QED BY <1>3, <2>1 DEF Pending
<1>4. QED BY <1>1, <1>2, <1>3 DEF LogStays

LEMMA InsertLogs ==
  ASSUME PInv, LInv, NEW t \in Threads, InsertEnds(t), UNCHANGED mainPc
  PROVE  LogStays \/ \E k \in Tokens : LogGains(t, k)
<1> DEFINE token == [by |-> t, n |-> logged[t], part |-> part[t]]
<1>1. /\ file \in Seq(Tokens) /\ buffer \in Seq(Tokens)
      /\ part \in [Threads -> {"none", "text", "newline"}] /\ part[t] # "none"
      /\ token \in Tokens /\ token.by = t /\ token.n = logged[t] /\ token.part = part[t]
      /\ UNCHANGED logged
  BY LineToken DEF PInv, ProcessTypeOK, LoggerTypeOK, InsertEnds
<1>2. part' = [part EXCEPT ![t] = IF @ = "text" THEN "newline" ELSE "none"]
  BY DEF InsertEnds
<1>3. \/ buffer' = Append(buffer, token) /\ UNCHANGED <<file, stream>> /\ stream.open /\ stream.good
      \/ buffer' = <<>> /\ file' = Append(file \o buffer, token) /\ UNCHANGED stream
         /\ stream.open /\ stream.good
      \/ UNCHANGED <<buffer, file>> /\ t \in racing
      \/ UNCHANGED <<buffer, file>> /\ ~(stream.open /\ stream.good)
  BY DEF InsertEnds
<1> HIDE DEF token
<1>4. CASE Log' = Append(Log, token) /\ UNCHANGED stream /\ stream.open /\ stream.good
  <2>1. LogGains(t, token)
    BY <1>1, <1>2, <1>4 DEF LogGains
  <2>2. QED BY <1>1, <2>1
<1>5. CASE UNCHANGED <<buffer, file>> /\ (t \in racing \/ ~(stream.open /\ stream.good))
  <2>1. ASSUME NEW k \in Tokens, AloneText(k), Pending(k) PROVE FALSE
    <3>1. racing = {}
      BY <2>1, PendsAlone DEF LInv
    <3>2. QED BY <1>5, <2>1, <3>1 DEF Pending
  <2>2. QED BY <1>1, <1>5, <2>1 DEF LogStays, Log, AloneText, Alone
<1>6. CASE buffer' = Append(buffer, token) /\ UNCHANGED <<file, stream>> /\ stream.open /\ stream.good
  <2>1. file \o Append(buffer, token) = Append(file \o buffer, token)
    BY <1>1, Appended
  <2>2. QED BY <1>4, <1>6, <2>1 DEF Log
<1>7. CASE buffer' = <<>> /\ file' = Append(file \o buffer, token) /\ UNCHANGED stream
           /\ stream.open /\ stream.good
  <2>1. Append(file \o buffer, token) \o <<>> = Append(file \o buffer, token)
    BY <1>1, Appended
  <2>2. QED BY <1>4, <1>7, <2>1 DEF Log
<1>8. QED BY <1>3, <1>5, <1>6, <1>7

LEMMA ReportLogs ==
  ASSUME PInv, NEW t \in Threads, PrintStackTrace(t), UNCHANGED mainPc
  PROVE  \E k \in Tokens : LogGains(t, k)
<1> DEFINE report == [by |-> t, n |-> logged[t], part |-> "report"]
<1>1. /\ file \in Seq(Tokens) /\ buffer = <<>> /\ handler[t] = "report" /\ UNCHANGED <<logged, buffer>>
      /\ report \in Tokens /\ report.by = t /\ report.n = logged[t] /\ report.part = "report"
  BY DEF PrintStackTrace, Handler, PInv, ProcessTypeOK, LoggerTypeOK, ClosedByHandler, Tokens, Parts
<1>2. file' = Append(file, report)
  BY DEF PrintStackTrace
<1> HIDE DEF report
<1>3. Append(file, report) \in Seq(Tokens)
  BY <1>1, AppendedToken
<1>4. file \o <<>> = file /\ Append(file, report) \o <<>> = Append(file, report)
  BY <1>1, <1>3, ConcatEmptySeq
<1>5. Log' = Append(Log, report)
  BY <1>1, <1>2, <1>4 DEF Log
<1>6. LogGains(t, report)
  BY <1>1, <1>5 DEF LogGains
<1>7. QED BY <1>1, <1>6

LEMMA LogMoves ==
  ASSUME PInv, LInv, ProcessNext, ~OpenLog
  PROVE  /\ logged["main"] <= logged'["main"]
         /\ LogStays \/ \E t \in Threads, k \in Tokens : LogGains(t, k)
<1>0. /\ logged \in [Threads -> Nat] /\ logged["main"] \in Nat
      /\ part["main"] \in {"none", "text", "newline"}
      /\ "main" \in Threads /\ "services" \in Threads
  BY DEF PInv, ProcessTypeOK, LoggerTypeOK, Threads
<1>1. ASSUME NEW at, NEW next, MainLogs(at, next)
      PROVE  logged'["main"] = logged["main"] + 1 /\ LogStays
  <2>1. logged'["main"] = logged["main"] + 1 /\ Log' = Log
    BY <1>0, <1>1 DEF MainLogs, LogMessage, Log
  <2>2. ~\E k \in Tokens : Pending(k)
    BY <1>1 DEF MainLogs, LogMessage, Pending
  <2>3. ASSUME NEW k \in Tokens, AloneText(k)', k.n <= logged["main"]
        PROVE  AloneText(k)
    BY <1>0, <2>1, <2>3 DEF AloneText, Alone
  <2>4. QED BY <2>1, <2>2, <2>3 DEF LogStays
<1>2. ASSUME NEW at, NEW next, MainGoes(at, next), next \notin {"return", "done"}
      PROVE  UNCHANGED logged /\ LogStays
  <2>1. UNCHANGED logged /\ Log' = Log /\ part["main"] = "none"
    BY <1>2 DEF MainGoes, Main, Idle, logVars, Log
  <2>2. ASSUME NEW k \in Tokens, AloneText(k)' PROVE AloneText(k)
    BY <1>2, <2>2 DEF AloneText, Alone, MainGoes, Main
  <2>3. QED BY <2>1, <2>2 DEF LogStays, Pending
<1>3. CASE ArgumentsExit \/ Return
  <2>1. CloseLogFile("main") /\ part["main"] = "none" /\ UNCHANGED logged
    BY <1>3 DEF ArgumentsExit, Return, Exits, Main, Idle, CloseLogFile
  <2>2. mainPc = "return" \/ logged["main"] \in 1 .. 3
    BY <1>3 DEF ArgumentsExit, Return, Main, LInv, MainAlone
  <2>3. QED BY <1>0, <2>1, <2>2, CloseKeepsLog
<1>4. CASE SetExecutingDirectory \/ StartupMessage \/ SaveDirectoryMessage \/ InvalidCommand
           \/ StopMessage \/ Goodbye \/ ErrorMessage
  BY <1>0, <1>1, <1>4 DEF SetExecutingDirectory, StartupMessage, SaveDirectoryMessage, InvalidCommand,
     StopMessage, Goodbye, ErrorMessage
<1>5. CASE ParseArguments \/ RunServerThrows \/ StopCommand \/ Join \/ MainGoes("destroy", "goodbye")
  BY <1>0, <1>2, <1>5 DEF ParseArguments, RunServerThrows, StopCommand, Join
<1>6. CASE StartThread
  <2>1. UNCHANGED logVars /\ mainPc' \notin {"return", "done"} /\ part["main"] = "none"
    BY <1>6 DEF StartThread, Main, Idle
  <2>2. QED BY <1>0, <2>1 DEF LogStays, AloneText, Alone, Pending, Log, logVars
<1>7. CASE (DestroyNetData /\ ~MainGoes("destroy", "goodbye")) \/ ServicesReturn \/ ServicesAbort \/ Killed
  <2>1. UNCHANGED <<logVars, mainPc>>
    BY <1>7 DEF DestroyNetData, ServicesReturn, ServicesAbort, Killed, Raise
  <2>2. QED BY <1>0, <2>1, NothingLogged DEF logVars
<1>8. CASE HandlerLogs
  <2>1. UNCHANGED <<file, buffer, stream, mainPc>> /\ logged'["main"] = logged["main"]
        /\ part'["main"] = part["main"]
    BY <1>0, <1>8 DEF HandlerLogs, LogMessage, PInv, ProcessTypeOK, LoggerTypeOK
  <2>2. QED BY <1>0, <2>1 DEF LogStays, AloneText, Alone, Pending, Log
<1>9. ASSUME NEW t \in Threads, Insert(t)
      PROVE  UNCHANGED logged /\ (LogStays \/ \E k \in Tokens : LogGains(t, k))
  <2>1. CASE InsertBegins(t)
    BY <1>9, <2>1, NothingLogged DEF Insert, InsertBegins
  <2>2. CASE InsertEnds(t)
    BY <1>9, <2>2, InsertLogs DEF Insert, InsertEnds
  <2>3. QED BY <1>9, <2>1, <2>2 DEF Insert
<1>10. ASSUME NEW t \in Threads, Crash(t)
       PROVE  UNCHANGED logged /\ (LogStays \/ \E k \in Tokens : LogGains(t, k))
  <2>1. CASE InsertFaults(t) \/ HandlerOpensLog(t) \/ HandlerWritesToNull(t)
    BY <1>10, <2>1, NothingLogged DEF Crash, InsertFaults, Raise, HandlerOpensLog, HandlerWritesToNull,
       logVars
  <2>2. CASE HandlerClosesLog(t) \/ HandlerExits(t)
    <3>1. CloseLogFile(t) /\ handler[t] # "none" /\ UNCHANGED <<mainPc, logged>>
      BY <1>10, <2>2 DEF Crash, HandlerClosesLog, HandlerExits, Handler, CloseLogFile
    <3>2. QED BY <3>1, CloseKeepsLog
  <2>3. CASE PrintStackTrace(t)
    BY <1>10, <2>3, ReportLogs DEF Crash, PrintStackTrace
  <2>4. QED BY <1>10, <2>1, <2>2, <2>3 DEF Crash, SignalCrashHandler
<1>11. QED
  BY <1>0, <1>3, <1>4, <1>5, <1>6, <1>7, <1>8, <1>9, <1>10 DEF ProcessNext, MainNext, ServicesNext

LEMMA OpenLogLines == PInv /\ LInv /\ OpenLog => TokensBegun' /\ WholeLines'
<1> SUFFICES ASSUME PInv, LInv, OpenLog PROVE TokensBegun' /\ WholeLines'
  OBVIOUS
<1>1. UNCHANGED <<logged, buffer>> /\ buffer = <<>> /\ mainPc' = "startup" /\ ~stream.open
  BY DEF OpenLog, Main, OpenLogFile, PInv, BeforeLog, ProcessTypeOK, LoggerTypeOK
<1>2. logged["main"] \in Nat
  BY DEF PInv, ProcessTypeOK, LoggerTypeOK, Threads
<1>3. CASE file' = <<>>
  <2>1. Len(Log') = 0
    BY <1>1, <1>3 DEF Log
  <2>2. QED BY <2>1 DEF TokensBegun, WholeLines
<1>4. CASE UNCHANGED file
  <2>1. LogStays
    BY <1>1, <1>4 DEF LogStays, Log, AloneText, Alone, Pending
  <2>2. QED BY <1>1, <1>2, <2>1, LogStaysStep
<1>5. QED BY <1>3, <1>4 DEF OpenLog, OpenLogFile

LEMMA LInvStep == PInv /\ PInv' /\ LInv /\ [ProcessNext]_processVars => LInv'
<1> SUFFICES ASSUME PInv, PInv', LInv, [ProcessNext]_processVars PROVE LInv'
  OBVIOUS
<1>1. MainAlone'
  BY MainAloneStep DEF LInv
<1>2. logged["main"] \in Nat /\ logged'["main"] \in Nat
  BY DEF PInv, ProcessTypeOK, LoggerTypeOK, Threads
<1>3. CASE OpenLog
  BY <1>1, <1>3, OpenLogLines DEF LInv
<1>4. CASE ProcessNext /\ ~OpenLog
  BY <1>1, <1>2, <1>4, LogMoves, LogStaysStep, LogGainsStep DEF LInv
<1>5. CASE UNCHANGED processVars
  <2>1. LogStays /\ UNCHANGED logged
    BY <1>5, NothingLogged DEF processVars, logVars
  <2>2. QED BY <1>1, <1>2, <2>1, LogStaysStep DEF LInv
<1>6. QED BY <1>3, <1>4, <1>5

\* A line that main logs with no thread beside it reaches the log as a whole,
\* the text with its newline.
THEOREM LinesAreWhole == ProcessSpec => []LinesWholeWhenAlone
<1>1. PInv /\ LInv => LinesWholeWhenAlone
  <2>1. SUFFICES ASSUME PInv, LInv PROVE LinesWholeWhenAlone
    OBVIOUS
  <2>2. file \o buffer = Log /\ DOMAIN Log = 1 .. Len(Log)
    BY <2>1, LogIsTokens DEF Log
  <2>3. QED BY <2>1, <2>2 DEF LInv, WholeLines, AloneText, Pending, LinesWholeWhenAlone
<1>2. QED BY <1>1, ProcessInvariance, LInvInit, LInvStep, PTL DEF ProcessSpec

-------------------------------------------------------------------------------
(***************************************************************************)
(* Nothing is lost.  As long as no two threads race and no file operation  *)
(* fails, the log holds the parts that a thread has inserted, each once    *)
(* and in the order of their turns, up to the crash of another thread.     *)
(***************************************************************************)
Intact == faults = {} /\ ~raced

LogOpened == mainPc \notin {"directory", "open"}

\* No handler has closed log_file.
Untouched == \A t \in Threads : handler[t] \in {"none", "close"}

\* The parts of the lines a thread logs to the file, and the turn it is at.
LineParts(t) == {k \in Tokens : k.by = t /\ k.part # "report" /\ k.n >= FirstLine(t)}

NextTurn(t) ==
    2 * logged[t] + (IF part[t] = "text" THEN 0 ELSE IF part[t] = "newline" THEN 1 ELSE 2)

RecordedUpTo(t, tokens, turn) ==
    /\ \A i \in PlacesOf(t, tokens) : tokens[i].n >= FirstLine(t) /\ Turn(tokens[i]) < turn
    /\ \A k \in LineParts(t) : Turn(k) < turn => \E i \in PlacesOf(t, tokens) : tokens[i] = k
    /\ \A i, j \in PlacesOf(t, tokens) : i < j => Turn(tokens[i]) < Turn(tokens[j])

\* Without a race only an assertion raises a signal: in the services thread, or
\* in main's after the join.
OneCrash ==
    /\ handler["main"] # "none" => servicesPc # "run"
    /\ \A t \in Threads : handler[t] # "none" => part[t] = "none"

OpenWhileUp == LogOpened /\ Untouched /\ process = "up" => stream.open /\ stream.good

ClosedAtEnd ==
    /\ process = "exited" =>
          LogOpened /\ ~stream.open /\ \A t \in Threads : handler[t] = "none" /\ part[t] = "none"
    /\ process = "crashed" => ~stream.open

LinesBegun ==
    /\ servicesPc = "none" => logged["services"] = 0
    /\ LogOpened => /\ logged["main"] >= 1
                    /\ \A t \in Threads : part[t] # "none" => logged[t] >= FirstLine(t)

\* Every thread's lines are in the log, unless the other's handler has closed it.
Recorded ==
    /\ ~LogOpened => Log = <<>>
    /\ LogOpened =>
          \A t \in Threads :
              (\A u \in Threads : u # t => handler[u] \in {"none", "close"})
              => RecordedUpTo(t, Log, NextTurn(t))

CInv ==
    /\ LinesBegun
    /\ Intact => OneCrash /\ OpenWhileUp /\ ClosedAtEnd /\ Recorded

-------------------------------------------------------------------------------
LEMMA TurnType ==
  ASSUME NEW k \in Tokens
  PROVE  Turn(k) \in Nat /\ k.n \in Nat /\ k.part \in {"text", "newline", "report"}
BY DEF Tokens, Parts, Turn

\* Two parts of a thread's lines with the same turn are the same.
LEMMA TurnInjective ==
  ASSUME NEW t \in Threads, NEW k \in LineParts(t), NEW l \in LineParts(t), Turn(k) = Turn(l)
  PROVE  k = l
<1>1. /\ k \in Tokens /\ l \in Tokens /\ k.by = l.by
      /\ k.part \in {"text", "newline"} /\ l.part \in {"text", "newline"}
      /\ k.n \in Nat /\ l.n \in Nat
  BY TurnType DEF LineParts
<1>2. k.n = l.n /\ (k.part = "newline" <=> l.part = "newline")
  BY <1>1 DEF Turn
<1>3. QED BY <1>1, <1>2 DEF Tokens

LEMMA RecordedNothing ==
  ASSUME NEW t \in Threads, NEW turn \in Nat, turn <= 2 * FirstLine(t)
  PROVE  RecordedUpTo(t, <<>>, turn)
<1>1. PlacesOf(t, <<>>) = {}
  BY DEF PlacesOf
<1>2. \A k \in LineParts(t) : ~(Turn(k) < turn)
  BY DEF LineParts, Tokens, Turn, FirstLine
<1>3. QED BY <1>1, <1>2 DEF RecordedUpTo

LEMMA AppendedPlaces ==
  ASSUME NEW t \in Threads, NEW s \in Seq(Tokens), NEW k \in Tokens
  PROVE  /\ \A i \in PlacesOf(t, s) : i \in 1 .. Len(s) /\ s[i] \in Tokens /\ Append(s, k)[i] = s[i]
         /\ Append(s, k)[Len(s) + 1] = k /\ Len(s) \in Nat
         /\ PlacesOf(t, Append(s, k)) =
               IF k.by = t /\ k.part # "report" THEN PlacesOf(t, s) \cup {Len(s) + 1}
               ELSE PlacesOf(t, s)
<1>1. /\ Append(s, k) \in Seq(Tokens) /\ Len(Append(s, k)) = Len(s) + 1
      /\ \A i \in 1 .. Len(s) : Append(s, k)[i] = s[i]
      /\ Append(s, k)[Len(s) + 1] = k
  BY AppendProperties
<1>2. /\ DOMAIN s = 1 .. Len(s) /\ DOMAIN Append(s, k) = 1 .. Len(s) + 1 /\ Len(s) \in Nat
      /\ \A i \in 1 .. Len(s) : s[i] \in Tokens
  BY <1>1, LenProperties
<1>3. QED BY <1>1, <1>2 DEF PlacesOf

LEMMA RecordsOthers ==
  ASSUME NEW t \in Threads, NEW s \in Seq(Tokens), NEW k \in Tokens, NEW turn \in Nat,
         RecordedUpTo(t, s, turn), k.by # t \/ k.part = "report"
  PROVE  RecordedUpTo(t, Append(s, k), turn)
<1>1. PlacesOf(t, Append(s, k)) = PlacesOf(t, s)
  BY AppendedPlaces
<1>2. \A i \in PlacesOf(t, s) : Append(s, k)[i] = s[i]
  BY AppendedPlaces
<1> DEFINE a == Append(s, k)
<1> HIDE DEF a
<1>3. PlacesOf(t, a) = PlacesOf(t, s) /\ \A i \in PlacesOf(t, s) : a[i] = s[i]
  BY <1>1, <1>2 DEF a
<1>4. RecordedUpTo(t, a, turn)
  BY <1>3 DEF RecordedUpTo
<1>5. QED BY <1>4 DEF a

LEMMA RecordsOwn ==
  ASSUME NEW t \in Threads, NEW s \in Seq(Tokens), NEW k \in LineParts(t),
         RecordedUpTo(t, s, Turn(k))
  PROVE  RecordedUpTo(t, Append(s, k), Turn(k) + 1)
<1> DEFINE a == Append(s, k)
           last == Len(s) + 1
<1>1. /\ \A i \in PlacesOf(t, s) : i \in 1 .. Len(s) /\ s[i] \in Tokens /\ a[i] = s[i]
      /\ a[last] = k /\ Len(s) \in Nat
      /\ PlacesOf(t, a) = PlacesOf(t, s) \cup {last}
  BY AppendedPlaces DEF LineParts
<1>2. k \in Tokens /\ k.n >= FirstLine(t) /\ Turn(k) \in Nat
  BY TurnType DEF LineParts
<1>3. \A i \in PlacesOf(t, s) : Turn(s[i]) \in Nat
  BY <1>1, TurnType
<1> HIDE DEF a
<1>4. ASSUME NEW i \in PlacesOf(t, a) PROVE a[i].n >= FirstLine(t) /\ Turn(a[i]) < Turn(k) + 1
  <2>1. CASE i = last
    BY <1>1, <1>2, <2>1
  <2>2. CASE i \in PlacesOf(t, s)
    BY <1>1, <1>2, <1>3, <2>2 DEF RecordedUpTo
  <2>3. QED BY <1>1, <2>1, <2>2
<1>5. ASSUME NEW l \in LineParts(t), Turn(l) < Turn(k) + 1
      PROVE  \E i \in PlacesOf(t, a) : a[i] = l
  <2>1. CASE Turn(l) = Turn(k)
    BY <1>1, <2>1, TurnInjective
  <2>2. CASE Turn(l) < Turn(k)
    BY <1>1, <2>2 DEF RecordedUpTo
  <2>3. Turn(l) \in Nat
    BY TurnType DEF LineParts
  <2>4. QED BY <1>2, <1>5, <2>1, <2>2, <2>3
<1>6. ASSUME NEW i \in PlacesOf(t, a), NEW j \in PlacesOf(t, a), i < j
      PROVE  Turn(a[i]) < Turn(a[j])
  <2>1. i \in PlacesOf(t, s)
    BY <1>1, <1>6
  <2>2. CASE j = last
    BY <1>1, <2>1, <2>2 DEF RecordedUpTo
  <2>3. CASE j \in PlacesOf(t, s)
    BY <1>1, <1>6, <2>1, <2>3 DEF RecordedUpTo
  <2>4. QED BY <1>1, <2>2, <2>3
<1>7. RecordedUpTo(t, a, Turn(k) + 1)
  BY <1>4, <1>5, <1>6 DEF RecordedUpTo
<1>8. QED BY <1>7 DEF a

-------------------------------------------------------------------------------
LEMMA CInvInit == ProcessInit => CInv
<1> SUFFICES ASSUME ProcessInit PROVE CInv
  OBVIOUS
<1> USE DEF ProcessInit, LoggerInit, CrashInit, LogOpened
<1>1. LinesBegun
  BY DEF LinesBegun, Threads
<1>2. OneCrash /\ OpenWhileUp /\ ClosedAtEnd
  BY DEF OneCrash, OpenWhileUp, ClosedAtEnd, Threads
<1>3. Recorded
  BY ConcatEmptySeq DEF Recorded, Log
<1>4. QED BY <1>1, <1>2, <1>3 DEF CInv

\* A process that has ended does nothing.
LEMMA EndedStep ==
  ASSUME [ProcessNext]_processVars, process # "up"
  PROVE  UNCHANGED processVars
<1>1. ~MainNext
  BY DEF MainNext, SetExecutingDirectory, OpenLog, StartupMessage, ParseArguments, ArgumentsExit,
     SaveDirectoryMessage, StartThread, RunServerThrows, InvalidCommand, StopCommand, StopMessage,
     Join, DestroyNetData, Goodbye, ErrorMessage, Return, MainLogs, MainGoes, Main, Idle, Runs
<1>2. ~ServicesNext /\ ~Killed
  BY DEF ServicesNext, HandlerLogs, ServicesReturn, ServicesAbort, Killed, Idle, Runs
<1>3. ASSUME NEW t \in Threads PROVE ~Insert(t) /\ ~Crash(t)
  BY DEF Insert, Crash, InsertFaults, Raise, SignalCrashHandler, HandlerClosesLog, HandlerOpensLog,
     HandlerWritesToNull, PrintStackTrace, HandlerExits, Handler, Runs
<1>4. QED BY <1>1, <1>2, <1>3 DEF ProcessNext

LEMMA IntactStep ==
  ASSUME PInv, [ProcessNext]_processVars, Intact'
  PROVE  Intact /\ racing = {}
<1> USE DEF logVars, crashVars
<1>0. raced \in BOOLEAN /\ (racing # {} => raced)
  BY DEF PInv, ProcessTypeOK, LoggerTypeOK
<1>1. ASSUME NEW t \in Threads, CloseLogFile(t) PROVE faults' = faults /\ (raced => raced')
  BY <1>0, <1>1, Zenon DEF CloseLogFile, Uses
<1>2. ASSUME MainNext /\ ~ArgumentsExit /\ ~Return PROVE faults' = faults /\ (raced => raced')
  BY <1>2 DEF MainNext, SetExecutingDirectory, OpenLog, OpenLogFile, StartupMessage,
     ParseArguments, SaveDirectoryMessage, StartThread, RunServerThrows, InvalidCommand, StopCommand,
     StopMessage, Join, DestroyNetData, Goodbye, ErrorMessage, MainLogs, MainGoes, LogMessage, Raise
<1>3. ASSUME ArgumentsExit \/ Return PROVE faults' = faults /\ (raced => raced')
  BY <1>1, <1>3 DEF ArgumentsExit, Return, Exits, Threads
<1>4. ASSUME ServicesNext \/ Killed PROVE faults' = faults /\ (raced => raced')
  BY <1>4 DEF ServicesNext, HandlerLogs, ServicesReturn, ServicesAbort, LogMessage, Raise, Killed
<1>5. ASSUME NEW t \in Threads, Insert(t) PROVE faults' = faults /\ (raced => raced')
  BY <1>0, <1>5 DEF Insert, InsertBegins, InsertEnds, Uses
<1>6. ASSUME NEW t \in Threads, Crash(t) PROVE faults' = faults /\ (raced => raced')
  BY <1>1, <1>6 DEF Crash, InsertFaults, Raise, SignalCrashHandler, HandlerClosesLog,
     HandlerOpensLog, HandlerWritesToNull, PrintStackTrace, HandlerExits
<1>7. ASSUME UNCHANGED processVars PROVE faults' = faults /\ (raced => raced')
  BY <1>7 DEF processVars
<1>8. faults' = faults /\ (raced => raced')
  BY <1>2, <1>3, <1>4, <1>5, <1>6, <1>7 DEF ProcessNext
<1>9. Intact
  BY <1>8, Zenon DEF Intact
<1>10. QED BY <1>0, <1>9 DEF Intact

\* A handler that has closed the log stays in it.
LEMMA HandlerStep ==
  ASSUME PInv, [ProcessNext]_processVars, Intact, NEW t \in Threads, handler'[t] \in {"none", "close"}
  PROVE  handler[t] \in {"none", "close"}
<1>0. handler \in [Threads -> {"none", "close", "fopen", "report", "exit"}]
  BY DEF PInv, ProcessTypeOK, CrashTypeOK
<1>1. CASE MainNext \/ ServicesNext \/ Killed
  <2>1. UNCHANGED handler \/ \E u \in Threads, sig \in {"SIGABRT"} : Raise(u, sig)
    BY <1>1 DEF MainNext, SetExecutingDirectory, OpenLog, StartupMessage, ParseArguments, ArgumentsExit,
       SaveDirectoryMessage, StartThread, RunServerThrows, InvalidCommand, StopCommand, StopMessage,
       Join, DestroyNetData, Goodbye, ErrorMessage, Return, MainLogs, MainGoes, Exits, crashVars,
       ServicesNext, HandlerLogs, ServicesReturn, ServicesAbort, Killed, Threads
  <2>2. QED BY <1>0, <2>1 DEF Raise, Runs
<1>2. ASSUME NEW u \in Threads, Insert(u) PROVE UNCHANGED handler
  BY <1>2 DEF Insert, crashVars
<1>3. ASSUME NEW u \in Threads, Crash(u) PROVE handler[t] \in {"none", "close"}
  BY <1>0, <1>3 DEF Crash, InsertFaults, Raise, Runs, SignalCrashHandler, HandlerClosesLog, HandlerOpensLog,
     HandlerWritesToNull, PrintStackTrace, HandlerExits, Handler, Intact
<1>4. CASE UNCHANGED processVars
  BY <1>4 DEF processVars, crashVars
<1>5. QED BY <1>1, <1>2, <1>3, <1>4 DEF ProcessNext

LEMMA LinesBegunStep ==
  ASSUME PInv, MainAlone, LinesBegun, [ProcessNext]_processVars
  PROVE  LinesBegun'
<1>0. /\ logged \in [Threads -> Nat]
      /\ part \in [Threads -> {"none", "text", "newline"}]
      /\ "main" \in Threads /\ "services" \in Threads
      /\ \A t \in Threads : t = "main" \/ t = "services"
  BY DEF PInv, ProcessTypeOK, LoggerTypeOK, Threads
<1> USE DEF logVars, crashVars
<1>1. CASE OpenLog
  BY <1>0, <1>1 DEF OpenLog, OpenLogFile, Main, Idle, LinesBegun, LogOpened, MainAlone, PInv, BeforeLog,
     ServicesBesideMain
<1>2. ASSUME NEW at, NEW next, MainLogs(at, next), next = "open" <=> at = "directory",
             next # "directory", at # "open"
      PROVE  LinesBegun'
  BY <1>0, <1>2 DEF MainLogs, Main, LogMessage, LinesBegun, LogOpened, FirstLine
<1>3. CASE SetExecutingDirectory \/ StartupMessage \/ SaveDirectoryMessage \/ InvalidCommand
           \/ StopMessage \/ Goodbye \/ ErrorMessage
  BY <1>2, <1>3 DEF SetExecutingDirectory, StartupMessage, SaveDirectoryMessage, InvalidCommand,
     StopMessage, Goodbye, ErrorMessage
<1>4. CASE ParseArguments \/ RunServerThrows \/ StopCommand \/ Join \/ MainGoes("destroy", "goodbye")
           \/ StartThread
  BY <1>0, <1>4 DEF ParseArguments, RunServerThrows, StopCommand, Join, StartThread, MainGoes, Main,
     LinesBegun, LogOpened
<1>5. CASE ArgumentsExit \/ Return
  BY <1>0, <1>5 DEF ArgumentsExit, Return, Exits, CloseLogFile, Main, LinesBegun, LogOpened
<1>6. CASE (DestroyNetData /\ ~MainGoes("destroy", "goodbye")) \/ ServicesAbort \/ ServicesReturn \/ Killed
  BY <1>0, <1>6 DEF DestroyNetData, ServicesAbort, ServicesReturn, Killed, Raise, LinesBegun, LogOpened
<1>7. CASE HandlerLogs
  BY <1>0, <1>7 DEF HandlerLogs, LogMessage, LinesBegun, LogOpened, FirstLine
<1>8. ASSUME NEW t \in Threads, Insert(t) PROVE LinesBegun'
  BY <1>0, <1>8 DEF Insert, InsertBegins, InsertEnds, LinesBegun, LogOpened
<1>9. ASSUME NEW t \in Threads, Crash(t) PROVE LinesBegun'
  <2>1. UNCHANGED <<logged, part, mainPc, servicesPc>>
    BY <1>9 DEF Crash, InsertFaults, SignalCrashHandler, Raise, HandlerClosesLog, HandlerOpensLog,
       HandlerWritesToNull, PrintStackTrace, HandlerExits, CloseLogFile
  <2>2. QED BY <2>1 DEF LinesBegun, LogOpened
<1>10. CASE UNCHANGED processVars
  BY <1>10 DEF processVars, LinesBegun, LogOpened
<1>11. QED BY <1>1, <1>3, <1>4, <1>5, <1>6, <1>7, <1>8, <1>9, <1>10
       DEF ProcessNext, MainNext, ServicesNext

LEMMA OneCrashStep ==
  ASSUME PInv, MainAlone, Intact, racing = {}, OneCrash, [ProcessNext]_processVars
  PROVE  OneCrash'
<1>0. /\ part \in [Threads -> {"none", "text", "newline"}]
      /\ handler \in [Threads -> {"none", "close", "fopen", "report", "exit"}]
      /\ "main" \in Threads /\ "services" \in Threads /\ "main" # "services"
      /\ ServicesBesideMain
  BY DEF PInv, ProcessTypeOK, LoggerTypeOK, CrashTypeOK, Threads
<1> USE DEF logVars, crashVars, OneCrash
<1>1. CASE MainNext /\ ~DestroyNetData /\ ~ArgumentsExit /\ ~Return
  BY <1>0, <1>1 DEF MainNext, SetExecutingDirectory, OpenLog, OpenLogFile, StartupMessage,
     ParseArguments, SaveDirectoryMessage, StartThread, RunServerThrows, InvalidCommand, StopCommand,
     StopMessage, Join, Goodbye, ErrorMessage, MainLogs, MainGoes, LogMessage, Main, Idle, Runs
<1>2. CASE DestroyNetData
  BY <1>0, <1>2 DEF DestroyNetData, MainGoes, Raise, Idle, Runs, ServicesBesideMain
<1>3. CASE ArgumentsExit \/ Return
  BY <1>3 DEF ArgumentsExit, Return, Exits, CloseLogFile
<1>4. CASE ServicesNext \/ Killed
  BY <1>0, <1>4 DEF ServicesNext, HandlerLogs, ServicesReturn, ServicesAbort, LogMessage, Raise, Idle,
     Runs, Killed
<1>5. ASSUME NEW t \in Threads, Insert(t) PROVE OneCrash'
  BY <1>0, <1>5 DEF Insert, InsertBegins, InsertEnds, Runs
<1>6. ASSUME NEW t \in Threads, Crash(t) PROVE OneCrash'
  <2>1. UNCHANGED <<part, mainPc, servicesPc>>
    BY <1>6 DEF Crash, InsertFaults, SignalCrashHandler, Raise, HandlerClosesLog, HandlerOpensLog,
       HandlerWritesToNull, PrintStackTrace, HandlerExits, CloseLogFile
  <2>2. \A u \in Threads : handler'[u] # "none" => handler[u] # "none"
    BY <1>0, <1>6 DEF Crash, InsertFaults, SignalCrashHandler, HandlerClosesLog, HandlerOpensLog,
       HandlerWritesToNull, PrintStackTrace, HandlerExits, Handler, Intact
  <2>3. QED BY <1>0, <2>1, <2>2
<1>7. CASE UNCHANGED processVars
  BY <1>7 DEF processVars
<1>8. QED BY <1>1, <1>2, <1>3, <1>4, <1>5, <1>6, <1>7 DEF ProcessNext

\* Main has opened the log before only by OpenLog.
LEMMA OpenedBefore ==
  ASSUME PInv, [ProcessNext]_processVars, LogOpened', ~OpenLog
  PROVE  LogOpened
<1>1. CASE MainNext
  BY <1>1 DEF MainNext, SetExecutingDirectory, StartupMessage, ParseArguments, ArgumentsExit,
     SaveDirectoryMessage, StartThread, RunServerThrows, InvalidCommand, StopCommand, StopMessage,
     Join, DestroyNetData, Goodbye, ErrorMessage, Return, MainLogs, MainGoes, Main, LogOpened
<1>2. CASE ServicesNext \/ Killed \/ (\E t \in Threads : Insert(t) \/ Crash(t)) \/ UNCHANGED processVars
  <2>1. UNCHANGED mainPc
    BY <1>2 DEF ServicesNext, HandlerLogs, ServicesReturn, ServicesAbort, Killed, Insert, Crash, processVars
  <2>2. QED BY <2>1 DEF LogOpened
<1>3. QED BY <1>1, <1>2 DEF ProcessNext

LEMMA OpenWhileUpStep ==
  ASSUME PInv, Intact, racing = {}, OpenWhileUp, [ProcessNext]_processVars
  PROVE  OpenWhileUp'
<1> SUFFICES ASSUME LogOpened', Untouched', process' = "up"
             PROVE  stream'.open /\ stream'.good
  BY DEF OpenWhileUp
<1> USE DEF logVars, crashVars
<1>1. process = "up"
  BY EndedStep DEF processVars
<1>2. Untouched
  BY HandlerStep DEF Untouched
<1>3. CASE OpenLog
  BY <1>3 DEF OpenLog, OpenLogFile, Intact
<1> SUFFICES ASSUME ~OpenLog PROVE stream'.open /\ stream'.good
  BY <1>3
<1>4. stream.open /\ stream.good
  BY <1>1, <1>2, OpenedBefore DEF OpenWhileUp
<1>5. CASE MainNext
  <2>1. ~ArgumentsExit /\ ~Return
    BY DEF ArgumentsExit, Return, Exits
  <2>2. UNCHANGED stream
    BY <1>5, <2>1 DEF MainNext, SetExecutingDirectory, StartupMessage, ParseArguments,
       SaveDirectoryMessage, StartThread, RunServerThrows, InvalidCommand, StopCommand, StopMessage,
       Join, DestroyNetData, Goodbye, ErrorMessage, MainLogs, MainGoes, LogMessage, Raise
  <2>3. QED BY <1>4, <2>2
<1>6. CASE ServicesNext \/ Killed \/ UNCHANGED processVars
  BY <1>4, <1>6 DEF ServicesNext, HandlerLogs, ServicesReturn, ServicesAbort, LogMessage, Raise, Killed,
     processVars
<1>7. ASSUME NEW t \in Threads, Insert(t) PROVE UNCHANGED stream
  BY <1>4, <1>7 DEF Insert, InsertBegins, InsertEnds
<1>8. ASSUME NEW t \in Threads, Crash(t) PROVE UNCHANGED stream
  <2>1. ~HandlerExits(t)
    BY DEF HandlerExits
  <2>2. ~HandlerClosesLog(t)
    BY <1>8 DEF HandlerClosesLog, Handler, Untouched, PInv, ProcessTypeOK, CrashTypeOK
  <2>3. QED BY <1>8, <2>1, <2>2 DEF Crash, InsertFaults, Raise, SignalCrashHandler, HandlerOpensLog,
               HandlerWritesToNull, PrintStackTrace
<1>9. QED BY <1>4, <1>5, <1>6, <1>7, <1>8 DEF ProcessNext

LEMMA ClosedAtEndStep ==
  ASSUME PInv, MainAlone, Intact, racing = {}, OneCrash, ClosedAtEnd, [ProcessNext]_processVars
  PROVE  ClosedAtEnd'
<1> USE DEF logVars, crashVars
<1>0. /\ ServicesBesideMain /\ "main" \in Threads
      /\ \A t \in Threads : t = "main" \/ t = "services"
      /\ \A t \in Threads : handler[t] \in {"fopen", "report", "exit"} => ~stream.open
      /\ process \in {"up", "exited", "crashed", "killed"}
  BY DEF PInv, ClosedByHandler, ProcessTypeOK, CrashTypeOK, Threads
<1>1. CASE process # "up"
  <2>1. UNCHANGED processVars
    BY <1>1, EndedStep
  <2>2. QED BY <2>1 DEF processVars, ClosedAtEnd, LogOpened
<1>2. CASE ArgumentsExit \/ Return
  <2>1. /\ CloseLogFile("main") /\ process' = "exited" /\ UNCHANGED handler /\ Idle("main")
        /\ mainPc \in {"arguments", "return"} /\ mainPc' = "done"
    BY <1>2 DEF ArgumentsExit, Return, Exits, Main
  <2>2. ~stream'.open
    BY <1>0, <2>1, CloseStep
  <2>3. \A t \in Threads : handler[t] = "none" /\ part[t] = "none"
    BY <1>0, <2>1 DEF ServicesBesideMain, MainAlone, Idle, Runs
  <2>4. UNCHANGED part
    BY <2>1 DEF CloseLogFile
  <2>5. QED BY <2>1, <2>2, <2>3, <2>4 DEF ClosedAtEnd, LogOpened
<1>3. ASSUME NEW t \in Threads, HandlerExits(t) PROVE ClosedAtEnd'
  <2>1. CloseLogFile(t) /\ process' = "crashed"
    BY <1>3 DEF HandlerExits
  <2>2. ~stream'.open
    BY <2>1, CloseStep
  <2>3. QED BY <2>1, <2>2 DEF ClosedAtEnd
<1>4. CASE process = "up" /\ ~ArgumentsExit /\ ~Return /\ \A t \in Threads : ~HandlerExits(t)
  <2>1. process' \in {"up", "killed"}
    <3>1. CASE MainNext \/ ServicesNext \/ Killed \/ UNCHANGED processVars
      BY <1>4, <3>1 DEF MainNext, SetExecutingDirectory, OpenLog, StartupMessage, ParseArguments,
         SaveDirectoryMessage, StartThread, RunServerThrows, InvalidCommand, StopCommand, StopMessage,
         Join, DestroyNetData, Goodbye, ErrorMessage, MainLogs, MainGoes, Raise, ServicesNext,
         HandlerLogs, ServicesReturn, ServicesAbort, Killed, processVars
    <3>2. ASSUME NEW t \in Threads, Insert(t) \/ Crash(t) PROVE process' \in {"up", "killed"}
      BY <1>4, <3>2 DEF Insert, Crash, InsertFaults, Raise, SignalCrashHandler, HandlerClosesLog,
         HandlerOpensLog, HandlerWritesToNull, PrintStackTrace, Handler
    <3>3. QED BY <3>1, <3>2 DEF ProcessNext
  <2>2. QED BY <2>1 DEF ClosedAtEnd
<1>5. QED BY <1>1, <1>2, <1>3, <1>4

-------------------------------------------------------------------------------
\* Every other step leaves the log and the turns as they are.
LEMMA TurnsStay ==
  ASSUME PInv, [ProcessNext]_processVars, ~OpenLog,
         \A u \in Threads : ~(Insert(u) /\ InsertEnds(u)) /\ ~(Crash(u) /\ PrintStackTrace(u))
  PROVE  Log' = Log /\ \A t \in Threads : NextTurn(t)' = NextTurn(t)
<1> USE DEF logVars, crashVars
<1>0. /\ logged \in [Threads -> Nat]
      /\ part \in [Threads -> {"none", "text", "newline"}]
      /\ "main" \in Threads /\ "services" \in Threads
  BY DEF PInv, ProcessTypeOK, LoggerTypeOK, Threads
<1>1. ASSUME NEW t \in Threads, CloseLogFile(t) PROVE Log' = Log /\ UNCHANGED <<logged, part>>
  <2>1. file \in Seq(Tokens) /\ buffer \in Seq(Tokens)
    BY DEF PInv, ProcessTypeOK, LoggerTypeOK
  <2>2. (file \o buffer) \o <<>> = file \o buffer
    BY <2>1, JoinedTokens, ConcatEmptySeq
  <2>3. QED BY <1>1, <2>2 DEF CloseLogFile, Log
<1>2. ASSUME NEW t \in Threads, LogMessage(t)
      PROVE  Log' = Log /\ \A u \in Threads : NextTurn(u)' = NextTurn(u)
  BY <1>0, <1>2 DEF LogMessage, Log, NextTurn
<1>3. CASE UNCHANGED <<file, buffer, logged, part>>
  BY <1>3 DEF Log, NextTurn
<1>4. CASE MainNext
  <2>1. CASE ArgumentsExit \/ Return
    BY <1>0, <1>1, <2>1 DEF ArgumentsExit, Return, Exits, NextTurn
  <2>2. CASE ~ArgumentsExit /\ ~Return
    <3>1. LogMessage("main") \/ UNCHANGED <<file, buffer, logged, part>>
      BY <1>4, <2>2 DEF MainNext, SetExecutingDirectory, StartupMessage, ParseArguments,
         SaveDirectoryMessage, StartThread, RunServerThrows, InvalidCommand, StopCommand, StopMessage,
         Join, DestroyNetData, Goodbye, ErrorMessage, MainLogs, MainGoes, Raise
    <3>2. QED BY <1>0, <1>2, <1>3, <3>1
  <2>3. QED BY <2>1, <2>2
<1>5. CASE ServicesNext \/ Killed \/ UNCHANGED processVars
  <2>1. LogMessage("services") \/ UNCHANGED <<file, buffer, logged, part>>
    BY <1>5 DEF ServicesNext, HandlerLogs, ServicesReturn, ServicesAbort, Raise, Killed, processVars
  <2>2. QED BY <1>0, <1>2, <1>3, <2>1
<1>6. ASSUME NEW t \in Threads, Insert(t) PROVE UNCHANGED <<file, buffer, logged, part>>
  BY <1>6 DEF Insert, InsertBegins
<1>7. ASSUME NEW t \in Threads, Crash(t)
      PROVE  CloseLogFile(t) \/ UNCHANGED <<file, buffer, logged, part>>
  BY <1>7 DEF Crash, InsertFaults, Raise, SignalCrashHandler, HandlerClosesLog, HandlerOpensLog,
     HandlerWritesToNull, HandlerExits
<1>8. ASSUME NEW t \in Threads, CloseLogFile(t) PROVE \A u \in Threads : NextTurn(u)' = NextTurn(u)
  BY <1>1, <1>8 DEF NextTurn
<1>9. QED BY <1>1, <1>3, <1>4, <1>5, <1>6, <1>7, <1>8 DEF ProcessNext

LEMMA OpenRecords ==
  ASSUME PInv, MainAlone, LinesBegun, OpenLog, Intact
  PROVE  Recorded'
<1>1. /\ buffer = <<>> /\ logged["main"] = 1 /\ part["main"] = "none"
      /\ logged["services"] = 0 /\ part["services"] = "none"
  BY DEF OpenLog, Main, Idle, PInv, BeforeLog, ServicesBesideMain, ProcessTypeOK, LoggerTypeOK, MainAlone,
     LinesBegun
<1>2. file' = <<>> /\ UNCHANGED <<buffer, logged, part>> /\ mainPc' = "startup"
  BY DEF OpenLog, Main, OpenLogFile, Intact
<1>3. Log' = <<>>
  BY <1>1, <1>2, ConcatEmptySeq DEF Log
<1>4. \A t \in Threads : NextTurn(t)' \in Nat /\ NextTurn(t)' <= 2 * FirstLine(t)
  BY <1>1, <1>2 DEF NextTurn, FirstLine, Threads
<1>5. \A t \in Threads : RecordedUpTo(t, <<>>, NextTurn(t)')
  BY <1>4, RecordedNothing
<1>6. \A t \in Threads : RecordedUpTo(t, Log, NextTurn(t))'
  BY <1>3, <1>5 DEF RecordedUpTo, PlacesOf
<1>7. QED BY <1>2, <1>6 DEF Recorded, LogOpened

LEMMA InsertRecords ==
  ASSUME PInv, LinesBegun, OpenWhileUp, Recorded, racing = {},
         NEW u \in Threads, Insert(u), InsertEnds(u)
  PROVE  Recorded'
<1> DEFINE token == [by |-> u, n |-> logged[u], part |-> part[u]]
<1>1. /\ UNCHANGED <<process, handler, mainPc>> /\ process = "up" /\ handler[u] = "none"
      /\ UNCHANGED logged
      /\ part' = [part EXCEPT ![u] = IF @ = "text" THEN "newline" ELSE "none"]
      /\ part \in [Threads -> {"none", "text", "newline"}] /\ part[u] # "none"
      /\ logged \in [Threads -> Nat]
  BY DEF Insert, InsertEnds, Runs, crashVars, PInv, ProcessTypeOK, LoggerTypeOK
<1>2. /\ token \in Tokens /\ token.part # "report"
      /\ token.by = u /\ token.n = logged[u] /\ token.part = part[u]
  BY <1>1, LineToken DEF PInv, ProcessTypeOK
<1>3. /\ file \in Seq(Tokens) /\ buffer \in Seq(Tokens) /\ Log \in Seq(Tokens)
      /\ Append(file \o buffer, token) \o <<>> = Append(file \o buffer, token)
      /\ file \o Append(buffer, token) = Append(file \o buffer, token)
  BY <1>2, LogIsTokens, Appended DEF PInv, ProcessTypeOK, LoggerTypeOK
<1>4. ~stream.open => Log' = Log
  BY InsertedTokens DEF Log
<1>5. stream.open /\ stream.good => Log' = Append(Log, token)
  <2>1. SUFFICES ASSUME stream.open /\ stream.good PROVE Log' = Append(Log, token)
    OBVIOUS
  <2>2. \/ buffer' = Append(buffer, token) /\ UNCHANGED file
        \/ buffer' = <<>> /\ file' = Append(file \o buffer, token)
    BY <2>1 DEF InsertEnds
  <2>3. QED BY <1>3, <2>2 DEF Log
<1>6. NextTurn(u) = Turn(token) /\ NextTurn(u)' = Turn(token) + 1
  BY <1>1, <1>2 DEF NextTurn, Turn
<1>7. \A t \in Threads : t # u => NextTurn(t)' = NextTurn(t)
  BY <1>1 DEF NextTurn
<1>8. \A t \in Threads : NextTurn(t) \in Nat
  BY <1>1 DEF NextTurn
<1> HIDE DEF token
<1>9. CASE ~LogOpened
  <2>1. ~stream.open
    BY <1>9 DEF LogOpened, PInv, BeforeLog
  <2>2. QED BY <1>1, <1>4, <1>9, <2>1 DEF Recorded, LogOpened
<1>10. CASE LogOpened
  <2>1. SUFFICES ASSUME NEW t \in Threads,
                        \A v \in Threads : v # t => handler[v] \in {"none", "close"}
                 PROVE  RecordedUpTo(t, Log', NextTurn(t)')
    BY <1>1, <1>10 DEF Recorded, LogOpened, RecordedUpTo, PlacesOf
  <2>2. RecordedUpTo(t, Log, NextTurn(t))
    BY <1>10, <2>1 DEF Recorded
  <2>3. CASE Untouched
    <3>1. Log' = Append(Log, token)
      BY <1>1, <1>5, <1>10, <2>3 DEF OpenWhileUp
    <3>2. CASE t = u
      <4>1. token \in LineParts(u)
        BY <1>1, <1>2, <1>10 DEF LineParts, LinesBegun
      <4>2. RecordedUpTo(u, Append(Log, token), Turn(token) + 1)
        BY <1>3, <1>6, <2>2, <3>2, <4>1, RecordsOwn
      <4>3. QED BY <1>6, <3>1, <3>2, <4>2
    <3>3. CASE t # u
      <4>1. RecordedUpTo(t, Append(Log, token), NextTurn(t))
        BY <1>2, <1>3, <1>8, <2>2, <3>3, RecordsOthers
      <4>2. QED BY <1>7, <3>1, <3>3, <4>1
    <3>4. QED BY <3>2, <3>3
  <2>4. CASE ~Untouched
    <3>1. handler[t] \notin {"none", "close"} /\ t # u
      BY <1>1, <2>1, <2>4 DEF Untouched
    <3>2. ~stream.open
      BY <3>1 DEF PInv, ClosedByHandler, ProcessTypeOK, CrashTypeOK
    <3>3. QED BY <1>4, <1>7, <2>2, <3>1, <3>2
  <2>5. QED BY <2>3, <2>4
<1>11. QED BY <1>9, <1>10

LEMMA ReportRecords ==
  ASSUME PInv, Recorded, NEW u \in Threads, Crash(u), PrintStackTrace(u)
  PROVE  Recorded'
<1>1. UNCHANGED <<mainPc, logged, part>> /\ handler[u] = "report" /\ handler' = [handler EXCEPT ![u] = "exit"]
  BY DEF Crash, PrintStackTrace, Handler
<1>2. LogOpened /\ ~stream.open
  BY <1>1 DEF LogOpened, PInv, BeforeLog, ClosedByHandler
<1>3. PICK k \in Tokens : LogGains(u, k)
  BY <1>1, ReportLogs
<1>4. k.part = "report" /\ Log' = Append(Log, k)
  BY <1>2, <1>3 DEF LogGains
<1>5. Log \in Seq(Tokens) /\ logged \in [Threads -> Nat]
  BY LogIsTokens DEF PInv, ProcessTypeOK, LoggerTypeOK
<1>6. ASSUME NEW t \in Threads, \A v \in Threads : v # t => handler'[v] \in {"none", "close"}
      PROVE  RecordedUpTo(t, Log', NextTurn(t)')
  <2>1. t = u
    BY <1>1, <1>6 DEF PInv, ProcessTypeOK, CrashTypeOK
  <2>2. \A v \in Threads : v # t => handler[v] \in {"none", "close"}
    BY <1>1, <1>6, <2>1 DEF PInv, ProcessTypeOK, CrashTypeOK
  <2>3. RecordedUpTo(t, Log, NextTurn(t)) /\ NextTurn(t) \in Nat /\ NextTurn(t)' = NextTurn(t)
    BY <1>1, <1>2, <1>5, <2>2 DEF Recorded, NextTurn
  <2>4. RecordedUpTo(t, Append(Log, k), NextTurn(t))
    BY <1>4, <1>5, <2>3, RecordsOthers
  <2>5. QED BY <1>4, <2>3, <2>4
<1>7. QED BY <1>1, <1>2, <1>6 DEF Recorded, LogOpened, RecordedUpTo, PlacesOf

LEMMA RecordedStep ==
  ASSUME PInv, MainAlone, LinesBegun, OpenWhileUp, Recorded, Intact, racing = {},
         [ProcessNext]_processVars
  PROVE  Recorded'
<1>1. CASE OpenLog
  BY <1>1, OpenRecords
<1>2. CASE \E u \in Threads : Insert(u) /\ InsertEnds(u)
  BY <1>2, InsertRecords
<1>3. CASE \E u \in Threads : Crash(u) /\ PrintStackTrace(u)
  BY <1>3, ReportRecords
<1>4. CASE ~OpenLog /\ \A u \in Threads : ~(Insert(u) /\ InsertEnds(u)) /\ ~(Crash(u) /\ PrintStackTrace(u))
  <2>1. Log' = Log /\ \A t \in Threads : NextTurn(t)' = NextTurn(t)
    BY <1>4, TurnsStay
  <2>2. \A v \in Threads : handler'[v] \in {"none", "close"} => handler[v] \in {"none", "close"}
    BY HandlerStep
  <2>3. LogOpened' => LogOpened
    BY <1>4, OpenedBefore
  <2>4. CASE ~LogOpened'
    <3>1. ~LogOpened
      <4>1. SUFFICES ASSUME LogOpened PROVE LogOpened'
        BY <2>4
      <4>2. CASE MainNext
        BY <1>4, <4>1, <4>2 DEF MainNext, SetExecutingDirectory, StartupMessage, ParseArguments, ArgumentsExit,
           SaveDirectoryMessage, StartThread, RunServerThrows, InvalidCommand, StopCommand, StopMessage,
           Join, DestroyNetData, Goodbye, ErrorMessage, Return, MainLogs, MainGoes, Main, LogOpened
      <4>3. CASE ~MainNext
        <5>1. UNCHANGED mainPc
          BY <4>3 DEF ProcessNext, ServicesNext, HandlerLogs, ServicesReturn, ServicesAbort, Killed,
             Insert, Crash, processVars
        <5>2. QED BY <4>1, <5>1 DEF LogOpened
      <4>4. QED BY <4>2, <4>3
    <3>2. QED BY <2>1, <2>4, <3>1 DEF Recorded
  <2>5. CASE LogOpened'
    <3>1. SUFFICES ASSUME NEW t \in Threads,
                          \A v \in Threads : v # t => handler'[v] \in {"none", "close"}
                   PROVE  RecordedUpTo(t, Log', NextTurn(t)')
      BY <2>5 DEF Recorded, RecordedUpTo, PlacesOf
    <3>2. RecordedUpTo(t, Log, NextTurn(t))
      BY <2>2, <2>3, <2>5, <3>1 DEF Recorded
    <3>3. QED BY <2>1, <3>2
  <2>6. QED BY <2>4, <2>5
<1>5. QED BY <1>1, <1>2, <1>3, <1>4

LEMMA CInvStep == PInv /\ LInv /\ CInv /\ [ProcessNext]_processVars => CInv'
<1> SUFFICES ASSUME PInv, LInv, CInv, [ProcessNext]_processVars PROVE CInv'
  OBVIOUS
<1>1. MainAlone /\ LinesBegun /\ LinesBegun'
  BY LinesBegunStep DEF LInv, CInv
<1>2. ASSUME Intact' PROVE OneCrash' /\ OpenWhileUp' /\ ClosedAtEnd' /\ Recorded'
  <2>1. Intact /\ racing = {}
    BY <1>2, IntactStep
  <2>2. OneCrash /\ OpenWhileUp /\ ClosedAtEnd /\ Recorded
    BY <2>1 DEF CInv
  <2>3. QED BY <1>1, <2>1, <2>2, OneCrashStep, OpenWhileUpStep, ClosedAtEndStep, RecordedStep
<1>3. QED BY <1>1, <1>2 DEF CInv

LEMMA RecordedIsComplete == PInv /\ LInv /\ CInv => LogComplete
<1> SUFFICES ASSUME PInv, LInv, CInv, NEW t \in Threads, faults = {}, ~raced,
                    process = "exited" \/ (process = "crashed" /\ handler[t] # "none")
             PROVE  /\ \A k \in LoggedBy(t) : \E i \in PlacesOf(t, file) : file[i] = k
                    /\ \A i \in PlacesOf(t, file) : file[i] \in LoggedBy(t)
                    /\ \A i, j \in PlacesOf(t, file) : i < j => Turn(file[i]) < Turn(file[j])
  BY DEF LogComplete
<1>1. MainAlone /\ OneCrash /\ ClosedAtEnd /\ Recorded
  BY DEF LInv, CInv, Intact
<1>2. /\ logged \in [Threads -> Nat] /\ file \in Seq(Tokens)
      /\ \A u \in Threads : u = "main" \/ u = "services"
      /\ "main" \in Threads /\ "services" \in Threads
  BY DEF PInv, ProcessTypeOK, LoggerTypeOK, Threads
<1>3. /\ LogOpened /\ ~stream.open /\ part[t] = "none"
      /\ \A u \in Threads : u # t => handler[u] \in {"none", "close"}
  BY <1>1, <1>2 DEF ClosedAtEnd, OneCrash, MainAlone, LogOpened, PInv, BeforeLog
<1>4. Log = file
  BY <1>2, <1>3, ConcatEmptySeq DEF Log, PInv, ProcessTypeOK, LoggerTypeOK
<1>5. RecordedUpTo(t, file, 2 * logged[t] + 2)
  BY <1>1, <1>3, <1>4 DEF Recorded, NextTurn
<1>6. ASSUME NEW k \in LoggedBy(t) PROVE k \in LineParts(t) /\ Turn(k) < 2 * logged[t] + 2
  BY <1>2, <1>6 DEF LoggedBy, LineParts, Tokens, Parts, Turn, FirstLine
<1>7. ASSUME NEW i \in PlacesOf(t, file) PROVE file[i] \in LoggedBy(t)
  <2>1. file[i] \in Tokens /\ file[i].by = t /\ file[i].part # "report"
    BY <1>2, <1>7, LenProperties DEF PlacesOf
  <2>2. file[i].n >= FirstLine(t) /\ Turn(file[i]) < 2 * logged[t] + 2
    BY <1>5, <1>7 DEF RecordedUpTo
  <2>3. file[i].n \in FirstLine(t) .. logged[t]
    BY <1>2, <2>1, <2>2 DEF Tokens, Turn, FirstLine
  <2>4. QED BY <2>1, <2>3 DEF LoggedBy, Tokens, Parts
<1>8. QED BY <1>5, <1>6, <1>7 DEF RecordedUpTo

\* As long as no two threads race for the log and its file works: after an exit
\* it has every line of every thread; after a crash, those of the thread that
\* crashed.  Of what the other one logged nothing is said then: a line that it
\* logs when the handler has closed log_file is lost, also without a race.
THEOREM NothingLoggedIsLost == ProcessSpec => []LogComplete
<1>1. QED
  BY ProcessInvariance, LInvInit, LInvStep, CInvInit, CInvStep, RecordedIsComplete, PTL DEF ProcessSpec

-------------------------------------------------------------------------------
(***************************************************************************)
(* The refinement of Lifecycle: only a thread that main has joined, or     *)
(* none, is behind main past the join.                                     *)
(***************************************************************************)
ReturnedBesideMain ==
    servicesPc = "returned" => mainPc \in {"join", "destroy", "goodbye", "return", "done"}

LEMMA ReturnedBesideMainStep ==
  PInv /\ ReturnedBesideMain /\ [ProcessNext]_processVars => ReturnedBesideMain'
<1> SUFFICES ASSUME PInv, ReturnedBesideMain, [ProcessNext]_processVars PROVE ReturnedBesideMain'
  OBVIOUS
<1>1. CASE MainNext
  BY <1>1 DEF MainNext, SetExecutingDirectory, OpenLog, StartupMessage, ParseArguments, ArgumentsExit,
     SaveDirectoryMessage, StartThread, RunServerThrows, InvalidCommand, StopCommand, StopMessage,
     Join, DestroyNetData, Goodbye, ErrorMessage, Return, Exits, MainLogs, MainGoes, Main,
     ReturnedBesideMain
<1>2. CASE ServicesNext
  BY <1>2 DEF ServicesNext, HandlerLogs, ServicesReturn, ServicesAbort, ReturnedBesideMain
<1>3. CASE (\E t \in Threads : Insert(t) \/ Crash(t)) \/ Killed \/ UNCHANGED processVars
  BY <1>3 DEF Insert, Crash, Killed, processVars, ReturnedBesideMain
<1>4. QED BY <1>1, <1>2, <1>3 DEF ProcessNext

\* Nothing but an exit, a handler's end and a kill ends the process.
LEMMA CrashEndsUp ==
  ASSUME NEW t \in Threads, Crash(t)
  PROVE  UNCHANGED <<mainPc, servicesPc>>
         /\ (process' = process \/ (process = "up" /\ process' \in {"crashed", "killed"}))
BY DEF Crash, InsertFaults, Raise, SignalCrashHandler, HandlerClosesLog, HandlerOpensLog,
       HandlerWritesToNull, PrintStackTrace, HandlerExits, Handler

LEMMA MainLifecycleStep ==
  ASSUME PInv, ReturnedBesideMain, MainNext
  PROVE  Life!LifecycleNext \/ UNCHANGED Life!lifecycleVars
<1> USE DEF Life!lifecycleVars, MainStage
<1>1. CASE SetExecutingDirectory \/ OpenLog \/ StartupMessage \/ ParseArguments \/ SaveDirectoryMessage
           \/ RunServerThrows \/ ErrorMessage
  BY <1>1 DEF SetExecutingDirectory, OpenLog, StartupMessage, ParseArguments, SaveDirectoryMessage,
     RunServerThrows, ErrorMessage, MainLogs, MainGoes, Main, crashVars,
     PInv, ProcessTypeOK, ServicesBesideMain, ReturnedBesideMain
<1>2. CASE InvalidCommand \/ StopMessage \/ DestroyNetData \/ Goodbye
  BY <1>2 DEF InvalidCommand, StopMessage, DestroyNetData, Goodbye, MainLogs, MainGoes, Main, Raise,
     crashVars
<1>3. CASE ArgumentsExit \/ Return
  <2>1. process = "up" /\ process' = "exited" /\ mainPc \in {"arguments", "return"} /\ mainPc' = "done"
    BY <1>3 DEF ArgumentsExit, Return, Exits, Main, Idle, Runs
  <2>2. servicesPc # "run" /\ servicesPc' = servicesPc
    BY <1>3, <2>1 DEF ArgumentsExit, Return, Exits, PInv, ServicesBesideMain
  <2>3. Life!Exit
    BY <2>1, <2>2 DEF Life!Exit, Life!Ends
  <2>4. QED BY <2>3 DEF Life!LifecycleNext
<1>4. CASE StartThread
  <2>1. process = "up" /\ process' = process /\ mainPc = "thread" /\ mainPc' = "command" /\ servicesPc' = "run"
    BY <1>4 DEF StartThread, Main, Idle, Runs, crashVars
  <2>2. servicesPc = "none"
    BY <2>1 DEF PInv, ProcessTypeOK, ServicesBesideMain, ReturnedBesideMain
  <2>3. Life!Launch
    BY <2>1, <2>2 DEF Life!Launch, Life!Passes
  <2>4. QED BY <2>3 DEF Life!LifecycleNext
<1>5. CASE StopCommand
  <2>1. process = "up" /\ process' = process /\ mainPc = "command" /\ mainPc' = "stopping"
        /\ servicesPc' = servicesPc
    BY <1>5 DEF StopCommand, MainGoes, Main, Idle, Runs, crashVars
  <2>2. Life!Stop \/ servicesPc = "none"
    BY <2>1 DEF Life!Stop, Life!Passes
  <2>3. QED BY <2>1, <2>2 DEF Life!LifecycleNext
<1>6. CASE Join
  <2>1. process = "up" /\ process' = process /\ mainPc = "join" /\ mainPc' = "destroy"
        /\ servicesPc = "returned" /\ servicesPc' = "returned"
    BY <1>6 DEF Join, MainGoes, Main, Idle, Runs, crashVars
  <2>2. Life!Join
    BY <2>1 DEF Life!Join, Life!Passes
  <2>3. QED BY <2>2 DEF Life!LifecycleNext
<1>7. QED BY <1>1, <1>2, <1>3, <1>4, <1>5, <1>6 DEF MainNext

LEMMA ProcessLifecycleStep ==
  ASSUME PInv, ReturnedBesideMain, [ProcessNext]_processVars
  PROVE  [Life!LifecycleNext]_(Life!lifecycleVars)
<1>1. CASE MainNext
  BY <1>1, MainLifecycleStep
<1>2. CASE ServicesNext
  <2>1. CASE HandlerLogs \/ ServicesAbort
    BY <2>1 DEF HandlerLogs, ServicesAbort, Raise, crashVars, Life!lifecycleVars, MainStage
  <2>2. CASE ServicesReturn
    <3>1. process = "up" /\ process' = process /\ mainPc = "join" /\ mainPc' = mainPc
          /\ servicesPc = "run" /\ servicesPc' = "returned"
      BY <2>2 DEF ServicesReturn, Idle, Runs, crashVars
    <3>2. Life!ServicesReturn
      BY <3>1 DEF Life!ServicesReturn, Life!Passes, MainStage
    <3>3. QED BY <3>2 DEF Life!LifecycleNext
  <2>3. QED BY <1>2, <2>1, <2>2 DEF ServicesNext
<1>3. CASE (\E t \in Threads : Crash(t)) \/ Killed
  <2>1. UNCHANGED <<mainPc, servicesPc>>
        /\ (process' = process \/ (process = "up" /\ process' \in {"crashed", "killed"}))
    BY <1>3, CrashEndsUp DEF Killed
  <2>2. Life!Crash \/ UNCHANGED Life!lifecycleVars
    BY <2>1 DEF Life!Crash, Life!Ends, Life!lifecycleVars, MainStage
  <2>3. QED BY <2>2 DEF Life!LifecycleNext
<1>4. CASE (\E t \in Threads : Insert(t)) \/ UNCHANGED processVars
  BY <1>4 DEF Insert, crashVars, processVars, Life!lifecycleVars, MainStage
<1>5. QED BY <1>1, <1>2, <1>3, <1>4 DEF ProcessNext

\* Main and the services thread keep to the stages of Lifecycle, for any number
\* of lines, whatever races for the log, crashes or is killed.
THEOREM ProcessLifecycle == ProcessSpec => ImplementsLifecycle
<1>1. ProcessInit => ReturnedBesideMain /\ Life!LifecycleInit
  BY DEF ProcessInit, CrashInit, ReturnedBesideMain, Life!LifecycleInit, MainStage
<1>2. ProcessSpec => []ReturnedBesideMain
  BY <1>1, ReturnedBesideMainStep, ProcessInvariance, PTL DEF ProcessSpec
<1>3. PInv /\ ReturnedBesideMain /\ [ProcessNext]_processVars
        => [Life!LifecycleNext]_(Life!lifecycleVars)
  BY ProcessLifecycleStep
<1>4. QED BY <1>1, <1>2, <1>3, ProcessInvariance, PTL
          DEF ProcessSpec, ImplementsLifecycle, Life!LifecycleSpec
===============================================================================
