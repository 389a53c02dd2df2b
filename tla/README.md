# Hyperion-server in TLA+

Specifications of the Hyperion media server, the TLC runs that check them on
small instances and the TLAPS proofs that hold for every instance. Paths such as
`src/net/connection.cpp` are relative to the repository.

## The system

Hyperion accepts TCP clients, exchanges a greeting with each (one byte out, six
bytes in), and then writes whatever a client sends to a file of its own. Two
threads exist: main's, which reads commands, and the services thread, which runs
an asio `io_context`. All networking happens in handlers that the `io_context`
runs one at a time.

| Component | State | Operations | Where it can go wrong |
|---|---|---|---|
| Connection (`net/connection.*`) | status, socket, timer, buffer, EOF flag, reference count, out file | four asynchronous wrappers, `SetTimerExpiresAfter`, `SetStatus`, `End`, `BeginOutFiles`, `OpenOutFile` | the count is kept by hand in every wrapper; `End` may throw half way; a queued handler sees what others did since |
| Listener (`net/service/connection_listener.*`) | none of its own | `BeginAsyncReceive`, the receive callback | each callback must start the next receive or end the connection |
| Acceptor (`net/service/connection_acceptor.*`) | the TCP acceptor, the greeting | accept loop, greeting callbacks, two timeouts, `MakeConnectionAcceptor` | timeouts race the answers they wait for; exceptions in handlers |
| Collector (`net/service/connection_gc.*`) | a timer | `Start`, `Sweep` | destroys what it believes nobody refers to |
| Net data (`net/net_data.h`, `net/net_prop.h`) | `Connections`, `servicesExit`, configuration | `Add` | shared by both threads, outlives the services thread |
| Server (`hyperion.cpp`) | two threads, `io_context` | `RunServer`, `RunConnectionServices`, `HandleTerminalCommands` | stop at any moment of start-up or service |
| Greeting parser (`net/communication.*`, `media/media_prop.h`, `media/media_config.h`) | none | `ParseClientGreeting` | byte order, bounds, limits |
| Media files (`media/save.*`, `ConnectionBase`) | directories and files | `MakeSaveFile`, `BeginOutFiles`, `OpenOutFile` | errors in mid-stream, restarts that use a path again |
| Logger (`core/logger.*`) | one `std::ofstream`, its buffer and its file | `LogMessage`, `OpenLogFile`, `CloseLogFile` | two threads and a signal handler, no lock |
| Crash handler (`core/crash_handler.*`) | none | `SignalCrashHandler`, `PrintStackTrace` | runs in the middle of anything, takes the log over, may crash itself |
| Guarded data (`core/guarded_data.h`) | the data and its mutex | `GuardedAccess` locks, gives access, unlocks | an access outside the lock, a lock that is kept |
| Execution timer (`core/execution_timer.*`) | one map for all timers, a mutex and a start time per timer | constructor, `Stop`, destructor | the mutex does not guard what is shared; `Stop` may run twice; the server does not use it |
| File system, conversion and string helpers (`core/`) | the executing directory | `SetExecutingDirectory`, `ResolvePath`, `SafeCast`, `StrTrim`, `StrMatchLen` | boundaries |
| Scope guards, hashers (`core/`) | none | a function at the end of a scope | the order of destructors |
| Start-up and end (`main`) | none | log, crash handler, arguments, `RunServer`, return codes | what still runs when the log is closed |

How they interact: the acceptor's accept handler adds a `Connection` to
`Connections` and starts the greeting on it; the greeting's callback hands the
connection to the listener through `onConnectionAccepted`; all of these start
asynchronous operations whose handlers capture the connection by reference, and
the collector erases a connection when its reference count is zero. Every handler
and main's thread log through `LogMessage`. Main's thread
shares `servicesExit` and the `io_context` with the services thread, joins it, and
then destroys the connections that are left.

What makes each part correct:

* connection, acceptor, listener and collector together: no handler runs on a
  destroyed connection; the count is right; a timeout never hits a client that
  made its deadline; every handshake ends; what is over is collected; every
  assertion holds;
* server: stopping ends the process from any state, and nothing is torn down
  under the services thread;
* parser: it reads what the client wrote and accepts exactly what is configured;
* media files: what a client sent is in its own file, in order;
* logger and crash handler: the end of the process, orderly or by a crash, loses no
  line that was logged before it, and a crash report is the end of the log;
* guarded data and timer: no update is lost, every scope is left, what is measured is
  a timer's whole life, from its making to its destruction;
* the helpers: they do what their users rely on at every boundary.

The hazards, each at its line, are listed in `PROJECT.json`.

## Modules

| Module | Models |
|---|---|
| `Connection` | the object as a record, each method as an operator from the record before to the record after, and what this code sees of asio |
| `ConnectionListener` | the receive loop's callback |
| `ConnectionAcceptor` | the handshake's callbacks and timeouts, composed into the handlers the `io_context` runs; the predicates on one connection that the invariants quantify |
| `ConnectionServices` | the central state machine: accept loop, all handlers, collector, reactor and clients. `EXTENDS` the three above |
| `AsyncLifetime` | abstract: heap objects, queued handlers that point to them, a collector; no counts |
| `Server` | both threads around `ConnectionServices` |
| `Lifecycle` | abstract: the stages of main and the services thread, and when the process may end; no connections, no log |
| `Greeting` | the byte format, its parser, and one exchange as a state machine |
| `MediaFiles` | save directory and out files over several runs of the server |
| `Recorder` | abstract: each stream has a recording of what it heard; no paths, no clock, no runs |
| `Logger` | `log_file`: what is open, buffered and written, and a line in the making |
| `CrashHandler` | `SignalCrashHandler`, step by step, in each thread. `EXTENDS Logger` |
| `Process` | `main` from its first line to its last around both: who logs when, how the process ends. `EXTENDS CrashHandler` |
| `GuardedData` | a pair behind a mutex, and an update in three accesses |
| `ExecutionTimer` | scopes of several threads that are timed and access guarded data. `EXTENDS GuardedData` |
| `Conversions`, `StringHelpers`, `Paths` | pure functions: `LossyCast` and `SafeCast`; `StrTrim` and `StrMatchLen`; the executing directory, `ResolvePath` and the save path |
| `Helpers` | one call of each of them on every input, and the loop of `Sweep`, one iteration a step |
| `ConnectionProofs`, `ConnectionServicesProofs`, `ServerProofs`, `GreetingProofs`, `MediaFilesProofs`, `ProcessProofs`, `ExecutionTimerProofs`, `HelpersProofs` | theorems and proofs |
| `MCServices`, `MCServer`, `MCGreeting`, `MCMedia`, `MCProcess`, `MCTimer`, `MCHelpers` | the instances TLC checks |

### State and actions against the code

`ConnectionServices` holds one record per connection. Its fields are the members
of `Connection` that control depends on: `status` (`status_`), `socket`
(open or closed), `receivedEof` (`receivedEof_`), `refCount` (`refCount_`),
`outFilePath` (is `outFilePath_` set) and, for each of the five operations a
connection can have outstanding, what the `io_context` knows of it (`op`): idle,
pending, or completed with a result and the handler queued. `connections` is the
vector, `accepting` and `sweepTimer` are the two operations of the services,
`io` tells whether `io_context.run()` runs. `peer` and `unread` are the client's
end as this host knows it.

| Action | Code |
|---|---|
| `AcceptClient`, `AcceptFails`, `AcceptThrows` | the handler in `DoAsyncAccept`, with `HandleAccept`, with an error code, with a constructor that throws |
| `HandleWrite`, `HandleRead`, `HandleReceive`, `HandleSendWait`, `HandleReceiveWait` | the wrapper's handler in `connection.cpp` around the callback given to it in `connection_acceptor.cpp` or `connection_listener.cpp`, to its end |
| `Sweep` | the timer handler in `SetupSweepTimer`, with `Sweep` |
| `WriteCompletes`, `InputCompletes`, `TimerExpires` | asio: an operation completes, its handler is queued |
| `ClientSends`, `ClientCloses`, `ClientResets` | clients |

A completion and its handler are separate actions. That is where the interleaving
is: asio fixes the result, then other handlers run, then this one. Cancelling
(`expires_after`, `close`) touches only what has not completed.

`Server` adds a program counter per thread. Main's thread: `HandleTerminalCommands`
(a typed `stop`), `StopContext`, `JoinServices`, `DestroyNetData` (`~NetData`, or the
abort of its assertion), `Goodbye` (back in `main`, to the end of the process). Services
thread: `CheckServicesExit` and `MakeAcceptor` (the loop of
`MakeConnectionAcceptor`), `StartServices`, then `run()`: `TakeNext` looks whether the
`io_context` was `stopped` and goes on to a handler or to the reactor (`handling`),
`RunServices` is that handler (any above) or completion, `ReactorWoken` a reactor that
`stop` wakes with nothing to report; then `ServicesReturn` or `ServicesTerminate`. So main's
thread can stop and go on to its join while a handler runs, and a handler beside the teardown
would be seen. `build` tells whether assertions are compiled in.

`MediaFiles` has one action per operation on a file: `BeginOutFiles`,
`ReceiveCallback` (open, write, close), `Disconnects`, and the environment:
`StartServer`, `ServerEnds`, `SecondPasses`, `MediaIsRemoved`. A connection has its id
since it was accepted, so out files begin in any order of ids, and some ids have none.

`Process` runs main's thread (`mainPc`) and the services thread (`servicesPc`), of
which it knows only that it may log, return after `io_context::stop` or raise a
signal; what else it does is `ConnectionServices`' and `Server`'s subject. Logging a
line is `LogMessage`, then twice `InsertBegins` and `InsertEnds`, for its text and its
newline, and the thread does nothing else until they are over. A thread that uses
`log_file` while another is between a begin and an end races with it. That is
undefined behaviour, and the model gives it the outcomes the stream's implementation
has: the insertion is kept, is lost, or faults (`InsertFaults`). What is
buffered reaches the file when the buffer is full (any `InsertEnds`) or the file is closed.

| Action | Code |
|---|---|
| `SetExecutingDirectory`, `OpenLog`, `StartupMessage`, `ParseArguments`, `ArgumentsExit` | `main` to the end of `cmd.parse`; TCLAP exits by itself after `--help`, `--version` and a wrong argument |
| `SaveDirectoryMessage`, `StartThread`, `InvalidCommand`, `StopCommand`, `StopMessage`, `Join`, `DestroyNetData`, `RunServerThrows` | `RunServer` |
| `Goodbye`, `ErrorMessage`, `Return` | the rest of `main`, and `log_guard` |
| `HandlerLogs`, `ServicesReturn`, `ServicesAbort` | a handler logs; `run()` returns; an assertion or exception |
| `HandlerClosesLog`, `HandlerOpensLog` or `HandlerWritesToNull`, `PrintStackTrace`, `HandlerExits` | `SignalCrashHandler` in the thread that raised the signal |
| `Killed` | SIGINT, SIGTERM, SIGKILL: no handler |

While a handler runs its own signal is blocked and raising it again kills the
process; another signal starts the handler anew. So a null `FILE*` after SIGABRT is reported
as SIGSEGV first (and faults again).

`ExecutionTimer` gives each thread scopes that declare a timer and an access, in either
order: destructors run in the other one. `Update` is the body, `StopEarly` a call of
`Stop` in it, `StopInDestructor` the destructor's. `Stop` computes the time
(`BeginStop`), locks a mutex that no other timer has and starts to write the map
(`StopWrites`), and is done (`StopReturns`); two threads between the last two race,
after which an entry may be lost. `lifetime` is a history variable: the clock at the
destruction of a thread's last timer less the clock at its making, whatever `Stop` did.
`TimePasses` shows any other time within the bound, also an earlier one.

`Helpers` has one action per function, which picks any input within the bounds and
keeps it with the result for the invariants to look at. `SetExecutingDirectory` is the
one with a state, and is called again on its own result as a test does. The loop of `Sweep`
is `CallSweep` and then one `SweepIteration` for each place the iterator takes;
`ConnectionServices` uses the set it amounts to.

Definitions marked "slip" are mistakes one could make in the definition that
follows them. They are used by no specification; each is put in place of the
definition it stands before to see that a property notices.

## Runs

| Run | Instance | Shows |
|---|---|---|
| `services` | 2 clients, 1 unread message each, all faults | `NoDanglingHandler`, `RefCountExact`, `OperationsMatchStatus`, `HandlerPreconditions`, `NoStalledConnection`, `StatusOnlyAdvances`, `ClosedOnlyForCause`; `ImplementsLifetime`: the refinement of `AsyncLifetime` |
| `services_live` | 1 client that may send 3 messages ahead | `AcceptsUntilStopped`, `HandshakeResolved`, `GreetedConnectionReclaimed` |
| `server` | 1 client, both builds, all faults | `HandlersRunOnLive`, `StopEndsProcess`; `ImplementsLifecycle`: the refinement of `Lifecycle` from the launch on |
| `greeting` | 9 sizes, 5 rates, 4 type bytes, 3 configurations | `ParsedAsMeant` |
| `media` | 2 runs, 2 seconds, 2 connections each, 3 pieces in all, a file system that works or one with all faults | `FileOfOneStream`; `EverythingSaved` when it works; `ImplementsRecorder`: the refinement of `Recorder` |
| `process` | 1 message of the handlers, 1 invalid command and all of main's lines; a log that works, or one that may not open or reopen | `LogComplete`, `ReportsLast`, `LinesWholeWhenAlone`, `LogOnlyGrows`, `ClosedUnderWriterOnlyByCrash`, `CrashEnds`; `ImplementsLifecycle`: the refinement of `Lifecycle` |
| `timer` | 2 threads, 2 items, two scopes of one thread and one of the other, a clock that may be set back | `GuardedUpdatesKept`, `MapRaceOnlyOutsideGuard`, `WholeScopeMeasured`, `ScopesEnd` |
| `helpers` | strings of up to 4 of 3 characters, types of up to 16 values, sweeps of up to 4 | `ResolvedBesideExecutable`, `SavedBelowOutputPath`, `TrimsBothEnds`, `PaddingTrimsAway`, `CastsWhatFits`, `SweepsAllThatCanDestruct` |

The remaining runs check, each, a sentence of the documentation or an assertion
that the code does not keep, and end in a counterexample:

| Run | The code says | What happens |
|---|---|---|
| `ended_not_reclaimed` | Sweep "removes old and no longer active connections" | the write handler returns on an error without giving its reference up (`connection.cpp:118`): that connection is never swept |
| `accept_stops` | the acceptor "accepts connections until io_context stops" | `remote_endpoint()` throws for a client that is gone already, and the exception leaves `run()` |
| `stop_aborts` | `assert(CanDestruct())`; to stop, type `stop` | with a client connected its handlers are still counted when `~NetData` destroys it |
| `stop_while_starting` | `assert(conn_acceptor.has_value())` | there is none when `stop` is typed while the port is taken |

Other differences between the code and what it says are in the models without a run
of their own:

* `shutdown` throws after a reset and `End` never reaches `close`
  (`connection.cpp:92`), where `connection.h:105` says it "calls terminate and close";
  `NoStalledConnection` and `GreetedConnectionReclaimed` hold all the same.
* A greeting read just before the timeout is accepted after `End`, after which a
  connection "may not be used" (`connection.h:106`). It is ended again by its receive.
* The timer between two attempts to make the acceptor (`connection_acceptor.cpp:187`)
  is not waited for, where `net_prop.h:30` says "amount of time to wait before retrying".
* `filesystem.h:14` says that `ResolvePath` replaces a leading `~` and else does nothing; it
  always prepends the executing directory and a slash. When the program was started by a
  name without a slash that directory is empty, and `log.txt` is looked for in the root.
* `CRASH_LOG_MESSAGE` "logs message to stderr and file", but when the file cannot be
  opened it crashes before it reaches stderr.
* `execution_timer.h:20` offers `stop()` "to stop early" and says that the timer "stops upon
  being destroyed or stop called". An early `Stop` stops nothing: the destructor calls it
  again and enters the time from the timer's making to its destruction in place of the
  earlier one. `WholeScopeMeasured` says so of the code; were an early `Stop` final, as the
  header has it, the property would not hold (that is its mutant). The macro for the call
  names a member that does not exist.
* The default protocol is ipv6, in `doc/networking.md:10` ipv4.

And one loss: an existing out file that
cannot be opened for appending is made anew by `OpenOutFile`'s fallback, and so
emptied (`OpenOutFile` with the fault "open"). `EverythingSaved` shows that nothing is
lost without such a fault.

### Bounds

* `MaxConnections`: handlers of different connections share only the vector, the
  ids and the thread. Two connections show every pair of them; one is enough
  where the question is about one connection or about the threads. Ids are never
  used twice, so the bound is also the number of clients in a behaviour. The proofs
  have no bound.
* `MaxUnread`: what a client sent and nobody read. One message tells "data" from
  "no data", three let a client send its greeting and data behind it before it is
  greeted.
* `Faults`, `FileFaults`: the failures that are allowed; a run that asks about
  liveness leaves out those that make the property false (they have their own runs).
* Greeting values are the ends of each byte, the neighbours of 256 where the two
  bytes of a dimension meet, and the values the tests use. The theorem covers all.
* `MaxRuns`, `MaxSecond`: two runs, in the same second or not.
* `MaxPieces`, a constraint of `MCMedia`: three pieces are one stream's first, middle and last,
  or two of a stream and one that another receives in between or on the same path.
  The proofs do without it.
* `MaxLines`: the invalid commands and the handlers' lines. One of each already meets
  the other, the stop, the join and a crash in every order; a second one adds
  states and no new neighbour. The proofs have no bound on it.
* `MaxScopes`, a bound per thread: a second scope makes an item be measured twice, beside
  one scope of the other thread of the same or another item.
* `MaxTime`: two readings of the clock tell a whole scope from a part of it, and jumps
  between them in both directions give times below, at and above zero.
* `MaxLength`, `MaxHalf`, `MaxSwept`: the loops look at one element and its neighbour;
  four leave room for trimmed ends, a kept middle and one more. Integer types of up to 16
  values include each relation of width and sign; the theorem covers all.
* Deadlock is checked in the runs of `MCServices` without the fault `early_reset`.
  Elsewhere the system may stop: when an
  exception leaves `run()`, when the process ends, when a greeting is parsed, when
  the bounds of `MediaFiles` are reached; when all scopes are over, and after the one call of a behaviour of
  `Helpers`.

### Fairness

`Fairness` in `ConnectionServices` is weak fairness of each handler, of each kind
of completion, of the timers and of the sweep: `io_context.run()` runs every queued
handler, the reactor reports a socket that is ready, timers expire. No client need
act or connect. `ServerFairness` is weak fairness of each thread's steps, without
`HandleTerminalCommands` (nobody need type `stop`): a thread that can run does. Once
stopped, a handler that runs comes to its end because handlers never block, a reactor that
waits is woken by `stop` (`ReactorWoken`), and `run()` returns. An end of the process that
is undefined (the empty acceptor without assertions, `stop_while_starting`) is an end for
`StopEndsProcess`. In `FairProcessSpec`
a thread inside `LogMessage` or a signal handler is scheduled; nothing obliges a thread
to log, to crash or to stop. In `FairTimerSpec` a thread inside a scope is. Weak fairness is enough for `ScopesEnd`
only because a thread has a bounded number of scopes: a `std::mutex` is not fair, and of
unboundedly many scopes one thread's could always come first.

## Proofs

`ConnectionServicesProofs` proves, from `ServicesAssumption` alone and so for any
number of clients, `Spec => []IInv` and from it each invariant of the run
`services`, both action properties, and the refinement of `AsyncLifetime`.

Why an inductive invariant: `NoDanglingHandler` is what matters (no use after
free), and it is kept because the collector looks at the count. So the count must be
right (`RefCountExact`). The count is right only if no operation is started while
an earlier one of its kind is outstanding, which is known from the status
(`OperationsMatchStatus`): at most one write, then one read, then one receive.
That the write's lost reference is counted once needs the status too.
`HandlerPreconditions` ties the out file to the receive loop, and
`NoStalledConnection` needs that the timeout of a stage is not cancelled. The last
conjunct says that ids not yet given out are unused. TLC checks every named conjunct in
`services`, and the theorem confirms that together they are inductive.

The argument has two levels. `ConnectionProofs` is about one connection:
`ConnectionOK` collects what the invariants say of it, and one lemma per
handler shows that it takes an OK connection to an OK connection and what it does to
the outstanding operations (`HandlerStep`). The wrappers' common shape (start,
cancel, end, give up a reference) is in the `...Effect` lemmas.
`ConnectionServicesProofs` lifts these to the vector, one lemma per action, and
closes with `PTL`. For the refinement a handler maps to `Run`, an accept to `Make`, a
constructor that throws to `Waste`, a sweep to `Collect`; everything else stutters.
`AcceptLoopGoesOn` proves that the two named faults are the only ways to end the accept
loop; with the first of them it does end (`accept_stops`).

`GreetingProofs` shows that parsing inverts writing for all 2^48 greetings, every
configuration and any trailing data (`ParseInvertsFormat`), and so the invariant.

`ServerProofs` reuses the step lemmas of `ConnectionServicesProofs`: the invariant
`SInv` adds to `IInv` what the program counters say of each other. `IInv` is kept until `~NetData`, which destroys connections with handlers queued and so
breaks it on purpose. The services thread has returned before main's passes the join
(`Joined`), with no handler under way (`handling`), so from `DestroyNetData` to the end no
handler runs; before it `NoDanglingHandler` holds of the one that does, also of the handler
that main's `stop` found running. Together that is `HandlersRunOnLive`.
`DestroyedAfterServices` is only proved: what a run could show of it `ImplementsLifecycle`
shows already.

`Server` and `Process` show one `main` from two sides: the first with connections and
without a log, the second the other way round. That they agree on who waits for whom is
that both implement `Lifecycle`, proved in `ServerProofs` and `ProcessProofs`. `Process`
lets the services thread return only when main is at its join; `Server` shows why: `run()`
returns when the `io_context` was `stopped`, and only main stops it (`StoppedByMain`). In
`Process` the stage is known from both counters, for which `ReturnedBesideMain` says that a
thread that has returned is behind a main that is at its join or past it.

`MediaFilesProofs` proves all invariants of `media`. A path can be used once per run, so the
invariant `MInv` says whose a file is: one stream that has begun, and the receiving one
if the path is its own (`FilesOwned`, `OwnFile`); `StreamsBegin` says that streams
which have begun are of this run or an earlier one, in any order of ids. Under it `EverythingSaved` is inductive by itself: what is alone in
its second stays the owner of its path (`OwnPath`).

The same module proves that `MediaFiles` implements `Recorder`, where a stream's recording
is what of it is at its path, none if another stream's file is there. `BeginOutFiles`
maps to `Begin`, with the loss of an ended stream's recording when it takes its path over;
the receive callback to `Hear`, the ends of the server, of a run and of a connection to `End`,
the removal of media to `Lose`; the rest stutters. What `MInv` adds is that a file has one
owner: the step that begins one recording replaces at most one other, whose stream is over,
and a piece that is saved changes no other stream's recording.

`ProcessProofs` is about the log, for any number of lines. `PInv` says that a report
is written only by a thread whose handler has closed `log_file`, and that `log_file` is
never opened again, so nothing follows a report (`ReportsLast`); and which thread can
be inside an insertion at which line of `main`, so that only the handler closes the log
under a writer (`ClosedUnderWriterOnlyByCrash`). `LInv` adds what makes main's lines whole
where it logs alone (`LinesWholeWhenAlone`): such a text ends the log only while its newline
is what `main` inserts next and neither a thread nor a handler can come in between
(`PendsAlone`), and every step either leaves the log or appends one part (`LogMoves`).

`CInv` is for `LogComplete`. It says, as long as nothing raced, that the lines of a thread in
`file \o buffer` are those before the thread's next turn, in their order; what `Turn`
counts is fixed by the thread's place in `main` or in a handler. What is buffered is not
lost, because the log is open while anyone logs and is closed, which flushes it, on the
way to every end: by main's guard when it returns, by the one handler that runs otherwise.
After a crash that is said of the crashed thread's lines only: the handler closes the log,
and what the other thread logs from then on is lost, without any race.

`ExecutionTimerProofs` holds for any number of threads, items and scopes and any settings of
the clock. `TInv` ties
the mutex to the places of a scope between `EnterAccess` and `LeaveAccess`, and the
pair to how far its holder's update is. From it follow mutual exclusion, that no
update is lost, and that of two timers that race one stops outside the guard. For
`WholeScopeMeasured` it says how `startTime_`, `lifetime` and the clock are related while a
timer exists (`TimerExists`), and that what the destructor's `Stop` has taken is the
timer's `lifetime` (`TimeTaken`), whatever an early call took before.

`HelpersProofs` proves every invariant of the run `helpers`, for strings and paths of any
length, every pair of integer types and sweeps over any number of connections. The
searches for a slash and for the ends of a trimmed string stop at a least or greatest
index, which exists because < on the naturals is well founded; the rest is arithmetic of
indices. `SafeCast` is the arithmetic of a wrap there and back. For the sweep `SweptSoFar`
is the loop's invariant: the elements before the iterator are those that may not be
destroyed, those from it on are as they were, none is lost or visited twice.

Only model-checked: liveness, for which TLAPS has no rules here: `HandshakeResolved`,
`GreetedConnectionReclaimed`, `StopEndsProcess`, `CrashEnds` and `ScopesEnd`. Every other
property of a passing run is stated by a theorem.

## What is abstracted

* Bytes: a message is a count, a piece of media a token. A greeting parses or
  not in `ConnectionServices`; which one does is `Greeting`'s subject. The buffer is
  never committed to, so its size is always zero and its assertions hold by that.
* Time: a timer may expire whenever it is set; the durations of `net_prop.h` order
  nothing. `ExecutionTimer`'s `high_resolution_clock` is not steady (in libstdc++ it is the
  system clock): it may be set back within a scope, and the time measured then be negative.
* Allocation failure: `std::bad_alloc` is not modelled, and so neither are the
  `catch` in `CallbackSentGreeting` and the one in `ExecutionTimer::Stop`, which would leave
  no entry. A first `async_accept` that throws is one of the faults (`accept_setup`).
* `volatile bool servicesExit` is read and written atomically: it is one byte on every
  target. By the language the accesses are a data race all the same; nothing is shown of it.
* The races for `log_file` and for the timers' map are in the code, and no property excludes
  them. Their outcomes are in the models; the properties say what holds whatever the outcome,
  or until a race has happened.
* `get_byte() << 8 | get_byte()` leaves the order of its operands to the compiler; the
  model fetches the left one first, as the supported compilers do and the tests expect.
* A piece is written or not; a part of it is not modelled. One `-o` option is used
  for all runs.
* A line of the log is its text and its newline; what `snprintf` makes of it and what
  goes to the console (a stream with a lock of its own) are left out. Whether opening
  may fail is fixed for a behaviour; a full disk is not modelled.
* Two crash handlers that close `log_file` at once close it one after the other. That
  backtraces and `fprintf` are not async-signal-safe, so that a handler may deadlock on
  the allocator's lock, is left out: none of the modelled causes is inside the allocator.
* After `exit` from the handler the other thread may still run while static objects
  are destroyed; the process ends in one step here.
* An integer type is its range. Casts to `double` are not modelled. A trim loop is the
  index it stops at.
* Outside `Process` an invalid command only logs, so it is no step. At the end of standard input the
  command loop spins; the model lets main's thread wait.

## Not modelled

* The server greeting is one constant byte. `StrToLower` and `StrToUpper` map a C function
  over a string. `ReadFile` reads a file. The hashers have no user.
* The options of the command line beyond the paths made from them; TCLAP.
* The Windows branches: the exception filter takes the same steps as the signal handler,
  backslashes become slashes before anything else looks at a path.
* Build, CI and the tests themselves.

## Plan

Done: the modules above, in the order `Connection`, `ConnectionListener`,
`ConnectionAcceptor`, `ConnectionServices`, `AsyncLifetime`, `Server`, `Lifecycle`, `Greeting`,
`MediaFiles`, `Recorder`; `Logger`, `CrashHandler`, `Process`; `GuardedData`, `ExecutionTimer`;
`Conversions`, `StringHelpers`, `Paths`, `Helpers`; and the proofs.

What could follow is the liveness of the last five properties by a proof, should the
prover gain rules for it.
