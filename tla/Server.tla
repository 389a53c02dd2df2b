--------------------------------- MODULE Server ---------------------------------
(***************************************************************************)
(* The life of the process (src/src/hyperion.cpp): main's thread reads     *)
(* commands, starts and joins the services thread and tears everything     *)
(* down; the services thread makes the acceptor, starts the services and   *)
(* runs the io_context, whose handlers are those of ConnectionServices.    *)
(* The threads share servicesExit, the io_context and the connections.     *)
(***************************************************************************)
EXTENDS ConnectionServices

VARIABLES
    build,          \* "debug": assertions abort; "release": they are not there
    process,        \* is the process up, and if not how did it end?
    mainPc,         \* where RunServer is
    servicesPc,     \* where RunConnectionServices is
    servicesExit,   \* NetData::servicesExit
    stopped,        \* was the io_context told to stop?
    handling        \* has run(), not told yet, gone on to its next handler?

threadVars == <<process, mainPc, servicesPc, servicesExit, stopped>>
serverVars == <<build, threadVars, handling, vars>>

ServerTypeOK ==
    /\ TypeOK
    /\ build \in {"debug", "release"}
    /\ process \in {"up", "exited", "aborted", "undefined"}
    /\ mainPc \in {"command", "stop", "join", "destroy", "goodbye", "done"}
    /\ servicesPc \in {"check", "try", "start", "run", "returned"}
    /\ servicesExit \in BOOLEAN /\ stopped \in BOOLEAN /\ handling \in BOOLEAN

\* NetData made and the services thread just created.
ServerInit ==
    /\ build \in {"debug", "release"}
    /\ process = "up" /\ mainPc = "command" /\ servicesPc = "check"
    /\ servicesExit = FALSE /\ stopped = FALSE /\ handling = FALSE
    /\ nextConnectionId = 1
    /\ conn = [c \in Ids |-> NewConnection] /\ connections = {}
    /\ accepting = FALSE /\ sweepTimer = FALSE /\ io = "running"
    /\ peer = [c \in Ids |-> "up"] /\ unread = [c \in Ids |-> 0]

-------------------------------------------------------------------------------
(***************************************************************************)
(* main's thread.                                                          *)
(***************************************************************************)
Main(at, next) == process = "up" /\ mainPc = at /\ mainPc' = next

\* Any other line than "stop" is logged as invalid and the loop goes round.
HandleTerminalCommands ==
    /\ Main("command", "stop")
    /\ servicesExit' = TRUE
    /\ UNCHANGED <<build, process, servicesPc, stopped, handling, vars>>

\* Slip: main goes on to join without having stopped the context.
StopContextForgotten ==
    /\ Main("stop", "join")
    /\ UNCHANGED <<build, process, servicesPc, servicesExit, stopped, handling, vars>>

\* io_context.stop() also makes a run() that has yet to begin return at once;
\* a handler that is running runs to its end.
StopContext ==
    /\ Main("stop", "join")
    /\ stopped' = TRUE
    /\ UNCHANGED <<build, process, servicesPc, servicesExit, handling, vars>>

JoinServicesDetached ==     \* slip: the thread is left to itself
    /\ Main("join", "destroy")
    /\ UNCHANGED <<build, process, servicesPc, servicesExit, stopped, handling, vars>>

JoinServices ==
    /\ Main("join", "destroy")
    /\ servicesPc = "returned"
    /\ UNCHANGED <<build, process, servicesPc, servicesExit, stopped, handling, vars>>

\* ~NetData destroys what connections are left; ~Connection asserts that
\* nothing refers to them.  ~io_context then only drops what is queued.
DestroyNetData ==
    /\ process = "up" /\ mainPc = "destroy"
    /\ IF build = "debug" /\ \E c \in connections : ~CanDestruct(conn[c])
       THEN process' = "aborted" /\ UNCHANGED <<mainPc, conn, connections>>
       ELSE /\ mainPc' = "goodbye"
            /\ connections' = {}
            /\ conn' = [c \in Ids |-> IF c \in connections THEN Destruct(conn[c]) ELSE conn[c]]
            /\ UNCHANGED process
    /\ UNCHANGED <<build, servicesPc, servicesExit, stopped, handling>>
    /\ UNCHANGED <<nextConnectionId, accepting, sweepTimer, io, peer, unread>>

\* Back in main, which logs its last line and returns.
Goodbye ==
    /\ Main("goodbye", "done")
    /\ process' = "exited"
    /\ UNCHANGED <<build, servicesPc, servicesExit, stopped, handling, vars>>

-------------------------------------------------------------------------------
(***************************************************************************)
(* The services thread.                                                    *)
(***************************************************************************)
Services(at) == process = "up" /\ servicesPc = at

\* MakeConnectionAcceptor's loop condition.  Once the server is to stop there
\* is no acceptor, and RunConnectionServices asserts that there is one.
CheckServicesExit ==
    /\ Services("check")
    /\ IF servicesExit
       THEN /\ process' = (IF build = "debug" THEN "aborted" ELSE "undefined")
            /\ UNCHANGED servicesPc
       ELSE servicesPc' = "try" /\ UNCHANGED process
    /\ UNCHANGED <<build, mainPc, servicesExit, stopped, handling, vars>>

\* The port may be taken: that is logged, a timer is made but not waited for,
\* and the loop goes round at once.
MakeAcceptor ==
    /\ Services("try")
    /\ servicesPc' \in {"start", "check"}
    /\ UNCHANGED <<build, process, mainPc, servicesExit, stopped, handling, vars>>

\* Also the first async_accept may throw.
StartServices ==
    /\ Services("start")
    /\ servicesPc' = "run"
    /\ DoAsyncAccept /\ sweepTimer' = TRUE
    /\ UNCHANGED <<build, process, mainPc, servicesExit, stopped, handling>>
    /\ UNCHANGED <<nextConnectionId, conn, connections, io, peer, unread>>

\* run() was not told to stop and goes on: to a handler, or to the reactor to
\* wait for one.  Being told after that does not hold it back.
TakeNext ==
    /\ Services("run") /\ io = "running"
    /\ ~stopped /\ ~handling
    /\ handling' = TRUE
    /\ UNCHANGED <<build, threadVars, vars>>

RunServices ==
    /\ Services("run")
    /\ handling /\ handling' = FALSE
    /\ \/ AcceptClient \/ AcceptFails \/ AcceptThrows \/ Sweep
       \/ \E c \in Ids : Handle(c) \/ Reactor(c)
    /\ UNCHANGED <<build, threadVars>>

\* stop() wakes a reactor that has nothing to report.
ReactorWoken ==
    /\ Services("run")
    /\ handling /\ stopped
    /\ handling' = FALSE
    /\ UNCHANGED <<build, threadVars, vars>>

\* An exception that leaves the thread's function terminates the process.
ServicesTerminate ==
    /\ Services("run") /\ io = "terminated"
    /\ process' = "aborted"
    /\ UNCHANGED <<build, mainPc, servicesPc, servicesExit, stopped, handling, vars>>

\* run() returns; acceptor and collector are destroyed with their operations.
ServicesReturn ==
    /\ Services("run") /\ io = "running"
    /\ stopped /\ ~handling
    /\ servicesPc' = "returned" /\ io' = "stopped"
    /\ accepting' = FALSE /\ sweepTimer' = FALSE
    /\ UNCHANGED <<build, process, mainPc, servicesExit, stopped, handling>>
    /\ UNCHANGED <<nextConnectionId, conn, connections, peer, unread>>

-------------------------------------------------------------------------------
\* Clients act while the process is up.
ClientActs ==
    /\ process = "up"
    /\ \E c \in Ids : Client(c)
    /\ UNCHANGED <<build, threadVars, handling>>

MainNext ==
    HandleTerminalCommands \/ StopContext \/ JoinServices \/ DestroyNetData \/ Goodbye

ServicesNext ==
    \/ CheckServicesExit \/ MakeAcceptor \/ StartServices
    \/ TakeNext \/ RunServices \/ ReactorWoken
    \/ ServicesTerminate \/ ServicesReturn

ServerNext == MainNext \/ ServicesNext \/ ClientActs

(***************************************************************************)
(* Both threads are scheduled: a handler comes to its end, stop() wakes a  *)
(* reactor that waits, and run() then returns.  Nobody need ever type      *)
(* "stop", and the port need never become free.                            *)
(***************************************************************************)
ServerFairness ==
    /\ WF_serverVars(StopContext) /\ WF_serverVars(JoinServices)
    /\ WF_serverVars(DestroyNetData) /\ WF_serverVars(Goodbye)
    /\ WF_serverVars(CheckServicesExit) /\ WF_serverVars(MakeAcceptor)
    /\ WF_serverVars(StartServices) /\ WF_serverVars(ReactorWoken)
    /\ WF_serverVars(ServicesTerminate) /\ WF_serverVars(ServicesReturn)

ServerSpec     == ServerInit /\ [][ServerNext]_serverVars
FairServerSpec == ServerSpec /\ ServerFairness

-------------------------------------------------------------------------------
\* NetData "requires io_context to destruct", and its connections are the
\* services thread's: they are only taken from it after it has returned, by
\* when no accept or sweep can reach them.
DestroyedAfterServices ==
    process = "exited" => servicesPc = "returned" /\ ~accepting /\ ~sweepTimer

\* A handler that run() has gone on to when main's thread stops the server
\* still finds its connection: ~NetData, which destroys connections with their
\* handlers queued, never comes before that handler's end, and none runs after.
HandlersRunOnLive ==
    [][\A c \in Ids :
            (\E o \in Ops : conn[c].op[o] \in Results /\ conn'[c].op[o] \in {"idle", "pending"})
                => process = "up" /\ c \in connections]_serverVars

\* Stopping always ends the process, whatever the services thread is doing:
\* main never waits in join for a thread that does not return.  One of the ends
\* is that of an empty acceptor without assertions: see AcceptorHasValue.
StopEndsProcess == servicesExit ~> process # "up"

-------------------------------------------------------------------------------
(***************************************************************************)
(* The refinement of Lifecycle, from where the services thread is started. *)
(***************************************************************************)
MainStage ==
    IF mainPc = "command" THEN "serving"
    ELSE IF mainPc \in {"stop", "join"} THEN "stopping" ELSE "tearing"

Life == INSTANCE Lifecycle WITH
            main     <- MainStage,
            services <- IF servicesPc = "returned" THEN "returned" ELSE "running",
            end      <- IF process \in {"up", "exited"} THEN process ELSE "crashed"

\* Whatever the handlers and the acceptor's attempts do: the services thread
\* comes back only once main is stopping, main tears down only after it is
\* back, and the process ends in order only by that.
ImplementsLifecycle == Life!LaunchedSpec

-------------------------------------------------------------------------------
(***************************************************************************)
(* What the documentation and the assertions promise and the code does     *)
(* not keep.                                                               *)
(***************************************************************************)

\* assert(CanDestruct()) in ~Connection: "To stop hyperion, type stop".
StopDoesNotAbort == ~(mainPc = "destroy" /\ process = "aborted")

\* assert(conn_acceptor.has_value()) in RunConnectionServices.
AcceptorHasValue == ~(servicesPc = "check" /\ process \in {"aborted", "undefined"})
===============================================================================
