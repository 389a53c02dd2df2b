-------------------------- MODULE ConnectionServices --------------------------
(***************************************************************************)
(* The connection services of the server on their one thread: the accept   *)
(* loop, the handlers of every connection and the collector, all run by    *)
(* io_context.run() (src/src/hyperion.cpp:21), over the Connections vector *)
(* (src/include/net/net_data.h).  The rest is environment: the clients,    *)
(* and asio's reactor, which completes operations and expires timers.      *)
(*                                                                         *)
(* Handlers run one at a time to their end, so each is one action.  The    *)
(* interleaving is in what happens between them: a result is fixed when an *)
(* operation completes, its handler runs later, and handlers queued at the *)
(* same time may run in any order.                                         *)
(***************************************************************************)
EXTENDS ConnectionAcceptor

CONSTANTS
    MaxConnections,   \* bound on the clients accepted in a behaviour
    MaxUnread,        \* bound on what a client has sent and no read has taken
    Faults            \* what the environment may do wrong

FaultKinds == { "accept",         \* async_accept completes with an error
                "accept_setup",   \* async_accept throws
                "early_reset",    \* a client resets before it is accepted
                "out_file" }      \* the out file cannot be made

ASSUME ServicesAssumption ==
    /\ MaxConnections \in Nat
    /\ MaxUnread \in Nat
    /\ Faults \subseteq FaultKinds

\* ConnectionBase::id, handed out in order from 1.
Ids == 1 .. MaxConnections

VARIABLES
    nextConnectionId,   \* ConnectionBase::nextConnectionId_
    conn,               \* the state of each Connection, by id
    connections,        \* the ids in Connections::connections_
    accepting,          \* is an async_accept outstanding?
    sweepTimer,         \* is a wait of the collector's timer outstanding?
    io,                 \* is io_context.run() running, stopped, or was it left by an exception?
    peer,               \* what this host knows of each client's end
    unread              \* messages of each client that wait in its socket

vars == <<nextConnectionId, conn, connections, accepting, sweepTimer, io, peer, unread>>

TypeOK ==
    /\ nextConnectionId \in 1 .. MaxConnections + 1
    /\ conn \in [Ids -> ConnectionState]
    /\ connections \subseteq Ids
    /\ accepting \in BOOLEAN
    /\ sweepTimer \in BOOLEAN
    /\ io \in {"running", "stopped", "terminated"}
    /\ peer \in [Ids -> PeerStates]
    /\ unread \in [Ids -> 0 .. MaxUnread]

\* Both services started, nothing run yet.  Also the first async_accept may
\* have thrown.
Init ==
    /\ nextConnectionId = 1
    /\ conn = [c \in Ids |-> NewConnection]
    /\ connections = {}
    /\ accepting \in {TRUE} \cup {a \in {FALSE} : "accept_setup" \in Faults}
    /\ sweepTimer = TRUE
    /\ io = "running"
    /\ peer = [c \in Ids |-> "up"]
    /\ unread = [c \in Ids |-> 0]

-------------------------------------------------------------------------------
(***************************************************************************)
(* The accept loop.  Its handler first starts the next accept.             *)
(***************************************************************************)

\* A throwing async_accept is logged and no accept is outstanding any more.
DoAsyncAccept ==
    \/ accepting' = TRUE
    \/ "accept_setup" \in Faults /\ accepting' = FALSE

\* The new connection is stored, then begins its handshake.
AcceptClient ==
    /\ io = "running" /\ accepting
    /\ nextConnectionId \in Ids
    /\ DoAsyncAccept
    /\ conn' = [conn EXCEPT ![nextConnectionId] = HandleAccept(NewConnection)]
    /\ connections' = connections \cup {nextConnectionId}
    /\ nextConnectionId' = nextConnectionId + 1
    /\ UNCHANGED <<sweepTimer, io, peer, unread>>

AcceptFailsForGood ==       \* slip: the next accept is started on success only
    /\ "accept" \in Faults
    /\ io = "running" /\ accepting
    /\ accepting' = FALSE
    /\ UNCHANGED <<nextConnectionId, conn, connections, sweepTimer, io, peer, unread>>

AcceptFails ==
    /\ "accept" \in Faults
    /\ io = "running" /\ accepting
    /\ DoAsyncAccept
    /\ UNCHANGED <<nextConnectionId, conn, connections, sweepTimer, io, peer, unread>>

\* The client is gone already: remote_endpoint() throws in Connection's
\* constructor, and nothing catches the exception below main's thread.
AcceptThrows ==
    /\ "early_reset" \in Faults
    /\ io = "running" /\ accepting
    /\ nextConnectionId \in Ids
    /\ DoAsyncAccept
    /\ nextConnectionId' = nextConnectionId + 1
    /\ io' = "terminated"
    /\ UNCHANGED <<conn, connections, sweepTimer, peer, unread>>

-------------------------------------------------------------------------------
(***************************************************************************)
(* The handlers of a connection.                                           *)
(***************************************************************************)

\* The handler of o runs on c and leaves the object as after.
RunHandler(c, o, after) ==
    /\ io = "running"
    /\ conn[c].op[o] \in Results
    /\ conn' = [conn EXCEPT ![c] = after]
    /\ UNCHANGED <<nextConnectionId, connections, accepting, sweepTimer, io, peer, unread>>

HandleWrite(c) == RunHandler(c, "write", WriteHandler(conn[c]))

HandleRead(c) ==
    \E parses \in BOOLEAN, fileMade \in {TRUE} \cup {f \in {FALSE} : "out_file" \in Faults} :
        RunHandler(c, "read", ReadHandler(conn[c], peer[c], parses, fileMade))

HandleReceive(c) == RunHandler(c, "receive", ReceiveHandler(conn[c], peer[c]))

HandleSendWait(c) == RunHandler(c, "sendWait", SendWaitHandler(conn[c], peer[c]))

HandleReceiveWait(c) == RunHandler(c, "receiveWait", ReceiveWaitHandler(conn[c], peer[c]))

Handle(c) ==
    \/ HandleWrite(c) \/ HandleRead(c) \/ HandleReceive(c)
    \/ HandleSendWait(c) \/ HandleReceiveWait(c)

-------------------------------------------------------------------------------
(***************************************************************************)
(* The collector: destroy what asio does not refer to, then wait again.    *)
(***************************************************************************)
SweptEnded == {c \in connections : conn[c].socket = "closed"}   \* slip: ended is enough

Swept == {c \in connections : CanDestruct(conn[c])}

Sweep ==
    /\ io = "running" /\ sweepTimer
    /\ connections' = connections \ Swept
    /\ conn' = [c \in Ids |-> IF c \in Swept THEN Destruct(conn[c]) ELSE conn[c]]
    /\ sweepTimer' = TRUE
    /\ UNCHANGED <<nextConnectionId, accepting, io, peer, unread>>

-------------------------------------------------------------------------------
(***************************************************************************)
(* asio's reactor.                                                         *)
(***************************************************************************)

\* Operation o of c completes with result r.
Complete(c, o, r) ==
    /\ conn[c].op[o] = "pending"
    /\ conn' = [conn EXCEPT ![c].op[o] = r]
    /\ UNCHANGED <<nextConnectionId, connections, accepting, sweepTimer, io, peer>>

WriteCompletes(c) ==
    /\ Complete(c, "write", IF peer[c] = "reset" THEN "error" ELSE "ok")
    /\ UNCHANGED unread

\* Data is delivered before the end of file; a reset shows as an error, or
\* as the end of file once the error has been reported.
InputCompletes(c, o) ==
    \/ /\ unread[c] > 0
       /\ Complete(c, o, "ok")
       /\ unread' = [unread EXCEPT ![c] = @ - 1]
    \/ /\ unread[c] = 0
       /\ peer[c] \in {"fin", "reset"}
       /\ Complete(c, o, "eof")
       /\ UNCHANGED unread
    \/ /\ peer[c] = "reset"
       /\ Complete(c, o, "error")
       /\ UNCHANGED unread

SocketCompletes(c) ==
    WriteCompletes(c) \/ InputCompletes(c, "read") \/ InputCompletes(c, "receive")

\* The expiry time is reached: every wait on the timer completes.
TimerExpires(c) ==
    /\ \E w \in TimerOps : conn[c].op[w] = "pending"
    /\ conn' = [conn EXCEPT ![c].op =
                   [o \in Ops |-> IF o \in TimerOps /\ @[o] = "pending" THEN "ok" ELSE @[o]]]
    /\ UNCHANGED <<nextConnectionId, connections, accepting, sweepTimer, io, peer, unread>>

Reactor(c) ==
    /\ io = "running"
    /\ SocketCompletes(c) \/ TimerExpires(c)

-------------------------------------------------------------------------------
(***************************************************************************)
(* The clients.  What one does after the server closed is not observed.    *)
(***************************************************************************)
Connected(c) == c \in connections /\ conn[c].socket = "open"

ClientSends(c) ==
    /\ Connected(c) /\ peer[c] = "up" /\ unread[c] < MaxUnread
    /\ unread' = [unread EXCEPT ![c] = @ + 1]
    /\ UNCHANGED <<nextConnectionId, conn, connections, accepting, sweepTimer, io, peer>>

ClientCloses(c) ==
    /\ Connected(c) /\ peer[c] = "up"
    /\ peer' = [peer EXCEPT ![c] = "fin"]
    /\ UNCHANGED <<nextConnectionId, conn, connections, accepting, sweepTimer, io, unread>>

\* A reset may discard what was not read.
ClientResets(c) ==
    /\ Connected(c) /\ peer[c] # "reset"
    /\ peer' = [peer EXCEPT ![c] = "reset"]
    /\ \E kept \in {0, unread[c]} : unread' = [unread EXCEPT ![c] = kept]
    /\ UNCHANGED <<nextConnectionId, conn, connections, accepting, sweepTimer, io>>

Client(c) == ClientSends(c) \/ ClientCloses(c) \/ ClientResets(c)

-------------------------------------------------------------------------------
Next ==
    \/ AcceptClient \/ AcceptFails \/ AcceptThrows
    \/ Sweep
    \/ \E c \in Ids : Handle(c) \/ Reactor(c) \/ Client(c)

(***************************************************************************)
(* io_context.run() runs every queued handler, and the reactor reports     *)
(* what the sockets and timers are ready for.  Nothing makes a client act  *)
(* or connect.                                                             *)
(***************************************************************************)
Fairness ==
    /\ WF_vars(Sweep)
    /\ \A c \in Ids :
          /\ WF_vars(HandleWrite(c)) /\ WF_vars(HandleRead(c)) /\ WF_vars(HandleReceive(c))
          /\ WF_vars(HandleSendWait(c)) /\ WF_vars(HandleReceiveWait(c))
          /\ WF_vars(io = "running" /\ WriteCompletes(c))
          /\ WF_vars(io = "running" /\ InputCompletes(c, "read"))
          /\ WF_vars(io = "running" /\ InputCompletes(c, "receive"))
          /\ WF_vars(io = "running" /\ TimerExpires(c))

Spec     == Init /\ [][Next]_vars
FairSpec == Spec /\ Fairness

-------------------------------------------------------------------------------
(***************************************************************************)
(* Safety.                                                                 *)
(***************************************************************************)

\* Use after free: a handler captures its connection by reference, so while
\* one has yet to run its connection is still in the vector.
NoDanglingHandler ==
    \A c \in Ids : Outstanding(conn[c]) # {} => c \in connections

\* The hand-kept count (IncRefCount, DecRefCount) is exactly the number of
\* operations outstanding, except that a failed greeting write keeps its
\* reference for ever.
RefCountExact == \A c \in connections : CountsItsReferences(conn[c])

\* Which operations a connection can have at each stage: the greetings are
\* not read and written at the same time, data is received only from an
\* accepted client, and the timeout of the stage it is in is not cancelled.
OperationsMatchStatus == \A c \in connections : OperationsMatch(conn[c])

\* The assertions a handler meets hold when it is queued, whatever ran before
\* it: the connection is referenced (GetStreambuf, DecRefCount), the receive
\* timeout is not set before the greeting is out (CallbackReceiveGreeting-
\* Timeout), and the out file has a path when data is received (OpenOutFile).
HandlerPreconditions == \A c \in connections : MeetsAssertions(conn[c])

\* No connection with a working socket is left without what will move it on:
\* a handshake has its timeout, an accepted connection has its receive.
NoStalledConnection ==
    \A c \in connections :
        conn[c].socket = "open" /\ peer[c] # "reset" => WillMoveOn(conn[c])

\* The inductive invariant, every conjunct of which the others need: see
\* ConnectionServicesProofs.
IInv ==
    /\ TypeOK
    /\ NoDanglingHandler
    /\ RefCountExact
    /\ OperationsMatchStatus
    /\ HandlerPreconditions
    /\ NoStalledConnection
    /\ \A c \in Ids : c >= nextConnectionId =>
          c \notin connections /\ conn[c].status = "send_s_greeting"

\* A status only moves down the list (the assertion in SetStatus), also when
\* a timeout and the answer it waited for are queued together.
StatusOnlyAdvances ==
    [][\A c \in Ids : StatusRank(conn'[c].status) >= StatusRank(conn[c].status)]_vars

\* A stale timeout, queued before its wait could be cancelled, never closes a
\* connection that made its deadline, and no handler closes another's socket.
ClosedOnlyForCause ==
    [][\A c \in connections \cap connections' :
          conn[c].socket = "open" /\ conn'[c].socket = "closed"
              => MayClose(conn[c], conn'[c])]_vars

\* "Returns immediately, accepts connections until io_context stops"
\* (BeginAsyncAccept): an accept is always outstanding.
AcceptsUntilStopped == io = "stopped" \/ (io = "running" /\ accepting)

-------------------------------------------------------------------------------
(***************************************************************************)
(* The abstract specification this one implements: an object is used only  *)
(* while it exists, handed on only by its handlers, and destroyed only     *)
(* when none is left.  A failed constructor wastes its id.                 *)
(***************************************************************************)
Lifetime == INSTANCE AsyncLifetime
    WITH Object  <- Ids,
         Handler <- Ops,
         heap    <- connections,
         freed   <- (1 .. nextConnectionId - 1) \ connections,
         users   <- [c \in Ids |-> Outstanding(conn[c])]

\* Connections, handlers and collector together keep the lifetime discipline.
ImplementsLifetime == Lifetime!LifetimeSpec

-------------------------------------------------------------------------------
(***************************************************************************)
(* Liveness, under Fairness.                                               *)
(***************************************************************************)

\* The receive-greeting timeout bounds the handshake: a client that was
\* greeted is accepted, or its connection is ended or gone.
HandshakeResolved ==
    \A c \in Ids :
        (c \in connections /\ conn[c].status = "awaiting_c_greeting")
            ~> \/ conn[c].status = "active"
               \/ conn[c].socket = "closed"
               \/ c \notin connections

\* Once a greeted client has left, or its connection was ended, the collector
\* removes the connection.
GreetedConnectionReclaimed ==
    \A c \in Ids :
        ( /\ c \in connections
          /\ conn[c].status # "send_s_greeting"
          /\ conn[c].socket = "closed" \/ peer[c] # "up" )
            ~> c \notin connections

-------------------------------------------------------------------------------
(***************************************************************************)
(* What the comments of the code promise and the code does not do.         *)
(***************************************************************************)

\* "Removes old and no longer active connections" (ConnectionGc::Sweep):
\* every connection that was ended is removed.
EndedConnectionReclaimed ==
    \A c \in Ids : (c \in connections /\ conn[c].socket = "closed") ~> c \notin connections
===============================================================================
