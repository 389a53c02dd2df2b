------------------------------ MODULE Connection ------------------------------
(***************************************************************************)
(* net::Connection (src/include/net/connection.h, src/src/net/             *)
(* connection.cpp): one client's socket, timer and receive buffer, with    *)
(* the hand-kept reference count that tells the collector when asio no     *)
(* longer refers to the object.                                            *)
(*                                                                         *)
(* A connection is a passive object: only handlers that the io_context     *)
(* runs, one at a time, call its methods.  Its state is therefore a        *)
(* record, and each method an operator from the record before the call to  *)
(* the record after it.  The modules that EXTEND this one build the        *)
(* handlers out of these operators; ConnectionServices holds the VARIABLES.*)
(***************************************************************************)
EXTENDS Integers

\* enum class ConnectionStatus, in the order of its enumerators.
Statuses == {"send_s_greeting", "awaiting_c_greeting", "active"}

StatusRank(s) == CASE s = "send_s_greeting"     -> 0
                   [] s = "awaiting_c_greeting" -> 1
                   [] s = "active"              -> 2

(***************************************************************************)
(* The asynchronous operations a connection can have with the io_context.  *)
(* The two waits are different handlers on the one timer_.                 *)
(***************************************************************************)
SocketOps == {"write", "read", "receive"}
TimerOps  == {"sendWait", "receiveWait"}
Ops       == SocketOps \cup TimerOps

(***************************************************************************)
(* What the io_context knows of an operation: not started (or its handler  *)
(* has returned), started, or completed with a result, the handler being   *)
(* queued.  "error" is every error_code but eof, operation_aborted and     *)
(* bad_descriptor included: the code tells those apart only in its log.    *)
(***************************************************************************)
Results  == {"ok", "eof", "error"}
OpStates == {"idle", "pending"} \cup Results

\* The client's end of the TCP connection, as this host has learnt of it.
PeerStates == {"up", "fin", "reset"}

ConnectionState ==
    [ status      : Statuses,
      socket      : {"open", "closed"},
      receivedEof : BOOLEAN,
      refCount    : Nat,
      op          : [Ops -> OpStates],
      outFilePath : BOOLEAN ]     \* is outFilePath_ set?

\* The object as its constructor leaves it.
NewConnection ==
    [ status      |-> "send_s_greeting",
      socket      |-> "open",
      receivedEof |-> FALSE,
      refCount    |-> 0,
      op          |-> [o \in Ops |-> "idle"],
      outFilePath |-> FALSE ]

\* Slips, mistakes that the properties must notice, stand before the definition
\* they stand in for, in this and in the other modules: here, one reference
\* too many.
CanDestructEarly(conn) == conn.refCount <= 1

CanDestruct(conn) == conn.refCount = 0

IncRefCount(conn) == [conn EXCEPT !.refCount = @ + 1]
DecRefCount(conn) == [conn EXCEPT !.refCount = @ - 1]

SetStatus(conn, s) == [conn EXCEPT !.status = s]

-------------------------------------------------------------------------------
(***************************************************************************)
(* asio, from how this code uses it.                                       *)
(***************************************************************************)

\* Starts o.  An operation on a closed socket fails with bad_descriptor, and
\* like any other result the failure is delivered by a queued handler.
StartOp(conn, o) ==
    [conn EXCEPT !.op[o] = IF o \in SocketOps /\ conn.socket = "closed"
                           THEN "error" ELSE "pending"]

\* Cancels the operations in os that have not completed.  A completed one
\* keeps its result: its handler is already queued.
CancelOps(conn, os) ==
    [conn EXCEPT !.op = [o \in Ops |-> IF o \in os /\ conn.op[o] = "pending"
                                       THEN "error" ELSE conn.op[o]]]

\* socket::close, which also cancels what was started on the socket.
CloseSocket(conn) == [CancelOps(conn, SocketOps) EXCEPT !.socket = "closed"]

\* What the destructors of the members do.
Destruct(conn) == CancelOps(CloseSocket(conn), TimerOps)

\* socket::shutdown throws when the socket is closed (bad_descriptor) and
\* when the client has reset the connection (not_connected).
ShutdownThrows(conn, peerState) == conn.socket = "closed" \/ peerState = "reset"

\* The io_context takes the handler of o off its queue to run it.
TakeHandler(conn, o) == [conn EXCEPT !.op[o] = "idle"]

-------------------------------------------------------------------------------
\* Slips: an operation nobody counted.
AsyncReceiveUncounted(conn) == StartOp(conn, "receive")
AsyncWaitUncounted(conn, w) == StartOp(conn, w)

\* Each wrapper counts a reference, then starts the operation.
AsyncWrite(conn)   == StartOp(IncRefCount(conn), "write")
AsyncRead(conn)    == StartOp(IncRefCount(conn), "read")
AsyncReceive(conn) == StartOp(IncRefCount(conn), "receive")
AsyncWait(conn, w) == StartOp(IncRefCount(conn), w)

\* timer_.expires_after: a wait that has not expired completes with an error.
SetTimerExpiresAfter(conn) == CancelOps(conn, TimerOps)

\* BeginOutFiles stores the path first; making the file may then throw.
BeginOutFiles(conn) == [conn EXCEPT !.outFilePath = TRUE]

(***************************************************************************)
(* End: shut the socket down unless the client already has, then close it. *)
(* When shutdown throws, close() is skipped and the exception is logged.   *)
(***************************************************************************)
EndResettingStatus(conn, peerState) ==      \* slip: made ready for another client
    SetStatus(CloseSocket(conn), "send_s_greeting")

End(conn, peerState) ==
    IF ~conn.receivedEof /\ ShutdownThrows(conn, peerState)
    THEN conn
    ELSE CloseSocket(conn)

-------------------------------------------------------------------------------
\* The operations whose handler has yet to run.
Outstanding(conn) == {o \in Ops : conn.op[o] # "idle"}

Holds(conn, o) == IF conn.op[o] = "idle" THEN 0 ELSE 1

\* How many they are.
OutstandingCount(conn) ==
      Holds(conn, "write") + Holds(conn, "read") + Holds(conn, "receive")
    + Holds(conn, "sendWait") + Holds(conn, "receiveWait")

\* The greeting was written in vain: the write is over, the status has not moved.
GreetingWriteFailed(conn) ==
    conn.status = "send_s_greeting" /\ conn.op["write"] = "idle"
===============================================================================
