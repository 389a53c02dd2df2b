-------------------------- MODULE ConnectionAcceptor --------------------------
(***************************************************************************)
(* net::ConnectionAcceptor (src/src/net/service/connection_acceptor.cpp):  *)
(* the greeting handshake of one connection and its two timeouts.  The     *)
(* accept loop itself, which is not about one connection, is in            *)
(* ConnectionServices.                                                     *)
(***************************************************************************)
EXTENDS ConnectionListener

\* Send the server greeting, under a timeout.
HandleAccept(conn) ==
    AsyncWait(SetTimerExpiresAfter(AsyncWrite(conn)), "sendWait")

\* Slips: the status forgotten, the timeout forgotten, and the expiry set
\* after the wait, which cancels it.
CallbackSentGreetingSilently(conn) ==
    AsyncWait(SetTimerExpiresAfter(AsyncRead(conn)), "receiveWait")

CallbackSentGreetingUntimed(conn) == SetStatus(AsyncRead(conn), "awaiting_c_greeting")

CallbackSentGreetingSwapped(conn) ==
    SetStatus(SetTimerExpiresAfter(AsyncWait(AsyncRead(conn), "receiveWait")),
              "awaiting_c_greeting")

\* The greeting is out: wait for the client's, under a timeout.
CallbackSentGreeting(conn) ==
    SetStatus(AsyncWait(SetTimerExpiresAfter(AsyncRead(conn)), "receiveWait"),
              "awaiting_c_greeting")

\* Slip: the out files are never begun.
OnConnectionAcceptedNoFile(conn, fileMade) == BeginAsyncReceive(conn)

\* RunConnectionServices' onConnectionAccepted.  When the out file cannot be
\* made the receive loop is not begun.
OnConnectionAccepted(conn, fileMade) ==
    IF fileMade THEN BeginAsyncReceive(BeginOutFiles(conn)) ELSE BeginOutFiles(conn)

\* A greeting that does not parse, or an out file that cannot be made, ends
\* the connection.
CallbackReceivedGreeting(conn, peerState, parses, fileMade) ==
    IF ~parses THEN End(conn, peerState)
    ELSE LET accepted == OnConnectionAccepted(SetStatus(conn, "active"), fileMade)
         IN  IF fileMade THEN accepted ELSE End(accepted, peerState)

\* A greeting that could not be read is only logged: the connection is left
\* to the timeout.
ReadCallback(conn, result, peerState, parses, fileMade) ==
    IF result # "ok" THEN conn
    ELSE CallbackReceivedGreeting(conn, peerState, parses, fileMade)

CallbackSendGreetingTimeout(conn, peerState) ==
    IF conn.status # "send_s_greeting" THEN conn ELSE End(conn, peerState)

CallbackReceiveGreetingTimeoutAlways(conn, peerState) ==    \* slip: status not looked at
    End(conn, peerState)

CallbackReceiveGreetingTimeout(conn, peerState) ==
    IF conn.status # "awaiting_c_greeting" THEN conn ELSE End(conn, peerState)

\* A cancelled wait does nothing.
SendWaitCallback(conn, result, peerState) ==
    IF result # "ok" THEN conn ELSE CallbackSendGreetingTimeout(conn, peerState)

ReceiveWaitCallback(conn, result, peerState) ==
    IF result # "ok" THEN conn ELSE CallbackReceiveGreetingTimeout(conn, peerState)

-------------------------------------------------------------------------------
(***************************************************************************)
(* The handlers the io_context runs: a wrapper's lambda (connection.cpp)   *)
(* around the callback its caller gave it.  The reference is given up last.*)
(***************************************************************************)

\* On an error the handler returns before it calls back and before it gives
\* its reference up.
WriteHandler(conn) ==
    IF conn.op["write"] # "ok"
    THEN TakeHandler(conn, "write")
    ELSE DecRefCount(CallbackSentGreeting(TakeHandler(conn, "write")))

\* Slip: the reference is kept on an error, as WriteHandler does.
ReadHandlerLeaking(conn, peerState, parses, fileMade) ==
    IF conn.op["read"] # "ok"
    THEN TakeHandler(conn, "read")
    ELSE DecRefCount(ReadCallback(TakeHandler(conn, "read"), "ok", peerState, parses, fileMade))

ReadHandler(conn, peerState, parses, fileMade) ==
    DecRefCount(ReadCallback(TakeHandler(conn, "read"), conn.op["read"],
                             peerState, parses, fileMade))

\* The only handler that notes an end of file.
ReceiveHandler(conn, peerState) ==
    LET this == [TakeHandler(conn, "receive")
                    EXCEPT !.receivedEof = @ \/ conn.op["receive"] = "eof"]
    IN  DecRefCount(ReceiveCallback(this, conn.op["receive"], peerState))

SendWaitHandler(conn, peerState) ==
    DecRefCount(SendWaitCallback(TakeHandler(conn, "sendWait"), conn.op["sendWait"], peerState))

ReceiveWaitHandler(conn, peerState) ==
    DecRefCount(ReceiveWaitCallback(TakeHandler(conn, "receiveWait"),
                                    conn.op["receiveWait"], peerState))

-------------------------------------------------------------------------------
(***************************************************************************)
(* What one connection is to keep through all this; ConnectionServices     *)
(* states it of every connection, and of every step.                       *)
(***************************************************************************)
CountsItsReferences(conn) ==
    conn.refCount = OutstandingCount(conn) + (IF GreetingWriteFailed(conn) THEN 1 ELSE 0)

OperationsMatch(conn) ==
    /\ conn.status = "send_s_greeting" =>
          /\ \A o \in {"read", "receive", "receiveWait"} : conn.op[o] = "idle"
          /\ conn.op["sendWait"] \in {"idle", "pending", "ok"}
    /\ conn.status = "awaiting_c_greeting" =>
          /\ \A o \in {"write", "receive"} : conn.op[o] = "idle"
          /\ conn.op["receiveWait"] \in {"idle", "pending", "ok"}
    /\ conn.status = "active" =>
          \A o \in {"write", "read"} : conn.op[o] = "idle"

MeetsAssertions(conn) ==
    /\ Outstanding(conn) # {} => ~CanDestruct(conn)
    /\ conn.op["receiveWait"] # "idle" => conn.status # "send_s_greeting"
    /\ conn.op["receive"] # "idle" => conn.outFilePath

WillMoveOn(conn) ==
    \/ conn.status = "send_s_greeting"     /\ conn.op["sendWait"] # "idle"
    \/ conn.status = "awaiting_c_greeting" /\ conn.op["receiveWait"] # "idle"
    \/ conn.status = "active"              /\ conn.op["receive"] # "idle"

\* The handler of o is what takes the connection from before to after.
Ran(before, after, o) == before.op[o] \in Results /\ after.op[o] = "idle"

\* The reasons this code has for closing a socket, by status.
MayClose(before, after) ==
    \/ /\ before.status = "send_s_greeting"
       /\ Ran(before, after, "sendWait") /\ before.op["sendWait"] = "ok"
    \/ /\ before.status = "awaiting_c_greeting"
       /\ \/ Ran(before, after, "receiveWait") /\ before.op["receiveWait"] = "ok"
          \/ Ran(before, after, "read") /\ before.op["read"] = "ok"
    \/ /\ before.status = "active"
       /\ Ran(before, after, "receive") /\ before.op["receive"] # "ok"
===============================================================================
