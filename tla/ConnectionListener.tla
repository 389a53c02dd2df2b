-------------------------- MODULE ConnectionListener --------------------------
(***************************************************************************)
(* net::BeginAsyncReceive (src/src/net/service/connection_listener.cpp):   *)
(* the receive loop of an accepted connection.  What happens to the bytes  *)
(* is left to the file: saving them may fail, the failure is logged, and   *)
(* the loop goes on as if they had been saved.                             *)
(***************************************************************************)
EXTENDS Connection

DoAsyncReceive(conn) == AsyncReceive(conn)

\* The loop ends at the first error, and the next receive is started last.
ReceiveCallback(conn, result, peerState) ==
    IF result # "ok" THEN End(conn, peerState) ELSE DoAsyncReceive(conn)

BeginAsyncReceive(conn) == DoAsyncReceive(conn)
===============================================================================
