--------------------------- MODULE ConnectionProofs ---------------------------
(***************************************************************************)
(* Lemmas about one connection: what the methods of net::Connection do to  *)
(* the record, and that every handler keeps ConnectionOK, the part of the  *)
(* inductive invariant that is about one connection.  Cited by             *)
(* ConnectionServicesProofs.                                               *)
(***************************************************************************)
EXTENDS ConnectionAcceptor, TLAPS

\* What a handler finds, whichever it is and whatever ran before it.
ConnectionOK(conn, peerState) ==
    /\ conn \in ConnectionState
    /\ CountsItsReferences(conn)
    /\ OperationsMatch(conn)
    /\ MeetsAssertions(conn)
    /\ conn.socket = "open" /\ peerState # "reset" => WillMoveOn(conn)

\* What the handler of o may do: move the status on, start operations, and
\* close the socket for a reason.
HandlerStep(before, after, o) ==
    /\ StatusRank(after.status) >= StatusRank(before.status)
    /\ \A q \in Ops \ {o} : before.op[q] # "idle" => after.op[q] # "idle"
    /\ before.socket = "open" /\ after.socket = "closed" => MayClose(before, after)

\* What starting, ending or cancelling operations leaves as it was.
SameStage(a, conn) ==
    /\ a.status = conn.status
    /\ a.receivedEof = conn.receivedEof
    /\ a.outFilePath = conn.outFilePath

USE DEF Ops, SocketOps, TimerOps

-------------------------------------------------------------------------------
\* The methods.

\* Taking a handler off the queue changes its operation only.
LEMMA TakeHandlerEffect ==
  ASSUME NEW k \in ConnectionState, NEW o \in Ops
  PROVE  /\ TakeHandler(k, o) \in ConnectionState
         /\ SameStage(TakeHandler(k, o), k)
         /\ TakeHandler(k, o).refCount = k.refCount
         /\ TakeHandler(k, o).socket = k.socket
         /\ TakeHandler(k, o).op[o] = "idle"
         /\ \A q \in Ops \ {o} : TakeHandler(k, o).op[q] = k.op[q]
BY DEF TakeHandler, SameStage, ConnectionState, OpStates

\* A wrapper counts one reference and starts one operation.
LEMMA StartEffect ==
  ASSUME NEW k \in ConnectionState, NEW o \in Ops
  PROVE  LET a == StartOp(IncRefCount(k), o)
         IN  /\ a \in ConnectionState
             /\ SameStage(a, k) /\ a.socket = k.socket /\ a.refCount = k.refCount + 1
             /\ a.op[o] # "idle"
             /\ o \in TimerOps => a.op[o] = "pending"
             /\ \A q \in Ops \ {o} : a.op[q] = k.op[q]
<1> DEFINE i == IncRefCount(k)
           a == StartOp(i, o)
           r == IF o \in SocketOps /\ k.socket = "closed" THEN "error" ELSE "pending"
<1>1. /\ i \in ConnectionState /\ i.refCount = k.refCount + 1
      /\ SameStage(i, k) /\ i.socket = k.socket /\ i.op = k.op
  BY DEF IncRefCount, SameStage, ConnectionState
<1>2. /\ a = [i EXCEPT !.op = [k.op EXCEPT ![o] = r]]
      /\ r \in OpStates /\ r # "idle" /\ (o \in TimerOps => r = "pending")
  BY <1>1 DEF StartOp, OpStates, Results, ConnectionState
<1> HIDE DEF i, r, a
<1>3. [k.op EXCEPT ![o] = r] \in [Ops -> OpStates]
  BY <1>2 DEF ConnectionState
<1>4. /\ a \in ConnectionState /\ a.refCount = i.refCount
      /\ SameStage(a, i) /\ a.socket = i.socket /\ a.op = [k.op EXCEPT ![o] = r]
  BY <1>1, <1>2, <1>3 DEF SameStage, ConnectionState
<1>5. a.op[o] = r /\ \A q \in Ops \ {o} : a.op[q] = k.op[q]
  BY <1>4 DEF ConnectionState
<1> USE DEF a, i
<1>6. QED BY <1>1, <1>2, <1>4, <1>5 DEF SameStage

\* Cancelling never makes a handler disappear.
LEMMA CancelEffect ==
  ASSUME NEW k \in ConnectionState, NEW os
  PROVE  LET a == CancelOps(k, os)
         IN  /\ a \in ConnectionState
             /\ SameStage(a, k) /\ a.socket = k.socket /\ a.refCount = k.refCount
             /\ \A q \in Ops : a.op[q] = "idle" <=> k.op[q] = "idle"
             /\ \A q \in Ops \ os : a.op[q] = k.op[q]
BY DEF CancelOps, SameStage, ConnectionState, OpStates, Results

\* End closes the socket or changes nothing; it always closes one that works.
LEMMA EndEffect ==
  ASSUME NEW k \in ConnectionState, NEW p \in PeerStates
  PROVE  LET a == End(k, p)
         IN  /\ a \in ConnectionState
             /\ SameStage(a, k) /\ a.refCount = k.refCount
             /\ \A q \in Ops : a.op[q] = "idle" <=> k.op[q] = "idle"
             /\ \A q \in TimerOps : a.op[q] = k.op[q]
             /\ k.socket = "closed" => a.socket = "closed"
             /\ p # "reset" => a.socket = "closed"
<1> DEFINE c == CancelOps(k, SocketOps)
<1>1. /\ c \in ConnectionState
      /\ SameStage(c, k) /\ c.refCount = k.refCount
      /\ \A q \in Ops : c.op[q] = "idle" <=> k.op[q] = "idle"
      /\ \A q \in TimerOps : c.op[q] = k.op[q]
  BY CancelEffect
<1>2. CASE ~k.receivedEof /\ ShutdownThrows(k, p)
  BY <1>2 DEF End, ShutdownThrows, SameStage, ConnectionState
<1>3. CASE ~(~k.receivedEof /\ ShutdownThrows(k, p))
  <2>1. End(k, p) = [c EXCEPT !.socket = "closed"]
    BY <1>3 DEF End, CloseSocket
  <2> HIDE DEF c
  <2> QED BY <2>1, <1>1 DEF SameStage, ConnectionState
<1>4. QED BY <1>2, <1>3

\* What giving a reference up does.
LEMMA DecEffect ==
  ASSUME NEW k \in ConnectionState, k.refCount # 0
  PROVE  LET a == DecRefCount(k)
         IN  /\ a \in ConnectionState
             /\ SameStage(a, k) /\ a.socket = k.socket /\ a.op = k.op
             /\ a.refCount = k.refCount - 1
BY DEF DecRefCount, SameStage, ConnectionState

\* A later status, set.
LEMMA SetStatusEffect ==
  ASSUME NEW k \in ConnectionState, NEW s \in Statuses
  PROVE  LET a == SetStatus(k, s)
         IN  /\ a \in ConnectionState
             /\ a.status = s /\ a.receivedEof = k.receivedEof /\ a.outFilePath = k.outFilePath
             /\ a.socket = k.socket /\ a.op = k.op /\ a.refCount = k.refCount
BY DEF SetStatus, ConnectionState

\* A greeting and its timeout: two references, two operations, and the wait
\* that was running is cancelled before the new one starts.
LEMMA ArmEffect ==
  ASSUME NEW k \in ConnectionState, NEW o \in SocketOps, NEW w \in TimerOps
  PROVE  LET a == AsyncWait(SetTimerExpiresAfter(StartOp(IncRefCount(k), o)), w)
         IN  /\ a \in ConnectionState
             /\ SameStage(a, k) /\ a.socket = k.socket /\ a.refCount = k.refCount + 2
             /\ a.op[o] # "idle" /\ a.op[w] = "pending"
             /\ \A q \in Ops \ {o, w} : a.op[q] = "idle" <=> k.op[q] = "idle"
<1> DEFINE s == StartOp(IncRefCount(k), o)
           t == CancelOps(s, TimerOps)
           a == StartOp(IncRefCount(t), w)
<1>1. /\ s \in ConnectionState
      /\ SameStage(s, k) /\ s.socket = k.socket /\ s.refCount = k.refCount + 1
      /\ s.op[o] # "idle"
      /\ \A q \in Ops \ {o} : s.op[q] = k.op[q]
  BY StartEffect
<1> HIDE DEF s
<1>2. /\ t \in ConnectionState
      /\ SameStage(t, s) /\ t.socket = s.socket /\ t.refCount = s.refCount
      /\ \A q \in Ops : t.op[q] = "idle" <=> s.op[q] = "idle"
  BY <1>1, CancelEffect
<1> HIDE DEF t
<1>3. /\ a \in ConnectionState
      /\ SameStage(a, t) /\ a.socket = t.socket /\ a.refCount = t.refCount + 1
      /\ a.op[w] = "pending"
      /\ \A q \in Ops \ {w} : a.op[q] = t.op[q]
  BY <1>2, StartEffect
<1> HIDE DEF a
<1>4. /\ SameStage(a, k) /\ a.socket = k.socket /\ a.refCount = k.refCount + 2
      /\ a.op[o] # "idle"
      /\ \A q \in Ops \ {o, w} : a.op[q] = "idle" <=> k.op[q] = "idle"
  BY <1>1, <1>2, <1>3 DEF SameStage, ConnectionState
<1> USE DEF a, t, s
<1>5. QED BY <1>3, <1>4 DEF AsyncWait, SetTimerExpiresAfter

-------------------------------------------------------------------------------
\* The handlers.

\* A connection begins its handshake as the invariant asks.
LEMMA HandleAcceptOK ==
  ASSUME NEW p \in PeerStates
  PROVE  /\ ConnectionOK(HandleAccept(NewConnection), p)
         /\ HandleAccept(NewConnection).status = "send_s_greeting"
<1> DEFINE a == HandleAccept(NewConnection)
<1>1. NewConnection \in ConnectionState
  BY DEF NewConnection, ConnectionState, OpStates, Statuses
<1>2. /\ a \in ConnectionState
      /\ SameStage(a, NewConnection) /\ a.refCount = NewConnection.refCount + 2
      /\ a.op["write"] # "idle" /\ a.op["sendWait"] = "pending"
      /\ \A q \in Ops \ {"write", "sendWait"} :
            a.op[q] = "idle" <=> NewConnection.op[q] = "idle"
  BY <1>1, ArmEffect DEF HandleAccept, AsyncWrite
<1> HIDE DEF a
<1>3. /\ a.refCount = 2 /\ a.status = "send_s_greeting"
      /\ \A q \in {"read", "receive", "receiveWait"} : a.op[q] = "idle"
  BY <1>2 DEF NewConnection, SameStage
<1>4. ConnectionOK(a, p)
  BY <1>2, <1>3 DEF ConnectionOK, CountsItsReferences, OperationsMatch, MeetsAssertions,
                    WillMoveOn, OutstandingCount, Holds, GreetingWriteFailed, CanDestruct
<1> USE DEF a
<1>5. QED BY <1>3, <1>4

\* The greeting was written, or was not and nothing moves.
LEMMA WriteHandlerOK ==
  ASSUME NEW k, NEW p \in PeerStates, ConnectionOK(k, p), k.op["write"] \in Results
  PROVE  LET a == WriteHandler(k)
         IN  ConnectionOK(a, p) /\ HandlerStep(k, a, "write")
<1> DEFINE t == TakeHandler(k, "write")
           r == AsyncWait(SetTimerExpiresAfter(StartOp(IncRefCount(t), "read")), "receiveWait")
           a == WriteHandler(k)
<1>1. /\ k \in ConnectionState /\ t \in ConnectionState
      /\ SameStage(t, k) /\ t.refCount = k.refCount /\ t.socket = k.socket
      /\ t.op["write"] = "idle" /\ \A q \in Ops \ {"write"} : t.op[q] = k.op[q]
      /\ k.status = "send_s_greeting" /\ k.op["write"] # "idle"
  BY TakeHandlerEffect DEF ConnectionOK, OperationsMatch, Results, ConnectionState, Statuses
<1>2. CASE k.op["write"] # "ok"
  <2>1. a = t
    BY <1>2 DEF WriteHandler
  <2> HIDE DEF a, t
  <2>2. ConnectionOK(t, p)
    BY <1>1 DEF ConnectionOK, CountsItsReferences, OperationsMatch, MeetsAssertions, SameStage,
                WillMoveOn, OutstandingCount, Holds, GreetingWriteFailed, CanDestruct, Outstanding,
                ConnectionState
  <2>3. HandlerStep(k, t, "write")
    BY <1>1 DEF HandlerStep, SameStage, StatusRank
  <2>4. QED BY <2>1, <2>2, <2>3 DEF a
<1>3. CASE k.op["write"] = "ok"
  <2>1. a = DecRefCount(SetStatus(r, "awaiting_c_greeting"))
    BY <1>3 DEF WriteHandler, CallbackSentGreeting, AsyncRead
  <2> HIDE DEF a
  <2>2. /\ r \in ConnectionState
        /\ SameStage(r, t) /\ r.refCount = k.refCount + 2 /\ r.socket = t.socket
        /\ r.op["read"] # "idle" /\ r.op["receiveWait"] = "pending"
        /\ \A q \in Ops \ {"read", "receiveWait"} : r.op[q] = "idle" <=> t.op[q] = "idle"
    BY <1>1, ArmEffect
  <2> HIDE DEF r, t
  <2>3. /\ a \in ConnectionState /\ a.op = r.op /\ a.socket = k.socket
        /\ a.status = "awaiting_c_greeting" /\ a.refCount = k.refCount + 1
    <3> DEFINE u == SetStatus(r, "awaiting_c_greeting")
    <3>1. /\ u \in ConnectionState /\ u.op = r.op /\ u.socket = r.socket
          /\ u.status = "awaiting_c_greeting" /\ u.refCount = r.refCount
      BY <2>2, SetStatusEffect DEF Statuses
    <3> HIDE DEF u
    <3>2. u.refCount # 0
      BY <1>1, <2>2, <3>1 DEF ConnectionState
    <3>3. QED BY <1>1, <2>1, <2>2, <3>1, <3>2, DecEffect DEF u, SameStage, ConnectionState
  <2>4. ConnectionOK(a, p)
    BY <1>1, <1>3, <2>2, <2>3 DEF ConnectionOK, CountsItsReferences, OperationsMatch, MeetsAssertions,
          WillMoveOn, OutstandingCount, Holds, GreetingWriteFailed, CanDestruct
  <2>5. HandlerStep(k, a, "write")
    BY <1>1, <2>2, <2>3 DEF HandlerStep, StatusRank
  <2>6. QED BY <2>4, <2>5 DEF a
<1>4. QED BY <1>2, <1>3

\* A handler that only ends the connection, or leaves it alone.
LEMMA EndingHandlerOK ==
  ASSUME NEW k, NEW p \in PeerStates, ConnectionOK(k, p),
         NEW o \in Ops, k.op[o] \in Results, o # "write",
         o = "receive" => k.op[o] # "ok",
         NEW t \in ConnectionState, NEW e \in ConnectionState,
         \* t is k with the handler taken, e what the callback left.
         t.status = k.status, t.outFilePath = k.outFilePath,
         t.refCount = k.refCount, t.socket = k.socket,
         t.op[o] = "idle", \A q \in Ops \ {o} : t.op[q] = k.op[q],
         e.status = k.status, e.outFilePath = k.outFilePath, e.refCount = k.refCount,
         \A q \in Ops : e.op[q] = "idle" <=> t.op[q] = "idle",
         \A q \in TimerOps : e.op[q] = t.op[q],
         k.socket = "open" /\ e.socket = "open" /\ p # "reset" => ~MayClose(k, t),
         k.socket = "closed" => e.socket = "closed",
         k.socket = "open" /\ e.socket = "closed" => MayClose(k, t)
  PROVE  ConnectionOK(DecRefCount(e), p) /\ HandlerStep(k, DecRefCount(e), o)
<1> DEFINE a == DecRefCount(e)
<1>1. k \in ConnectionState /\ k.op[o] # "idle" /\ k.refCount # 0
  BY DEF ConnectionOK, MeetsAssertions, Outstanding, CanDestruct, Results
<1>2. /\ a \in ConnectionState
      /\ SameStage(a, e) /\ a.socket = e.socket /\ a.op = e.op /\ a.refCount = e.refCount - 1
  BY <1>1, DecEffect
<1> HIDE DEF a
<1>3. HandlerStep(k, a, o)
  <2>1. MayClose(k, t) => MayClose(k, a)
    BY <1>2 DEF MayClose, Ran
  <2>2. QED BY <1>1, <1>2, <2>1 DEF HandlerStep, SameStage, StatusRank, ConnectionState, Statuses
<1>4. ConnectionOK(a, p)
  <2>1. CountsItsReferences(a)
    BY <1>1, <1>2 DEF ConnectionOK, CountsItsReferences, OutstandingCount, Holds,
                      GreetingWriteFailed, SameStage, ConnectionState
  <2>2. OperationsMatch(a)
    BY <1>1, <1>2 DEF ConnectionOK, OperationsMatch, SameStage
  <2>3. MeetsAssertions(a)
    BY <1>1, <1>2, <2>1 DEF ConnectionOK, MeetsAssertions, CountsItsReferences, OutstandingCount,
                      Holds, Outstanding, CanDestruct, SameStage
  <2>4. a.socket = "open" /\ p # "reset" => WillMoveOn(a)
    BY <1>1, <1>2 DEF ConnectionOK, WillMoveOn, OperationsMatch, MayClose, Ran, SameStage,
                      ConnectionState, Results, OpStates
  <2>5. QED BY <1>2, <2>1, <2>2, <2>3, <2>4 DEF ConnectionOK
<1> USE DEF a
<1>5. QED BY <1>3, <1>4
\* The send timeout, stale or not.
LEMMA SendWaitHandlerOK ==
  ASSUME NEW k, NEW p \in PeerStates, ConnectionOK(k, p), k.op["sendWait"] \in Results
  PROVE  LET a == SendWaitHandler(k, p)
         IN  ConnectionOK(a, p) /\ HandlerStep(k, a, "sendWait")
<1> DEFINE t == TakeHandler(k, "sendWait")
           e == SendWaitCallback(t, k.op["sendWait"], p)
<1>1. /\ k \in ConnectionState /\ t \in ConnectionState
      /\ SameStage(t, k) /\ t.refCount = k.refCount /\ t.socket = k.socket
      /\ t.op["sendWait"] = "idle" /\ \A q \in Ops \ {"sendWait"} : t.op[q] = k.op[q]
  BY TakeHandlerEffect DEF ConnectionOK
<1> HIDE DEF t
<1>2. CASE k.op["sendWait"] = "ok" /\ k.status = "send_s_greeting"
  <2>1. e = End(t, p) /\ MayClose(k, t)
    BY <1>1, <1>2 DEF SendWaitCallback, CallbackSendGreetingTimeout, SameStage, MayClose, Ran, Results
  <2> HIDE DEF e
  <2>2. ConnectionOK(DecRefCount(e), p) /\ HandlerStep(k, DecRefCount(e), "sendWait")
    BY <1>1, <2>1, EndEffect, EndingHandlerOK DEF SameStage
  <2>3. QED BY <2>2 DEF SendWaitHandler, e, t
<1>3. CASE ~(k.op["sendWait"] = "ok" /\ k.status = "send_s_greeting")
  <2>1. e = t /\ ~MayClose(k, t)
    BY <1>1, <1>3 DEF SendWaitCallback, CallbackSendGreetingTimeout, SameStage, MayClose, Ran, Results,
                      ConnectionOK, OperationsMatch, MeetsAssertions
  <2> HIDE DEF e
  <2>2. ConnectionOK(DecRefCount(e), p) /\ HandlerStep(k, DecRefCount(e), "sendWait")
    BY <1>1, <2>1, EndingHandlerOK DEF SameStage
  <2>3. QED BY <2>2 DEF SendWaitHandler, e, t
<1>4. QED BY <1>2, <1>3

\* The receive timeout, stale or not.
LEMMA ReceiveWaitHandlerOK ==
  ASSUME NEW k, NEW p \in PeerStates, ConnectionOK(k, p), k.op["receiveWait"] \in Results
  PROVE  LET a == ReceiveWaitHandler(k, p)
         IN  ConnectionOK(a, p) /\ HandlerStep(k, a, "receiveWait")
<1> DEFINE t == TakeHandler(k, "receiveWait")
           e == ReceiveWaitCallback(t, k.op["receiveWait"], p)
<1>1. /\ k \in ConnectionState /\ t \in ConnectionState
      /\ SameStage(t, k) /\ t.refCount = k.refCount /\ t.socket = k.socket
      /\ t.op["receiveWait"] = "idle" /\ \A q \in Ops \ {"receiveWait"} : t.op[q] = k.op[q]
  BY TakeHandlerEffect DEF ConnectionOK
<1> HIDE DEF t
<1>2. CASE k.op["receiveWait"] = "ok" /\ k.status = "awaiting_c_greeting"
  <2>1. e = End(t, p) /\ MayClose(k, t)
    BY <1>1, <1>2 DEF ReceiveWaitCallback, CallbackReceiveGreetingTimeout, SameStage, MayClose, Ran, Results
  <2> HIDE DEF e
  <2>2. ConnectionOK(DecRefCount(e), p) /\ HandlerStep(k, DecRefCount(e), "receiveWait")
    BY <1>1, <2>1, EndEffect, EndingHandlerOK DEF SameStage
  <2>3. QED BY <2>2 DEF ReceiveWaitHandler, e, t
<1>3. CASE ~(k.op["receiveWait"] = "ok" /\ k.status = "awaiting_c_greeting")
  <2>1. e = t /\ ~MayClose(k, t)
    BY <1>1, <1>3 DEF ReceiveWaitCallback, CallbackReceiveGreetingTimeout, SameStage, MayClose, Ran, Results,
                      ConnectionOK, OperationsMatch, MeetsAssertions
  <2> HIDE DEF e
  <2>2. ConnectionOK(DecRefCount(e), p) /\ HandlerStep(k, DecRefCount(e), "receiveWait")
    BY <1>1, <2>1, EndingHandlerOK DEF SameStage
  <2>3. QED BY <2>2 DEF ReceiveWaitHandler, e, t
<1>4. QED BY <1>2, <1>3
\* Data was received and more is asked for, or the connection is ended.
LEMMA ReceiveHandlerOK ==
  ASSUME NEW k, NEW p \in PeerStates, ConnectionOK(k, p), k.op["receive"] \in Results
  PROVE  LET a == ReceiveHandler(k, p)
         IN  ConnectionOK(a, p) /\ HandlerStep(k, a, "receive")
<1> DEFINE h == TakeHandler(k, "receive")
           t == [h EXCEPT !.receivedEof = h.receivedEof \/ k.op["receive"] = "eof"]
           a == ReceiveHandler(k, p)
<1>1. /\ k \in ConnectionState /\ t \in ConnectionState
      /\ t.status = k.status /\ t.outFilePath = k.outFilePath
      /\ t.refCount = k.refCount /\ t.socket = k.socket
      /\ t.op["receive"] = "idle" /\ \A q \in Ops \ {"receive"} : t.op[q] = k.op[q]
  <2>1. /\ k \in ConnectionState /\ h \in ConnectionState
        /\ SameStage(h, k) /\ h.refCount = k.refCount /\ h.socket = k.socket
        /\ h.op["receive"] = "idle" /\ \A q \in Ops \ {"receive"} : h.op[q] = k.op[q]
    BY TakeHandlerEffect DEF ConnectionOK
  <2> HIDE DEF h
  <2>2. QED BY <2>1 DEF ConnectionState, SameStage
<1>2. /\ k.status = "active" /\ k.outFilePath /\ k.op["receive"] # "idle" /\ k.refCount # 0
      /\ k.op["write"] = "idle" /\ k.op["read"] = "idle"
  BY <1>1 DEF ConnectionOK, OperationsMatch, MeetsAssertions, Outstanding, CanDestruct,
              Results, ConnectionState, Statuses
<1>3. CASE k.op["receive"] # "ok"
  <2> DEFINE e == End(t, p)
  <2>1. a = DecRefCount(e)
    BY <1>3 DEF ReceiveHandler, ReceiveCallback
  <2> HIDE DEF a, t
  <2>2. MayClose(k, t)
    BY <1>1, <1>2, <1>3 DEF MayClose, Ran
  <2>3. e \in ConnectionState /\ SameStage(e, t) /\ e.refCount = t.refCount
        /\ (\A q \in Ops : e.op[q] = "idle" <=> t.op[q] = "idle")
        /\ (\A q \in TimerOps : e.op[q] = t.op[q])
        /\ (t.socket = "closed" => e.socket = "closed")
        /\ (p # "reset" => e.socket = "closed")
    BY <1>1, EndEffect
  <2> HIDE DEF e
  <2>4. ConnectionOK(DecRefCount(e), p) /\ HandlerStep(k, DecRefCount(e), "receive")
    BY <1>1, <1>3, <2>2, <2>3, EndingHandlerOK DEF SameStage
  <2>5. QED BY <2>1, <2>4 DEF a
<1>4. CASE k.op["receive"] = "ok"
  <2> DEFINE r == StartOp(IncRefCount(t), "receive")
  <2>1. a = DecRefCount(r)
    BY <1>4 DEF ReceiveHandler, ReceiveCallback, DoAsyncReceive, AsyncReceive
  <2> HIDE DEF a, t
  <2>2. /\ r \in ConnectionState
        /\ SameStage(r, t) /\ r.socket = t.socket /\ r.refCount = t.refCount + 1
        /\ r.op["receive"] # "idle"
        /\ \A q \in Ops \ {"receive"} : r.op[q] = t.op[q]
    BY <1>1, StartEffect
  <2> HIDE DEF r
  <2>3. /\ a \in ConnectionState
        /\ a.status = "active" /\ a.outFilePath /\ a.socket = k.socket
        /\ a.op = r.op /\ a.refCount = k.refCount
    <3>1. r.refCount # 0 /\ r.refCount - 1 = k.refCount
      BY <1>1, <1>2, <2>2 DEF ConnectionState
    <3>2. /\ a \in ConnectionState
          /\ SameStage(a, r) /\ a.socket = r.socket /\ a.op = r.op /\ a.refCount = r.refCount - 1
      BY <2>1, <2>2, <3>1, DecEffect
    <3>3. QED BY <1>1, <1>2, <2>2, <3>1, <3>2 DEF SameStage
  <2>4. ConnectionOK(a, p)
    BY <1>1, <1>2, <2>2, <2>3 DEF ConnectionOK, CountsItsReferences, OperationsMatch,
          MeetsAssertions, WillMoveOn, OutstandingCount, Holds, GreetingWriteFailed, CanDestruct
  <2>5. HandlerStep(k, a, "receive")
    BY <1>1, <1>2, <2>2, <2>3 DEF HandlerStep, StatusRank
  <2>6. QED BY <2>4, <2>5 DEF a
<1>5. QED BY <1>3, <1>4

\* The client's greeting was read, or was not, or came after the timeout.
LEMMA ReadHandlerOK ==
  ASSUME NEW k, NEW p \in PeerStates, ConnectionOK(k, p), k.op["read"] \in Results,
         NEW parses \in BOOLEAN, NEW fileMade \in BOOLEAN
  PROVE  LET a == ReadHandler(k, p, parses, fileMade)
         IN  ConnectionOK(a, p) /\ HandlerStep(k, a, "read")
<1> DEFINE t == TakeHandler(k, "read")
           a == ReadHandler(k, p, parses, fileMade)
<1>1. /\ k \in ConnectionState /\ t \in ConnectionState
      /\ SameStage(t, k) /\ t.refCount = k.refCount /\ t.socket = k.socket
      /\ t.op["read"] = "idle" /\ \A q \in Ops \ {"read"} : t.op[q] = k.op[q]
  BY TakeHandlerEffect DEF ConnectionOK
<1>2. /\ k.status = "awaiting_c_greeting" /\ k.op["read"] # "idle" /\ k.refCount # 0
      /\ k.op["write"] = "idle" /\ k.op["receive"] = "idle"
  BY <1>1 DEF ConnectionOK, OperationsMatch, MeetsAssertions, Outstanding, CanDestruct,
              Results, ConnectionState, Statuses
<1>3. CASE k.op["read"] # "ok"
  <2>1. a = DecRefCount(t)
    BY <1>3 DEF ReadHandler, ReadCallback
  <2> HIDE DEF a, t
  <2>2. ~MayClose(k, t)
    BY <1>1, <1>2, <1>3 DEF MayClose, Ran, ConnectionOK, Results
  <2>3. ConnectionOK(DecRefCount(t), p) /\ HandlerStep(k, DecRefCount(t), "read")
    BY <1>1, <1>3, <2>2, EndingHandlerOK DEF SameStage
  <2>4. QED BY <2>1, <2>3 DEF a
<1>4. CASE k.op["read"] = "ok" /\ ~parses
  <2> DEFINE e == End(t, p)
  <2>1. a = DecRefCount(e)
    BY <1>4 DEF ReadHandler, ReadCallback, CallbackReceivedGreeting
  <2> HIDE DEF a, t
  <2>2. MayClose(k, t)
    BY <1>1, <1>2, <1>4 DEF MayClose, Ran
  <2>3. e \in ConnectionState /\ SameStage(e, t) /\ e.refCount = t.refCount
        /\ (\A q \in Ops : e.op[q] = "idle" <=> t.op[q] = "idle")
        /\ (\A q \in TimerOps : e.op[q] = t.op[q])
        /\ (t.socket = "closed" => e.socket = "closed")
        /\ (p # "reset" => e.socket = "closed")
    BY <1>1, EndEffect
  <2> HIDE DEF e
  <2>4. ConnectionOK(DecRefCount(e), p) /\ HandlerStep(k, DecRefCount(e), "read")
    BY <1>1, <2>2, <2>3, EndingHandlerOK DEF SameStage
  <2>5. QED BY <2>1, <2>4 DEF a
<1>5. CASE k.op["read"] = "ok" /\ parses
  <2> DEFINE u == SetStatus(t, "active")
             b == BeginOutFiles(u)
  <2>1. /\ b \in ConnectionState
        /\ b.status = "active" /\ b.outFilePath /\ b.receivedEof = t.receivedEof
        /\ b.socket = k.socket /\ b.op = t.op /\ b.refCount = k.refCount
    <3>1. /\ u \in ConnectionState
          /\ u.status = "active" /\ u.receivedEof = t.receivedEof
          /\ u.socket = t.socket /\ u.op = t.op /\ u.refCount = t.refCount
      BY <1>1, SetStatusEffect DEF Statuses
    <3> HIDE DEF u
    <3>2. QED BY <1>1, <3>1 DEF BeginOutFiles, ConnectionState
  <2>2. CASE fileMade
    <3> DEFINE r == StartOp(IncRefCount(b), "receive")
    <3>1. a = DecRefCount(r)
      BY <1>5, <2>2 DEF ReadHandler, ReadCallback, CallbackReceivedGreeting,
            OnConnectionAccepted, BeginAsyncReceive, DoAsyncReceive, AsyncReceive
    <3> HIDE DEF a, t, b
    <3>2. /\ r \in ConnectionState
          /\ SameStage(r, b) /\ r.socket = b.socket /\ r.refCount = b.refCount + 1
          /\ r.op["receive"] # "idle"
          /\ \A q \in Ops \ {"receive"} : r.op[q] = b.op[q]
      BY <2>1, StartEffect
    <3> HIDE DEF r
    <3>3. r.refCount # 0 /\ r.refCount - 1 = k.refCount
      BY <1>1, <1>2, <2>1, <3>2 DEF ConnectionState
    <3>4. /\ a \in ConnectionState
          /\ SameStage(a, r) /\ a.socket = r.socket /\ a.op = r.op /\ a.refCount = r.refCount - 1
      BY <3>1, <3>2, <3>3, DecEffect
    <3>5. /\ a.status = "active" /\ a.outFilePath /\ a.socket = k.socket
          /\ a.op = r.op /\ a.refCount = k.refCount
      BY <2>1, <3>2, <3>3, <3>4 DEF SameStage
    <3>6. ConnectionOK(a, p)
      BY <1>1, <1>2, <2>1, <3>2, <3>4, <3>5 DEF ConnectionOK, CountsItsReferences, OperationsMatch,
            MeetsAssertions, WillMoveOn, OutstandingCount, Holds, GreetingWriteFailed, CanDestruct
    <3>7. HandlerStep(k, a, "read")
      BY <1>1, <1>2, <2>1, <3>2, <3>5 DEF HandlerStep, StatusRank
    <3>8. QED BY <3>6, <3>7 DEF a
  <2>3. CASE ~fileMade
    <3> DEFINE e == End(b, p)
    <3>1. a = DecRefCount(e)
      BY <1>5, <2>3 DEF ReadHandler, ReadCallback, CallbackReceivedGreeting,
            OnConnectionAccepted
    <3> HIDE DEF a, t, b
    <3>2. e \in ConnectionState /\ SameStage(e, b) /\ e.refCount = b.refCount
          /\ (\A q \in Ops : e.op[q] = "idle" <=> b.op[q] = "idle")
          /\ (p # "reset" => e.socket = "closed")
      BY <2>1, EndEffect
    <3> HIDE DEF e
    <3>3. e.refCount # 0 /\ e.refCount = k.refCount
      BY <1>2, <2>1, <3>2
    <3>4. /\ a \in ConnectionState
          /\ SameStage(a, e) /\ a.socket = e.socket /\ a.op = e.op /\ a.refCount = e.refCount - 1
      BY <3>1, <3>2, <3>3, DecEffect
    <3>5. /\ a.status = "active" /\ a.outFilePath /\ a.refCount = k.refCount - 1
          /\ (p # "reset" => a.socket = "closed")
          /\ \A q \in Ops : a.op[q] = "idle" <=> t.op[q] = "idle"
      BY <2>1, <3>2, <3>3, <3>4 DEF SameStage
    <3>6. CountsItsReferences(a)
      BY <1>1, <1>2, <3>5 DEF ConnectionOK, CountsItsReferences, OutstandingCount, Holds,
            GreetingWriteFailed, ConnectionState
    <3>7. OperationsMatch(a) /\ MeetsAssertions(a)
      BY <1>1, <1>2, <3>5, <3>6 DEF OperationsMatch, MeetsAssertions, CountsItsReferences,
            OutstandingCount, Holds, GreetingWriteFailed, Outstanding, CanDestruct
    <3>8. ConnectionOK(a, p)
      BY <3>4, <3>5, <3>6, <3>7 DEF ConnectionOK
    <3>9. HandlerStep(k, a, "read")
      BY <1>1, <1>2, <1>5, <3>5 DEF HandlerStep, StatusRank, MayClose, Ran
    <3>10. QED BY <3>8, <3>9 DEF a
  <2>4. QED BY <2>2, <2>3
<1>6. QED BY <1>3, <1>4, <1>5
-------------------------------------------------------------------------------
\* The reactor.

\* The completion of a socket operation leaves its handler to run.
LEMMA CompleteOK ==
  ASSUME NEW k, NEW p \in PeerStates, ConnectionOK(k, p),
         NEW o \in SocketOps, k.op[o] = "pending", NEW r \in Results
  PROVE  LET a == [k EXCEPT !.op[o] = r]
         IN  /\ ConnectionOK(a, p)
             /\ a.status = k.status /\ a.socket = k.socket
             /\ \A q \in Ops : a.op[q] = "idle" <=> k.op[q] = "idle"
<1> DEFINE a == [k EXCEPT !.op[o] = r]
<1>1. /\ k \in ConnectionState /\ a \in ConnectionState
      /\ SameStage(a, k) /\ a.socket = k.socket /\ a.refCount = k.refCount
      /\ \A q \in Ops : a.op[q] = "idle" <=> k.op[q] = "idle"
      /\ \A q \in TimerOps : a.op[q] = k.op[q]
  BY DEF ConnectionOK, ConnectionState, OpStates, Results, SameStage
<1> HIDE DEF a
<1>2. ConnectionOK(a, p)
  BY <1>1 DEF ConnectionOK, CountsItsReferences, OperationsMatch, MeetsAssertions, WillMoveOn,
              OutstandingCount, Holds, GreetingWriteFailed, Outstanding, CanDestruct, SameStage
<1>3. QED BY <1>1, <1>2 DEF a, SameStage

\* So does the expiry of the timer.
LEMMA ExpireOK ==
  ASSUME NEW k, NEW p \in PeerStates, ConnectionOK(k, p)
  PROVE  LET a == [k EXCEPT !.op = [o \in Ops |-> IF o \in TimerOps /\ @[o] = "pending"
                                                  THEN "ok" ELSE @[o]]]
         IN  /\ ConnectionOK(a, p)
             /\ a.status = k.status /\ a.socket = k.socket
             /\ \A q \in Ops : a.op[q] = "idle" <=> k.op[q] = "idle"
<1> DEFINE a == [k EXCEPT !.op = [o \in Ops |-> IF o \in TimerOps /\ @[o] = "pending"
                                                THEN "ok" ELSE @[o]]]
<1>1. /\ k \in ConnectionState /\ a \in ConnectionState
      /\ SameStage(a, k) /\ a.socket = k.socket /\ a.refCount = k.refCount
      /\ \A q \in Ops : a.op[q] = "idle" <=> k.op[q] = "idle"
      /\ \A q \in Ops : a.op[q] = k.op[q] \/ a.op[q] = "ok"
  BY DEF ConnectionOK, ConnectionState, OpStates, Results, SameStage
<1> HIDE DEF a
<1>2. ConnectionOK(a, p)
  <2>1. CountsItsReferences(a)
    BY <1>1 DEF ConnectionOK, CountsItsReferences, OutstandingCount, Holds, GreetingWriteFailed,
                SameStage
  <2>2. OperationsMatch(a)
    BY <1>1 DEF ConnectionOK, OperationsMatch, SameStage
  <2>3. MeetsAssertions(a) /\ (a.socket = "open" /\ p # "reset" => WillMoveOn(a))
    BY <1>1 DEF ConnectionOK, MeetsAssertions, WillMoveOn, Outstanding, CanDestruct, SameStage
  <2>4. QED BY <1>1, <2>1, <2>2, <2>3 DEF ConnectionOK
<1>3. QED BY <1>1, <1>2 DEF a, SameStage

\* A connection that nothing refers to has no handler left to run.
LEMMA CollectableOK ==
  ASSUME NEW k, NEW p \in PeerStates, ConnectionOK(k, p), CanDestruct(k)
  PROVE  /\ Outstanding(k) = {}
         /\ Destruct(k) \in ConnectionState
         /\ Destruct(k).status = k.status
         /\ Outstanding(Destruct(k)) = {}
<1>1. k \in ConnectionState /\ Outstanding(k) = {}
  BY DEF ConnectionOK, MeetsAssertions
<1> DEFINE c == CancelOps(k, SocketOps)
           d == [c EXCEPT !.socket = "closed"]
<1>2. c \in ConnectionState /\ SameStage(c, k) /\ \A q \in Ops : c.op[q] = "idle" <=> k.op[q] = "idle"
  BY <1>1, CancelEffect
<1>3. d = CloseSocket(k)
  BY DEF CloseSocket
<1> HIDE DEF c
<1>4. d \in ConnectionState /\ d.status = c.status /\ d.op = c.op
  BY <1>2 DEF ConnectionState
<1> HIDE DEF d
<1>5. /\ CancelOps(d, TimerOps) \in ConnectionState
      /\ SameStage(CancelOps(d, TimerOps), d)
      /\ \A q \in Ops : CancelOps(d, TimerOps).op[q] = "idle" <=> d.op[q] = "idle"
  BY <1>4, CancelEffect
<1>6. QED BY <1>1, <1>2, <1>3, <1>4, <1>5 DEF Destruct, Outstanding, SameStage
===============================================================================
