------------------------ MODULE ConnectionServicesProofs ------------------------
(***************************************************************************)
(* The theorems about ConnectionServices, for any number of clients, any   *)
(* bound on what they send and any set of faults.  ConnectionProofs has    *)
(* what one handler does to one connection; here is what a step does to    *)
(* the vector, and the invariance proofs.                                  *)
(***************************************************************************)
EXTENDS ConnectionServices, ConnectionProofs

USE ServicesAssumption DEF Ops, SocketOps, TimerOps

\* The part of the invariant that is about one connection.
LEMMA EachConnectionOK ==
  ASSUME IInv, NEW c \in connections
  PROVE  /\ c \in Ids /\ conn[c] \in ConnectionState /\ peer[c] \in PeerStates
         /\ ConnectionOK(conn[c], peer[c])
BY DEF IInv, TypeOK, RefCountExact, OperationsMatchStatus, HandlerPreconditions,
       NoStalledConnection, ConnectionOK

\* A handler runs on a connection that is in the vector.
LEMMA OutstandingIsStored ==
  ASSUME IInv, NEW c \in Ids, NEW o \in Ops, conn[c].op[o] # "idle"
  PROVE  c \in connections
BY DEF IInv, NoDanglingHandler, Outstanding

\* Every handler is a step that ConnectionProofs knows.
LEMMA HandlersKeepConnectionOK ==
  ASSUME IInv, NEW c \in Ids, Handle(c)
  PROVE  \E o \in Ops, after \in ConnectionState :
            /\ RunHandler(c, o, after)
            /\ c \in connections
            /\ ConnectionOK(after, peer[c])
            /\ HandlerStep(conn[c], after, o)
<1> DEFINE P == \E o \in Ops, after \in ConnectionState :
            /\ RunHandler(c, o, after)
            /\ c \in connections
            /\ ConnectionOK(after, peer[c])
            /\ HandlerStep(conn[c], after, o)
<1>1. ASSUME NEW o \in Ops, conn[c].op[o] \in Results
      PROVE  c \in connections /\ peer[c] \in PeerStates /\ ConnectionOK(conn[c], peer[c])
  BY <1>1, OutstandingIsStored, EachConnectionOK DEF Results
<1>2. ASSUME NEW o \in Ops, NEW after, RunHandler(c, o, after), 
             ConnectionOK(after, peer[c]), HandlerStep(conn[c], after, o)
      PROVE  P
  BY <1>1, <1>2 DEF RunHandler, ConnectionOK
<1> HIDE DEF P
<1>3. ASSUME HandleWrite(c) PROVE P
  BY <1>1, <1>2, <1>3, WriteHandlerOK DEF HandleWrite, RunHandler
<1>4. ASSUME HandleRead(c) PROVE P
  BY <1>1, <1>2, <1>4, ReadHandlerOK DEF HandleRead, RunHandler
<1>5. ASSUME HandleReceive(c) PROVE P
  BY <1>1, <1>2, <1>5, ReceiveHandlerOK DEF HandleReceive, RunHandler
<1>6. ASSUME HandleSendWait(c) PROVE P
  BY <1>1, <1>2, <1>6, SendWaitHandlerOK DEF HandleSendWait, RunHandler
<1>7. ASSUME HandleReceiveWait(c) PROVE P
  BY <1>1, <1>2, <1>7, ReceiveWaitHandlerOK DEF HandleReceiveWait, RunHandler
<1>8. P
  BY <1>3, <1>4, <1>5, <1>6, <1>7 DEF Handle
<1>9. QED BY <1>8 DEF P

\* A step of the reactor changes which handlers are queued, not which there are.
LEMMA ReactorKeepsConnectionOK ==
  ASSUME IInv, NEW c \in Ids, Reactor(c)
  PROVE  \E after \in ConnectionState :
            /\ conn' = [conn EXCEPT ![c] = after]
            /\ c \in connections
            /\ ConnectionOK(after, peer[c])
            /\ after.status = conn[c].status /\ after.socket = conn[c].socket
            /\ \A q \in Ops : after.op[q] = "idle" <=> conn[c].op[q] = "idle"
            /\ unread' \in [Ids -> 0 .. MaxUnread]
            /\ UNCHANGED <<nextConnectionId, connections, accepting, sweepTimer, io, peer>>
<1>1. ASSUME NEW o \in Ops, conn[c].op[o] = "pending"
      PROVE  c \in connections /\ peer[c] \in PeerStates /\ ConnectionOK(conn[c], peer[c])
  BY <1>1, OutstandingIsStored, EachConnectionOK
<1>2. ASSUME NEW o \in SocketOps, NEW r \in Results, Complete(c, o, r)
      PROVE  \E after \in ConnectionState :
               /\ conn' = [conn EXCEPT ![c] = after]
               /\ c \in connections
               /\ ConnectionOK(after, peer[c])
               /\ after.status = conn[c].status /\ after.socket = conn[c].socket
               /\ \A q \in Ops : after.op[q] = "idle" <=> conn[c].op[q] = "idle"
  <2> DEFINE a == [conn[c] EXCEPT !.op[o] = r]
  <2>1. conn' = [conn EXCEPT ![c] = a]
    BY <1>2 DEF Complete
  <2>2. /\ c \in connections /\ ConnectionOK(a, peer[c])
        /\ a.status = conn[c].status /\ a.socket = conn[c].socket
        /\ \A q \in Ops : a.op[q] = "idle" <=> conn[c].op[q] = "idle"
    BY <1>1, <1>2, CompleteOK DEF Complete
  <2> HIDE DEF a
  <2>3. QED BY <2>1, <2>2 DEF ConnectionOK
<1>3. ASSUME SocketCompletes(c)
      PROVE  /\ \E o \in SocketOps, r \in Results : Complete(c, o, r)
             /\ unread' \in [Ids -> 0 .. MaxUnread]
  BY <1>3 DEF SocketCompletes, WriteCompletes, InputCompletes, Results, IInv, TypeOK
<1>4. CASE SocketCompletes(c)
  BY <1>2, <1>3, <1>4 DEF Complete
<1>5. CASE TimerExpires(c)
  <2> DEFINE a == [conn[c] EXCEPT !.op = [o \in Ops |-> IF o \in TimerOps /\ @[o] = "pending"
                                                       THEN "ok" ELSE @[o]]]
  <2>1. conn' = [conn EXCEPT ![c] = a]
    BY <1>5 DEF TimerExpires
  <2>2. /\ c \in connections /\ ConnectionOK(a, peer[c])
        /\ a.status = conn[c].status /\ a.socket = conn[c].socket
        /\ \A q \in Ops : a.op[q] = "idle" <=> conn[c].op[q] = "idle"
    BY <1>1, <1>5, ExpireOK DEF TimerExpires
  <2> HIDE DEF a
  <2>3. QED BY <1>5, <2>1, <2>2 DEF ConnectionOK, TimerExpires, IInv, TypeOK
<1>6. QED BY <1>4, <1>5 DEF Reactor

\* A step that replaces the state of one stored connection by a good one.
LEMMA OneConnectionChanges ==
  ASSUME IInv, NEW c \in connections, NEW after, ConnectionOK(after, peer[c]),
         conn' = [conn EXCEPT ![c] = after],
         unread' \in [Ids -> 0 .. MaxUnread],
         UNCHANGED <<nextConnectionId, connections, accepting, sweepTimer, io, peer>>
  PROVE  IInv'
<1>1. c \in Ids /\ after \in ConnectionState /\ conn \in [Ids -> ConnectionState]
  BY EachConnectionOK DEF ConnectionOK, IInv, TypeOK
<1>2. conn'[c] = after /\ \A x \in Ids \ {c} : conn'[x] = conn[x]
  BY <1>1
<1>3. TypeOK'
  BY <1>1 DEF IInv, TypeOK
<1>4. NoDanglingHandler'
  BY <1>2 DEF IInv, NoDanglingHandler
<1>5. \A x \in connections' : ConnectionOK(conn'[x], peer'[x])
  BY <1>2, EachConnectionOK
<1>6. \A x \in Ids : x >= nextConnectionId' =>
        x \notin connections' /\ conn'[x].status = "send_s_greeting"
  BY <1>2 DEF IInv
<1>7. QED BY <1>3, <1>4, <1>5, <1>6 DEF IInv, RefCountExact, OperationsMatchStatus,
             HandlerPreconditions, NoStalledConnection, ConnectionOK

\* Before the services run: nothing is stored and nothing is outstanding.
LEMMA InitIInv == Init => IInv
<1> SUFFICES ASSUME Init PROVE IInv
  OBVIOUS
<1>1. TypeOK
  <2>1. NewConnection \in ConnectionState
    BY DEF NewConnection, ConnectionState, Statuses, OpStates
  <2>2. nextConnectionId \in 1 .. MaxConnections + 1 /\ unread \in [Ids -> 0 .. MaxUnread]
    BY ServicesAssumption DEF Init
  <2>3. accepting \in BOOLEAN
    BY DEF Init
  <2>4. QED BY <2>1, <2>2, <2>3 DEF Init, TypeOK, PeerStates
<1>2. NoDanglingHandler
  BY DEF Init, NoDanglingHandler, NewConnection, Outstanding
<1>3. \A c \in Ids : conn[c].status = "send_s_greeting"
  BY DEF Init, NewConnection
<1>4. QED BY <1>1, <1>2, <1>3 DEF Init, IInv, RefCountExact, OperationsMatchStatus,
             HandlerPreconditions, NoStalledConnection

\* The accept that DoAsyncAccept starts, or fails to start.
LEMMA DoAsyncAcceptType == DoAsyncAccept => accepting' \in BOOLEAN
BY DEF DoAsyncAccept

\* The accept handler stores a connection that has begun its handshake.
LEMMA AcceptClientIInv == IInv /\ AcceptClient => IInv'
<1> SUFFICES ASSUME IInv, AcceptClient PROVE IInv'
  OBVIOUS
<1> DEFINE n == nextConnectionId
           k == HandleAccept(NewConnection)
<1>1. /\ n \in Ids /\ n \in Int /\ n' = n + 1 /\ connections' = connections \cup {n}
      /\ conn' = [conn EXCEPT ![n] = k] /\ conn \in [Ids -> ConnectionState]
      /\ peer[n] \in PeerStates /\ peer' = peer
      /\ n' \in 1 .. MaxConnections + 1
  <2>1. n \in 1 .. MaxConnections
    BY DEF AcceptClient, Ids
  <2>2. QED BY <2>1 DEF IInv, TypeOK, AcceptClient, Ids
<1>2. ConnectionOK(k, peer[n])
  BY <1>1, HandleAcceptOK
<1> HIDE DEF k, n
<1>3. conn'[n] = k /\ \A x \in Ids \ {n} : conn'[x] = conn[x]
  BY <1>1
<1>4. TypeOK'
  BY <1>1, <1>2, DoAsyncAcceptType DEF IInv, TypeOK, AcceptClient, ConnectionOK, n
<1>5. NoDanglingHandler'
  BY <1>1, <1>3 DEF IInv, NoDanglingHandler
<1>6. \A x \in connections' : ConnectionOK(conn'[x], peer'[x])
  BY <1>1, <1>2, <1>3, EachConnectionOK
<1>7. \A x \in Ids : x >= n' => x \notin connections' /\ conn'[x].status = "send_s_greeting"
  BY <1>1, <1>3 DEF IInv, Ids, n
<1>8. QED BY <1>4, <1>5, <1>6, <1>7 DEF IInv, RefCountExact, OperationsMatchStatus,
             HandlerPreconditions, NoStalledConnection, ConnectionOK, n

\* The collector destroys connections and their ids are not used again.
LEMMA SweepIInv == IInv /\ Sweep => IInv'
<1> SUFFICES ASSUME IInv, Sweep PROVE IInv'
  OBVIOUS
<1>1. \A x \in Swept : /\ x \in Ids /\ Destruct(conn[x]) \in ConnectionState
                       /\ Destruct(conn[x]).status = conn[x].status
                       /\ Outstanding(Destruct(conn[x])) = {}
  BY EachConnectionOK, CollectableOK DEF Swept
<1>2. \A x \in Ids : conn'[x] = IF x \in Swept THEN Destruct(conn[x]) ELSE conn[x]
  BY DEF Sweep
<1>3. connections' = connections \ Swept /\ peer' = peer /\ nextConnectionId' = nextConnectionId
  BY DEF Sweep
<1>4. TypeOK'
  BY <1>1, <1>2 DEF IInv, TypeOK, Sweep
<1>5. NoDanglingHandler'
  BY <1>1, <1>2, <1>3 DEF IInv, NoDanglingHandler
<1>6. \A x \in connections' : ConnectionOK(conn'[x], peer'[x])
  BY <1>2, <1>3, EachConnectionOK
<1>7. \A x \in Ids : x >= nextConnectionId' =>
        x \notin connections' /\ conn'[x].status = "send_s_greeting"
  BY <1>1, <1>2, <1>3 DEF IInv
<1>8. QED BY <1>4, <1>5, <1>6, <1>7 DEF IInv, RefCountExact, OperationsMatchStatus,
             HandlerPreconditions, NoStalledConnection, ConnectionOK

\* A client acts on its own end only.
LEMMA ClientIInv == ASSUME NEW c \in Ids PROVE IInv /\ Client(c) => IInv'
<1> SUFFICES ASSUME IInv, Client(c) PROVE IInv'
  OBVIOUS
<1>1. /\ UNCHANGED <<nextConnectionId, conn, connections, accepting, sweepTimer, io>>
      /\ peer' \in [Ids -> PeerStates] /\ unread' \in [Ids -> 0 .. MaxUnread]
      /\ \A x \in Ids : peer'[x] # "reset" => peer[x] # "reset"
  BY DEF Client, ClientSends, ClientCloses, ClientResets, IInv, TypeOK, PeerStates
<1>2. NoStalledConnection'
  BY <1>1 DEF IInv, NoStalledConnection, TypeOK
<1>3. QED BY <1>1, <1>2 DEF IInv, TypeOK, NoDanglingHandler, RefCountExact,
             OperationsMatchStatus, HandlerPreconditions

\* Every step of the services, the reactor and the clients keeps the invariant.
LEMMA NextIInv == IInv /\ [Next]_vars => IInv'
<1> SUFFICES ASSUME IInv, [Next]_vars PROVE IInv'
  OBVIOUS
<1>1. CASE AcceptClient
  BY <1>1, AcceptClientIInv
<1>2. CASE AcceptFails \/ AcceptThrows
  <2>1. /\ UNCHANGED <<conn, connections, sweepTimer, peer, unread>>
        /\ nextConnectionId' \in {nextConnectionId, nextConnectionId + 1}
        /\ nextConnectionId' \in 1 .. MaxConnections + 1
        /\ accepting' \in BOOLEAN /\ io' \in {"running", "stopped", "terminated"}
    BY <1>2, DoAsyncAcceptType DEF AcceptFails, AcceptThrows, IInv, TypeOK, Ids
  <2>2. \A x \in Ids : x >= nextConnectionId' => x >= nextConnectionId
    BY <2>1 DEF IInv, TypeOK, Ids
  <2>3. QED BY <2>1, <2>2 DEF IInv, TypeOK, NoDanglingHandler, RefCountExact,
               OperationsMatchStatus, HandlerPreconditions, NoStalledConnection
<1>3. CASE Sweep
  BY <1>3, SweepIInv
<1>4. ASSUME NEW c \in Ids, Handle(c) PROVE IInv'
  BY <1>4, HandlersKeepConnectionOK, OneConnectionChanges DEF RunHandler, IInv, TypeOK
<1>5. ASSUME NEW c \in Ids, Reactor(c) PROVE IInv'
  BY <1>5, ReactorKeepsConnectionOK, OneConnectionChanges
<1>6. ASSUME NEW c \in Ids, Client(c) PROVE IInv'
  BY <1>6, ClientIInv
<1>7. CASE UNCHANGED vars
  BY <1>7 DEF vars, IInv, TypeOK, NoDanglingHandler, RefCountExact, OperationsMatchStatus,
              HandlerPreconditions, NoStalledConnection
<1>8. QED BY <1>1, <1>2, <1>3, <1>4, <1>5, <1>6, <1>7 DEF Next

-------------------------------------------------------------------------------
\* The inductive invariant holds for any number of clients and any faults.
THEOREM Invariance == Spec => []IInv
BY InitIInv, NextIInv, PTL DEF Spec

\* Type correctness. That a count never drops below zero (the assertion in
\* DecRefCount) is part of it, and needs the whole of the invariant.
THEOREM TypeCorrectness == Spec => []TypeOK
<1>1. IInv => TypeOK
  BY DEF IInv
<1>2. QED BY <1>1, Invariance, PTL

\* No handler outlives the connection it captured by reference.
THEOREM NoUseAfterFree == Spec => []NoDanglingHandler
<1>1. IInv => NoDanglingHandler
  BY DEF IInv
<1>2. QED BY <1>1, Invariance, PTL

\* The counts kept by hand are right, or too high by the one reference that a
\* failed greeting write leaks.
THEOREM ReferencesCounted == Spec => []RefCountExact
<1>1. IInv => RefCountExact
  BY DEF IInv
<1>2. QED BY <1>1, Invariance, PTL

\* A connection has only the operations of its stage, and that stage's timeout
\* is never cancelled.
THEOREM OperationsFollowStatus == Spec => []OperationsMatchStatus
<1>1. IInv => OperationsMatchStatus
  BY DEF IInv
<1>2. QED BY <1>1, Invariance, PTL

\* The assertions of the handlers hold whenever one of them is queued.
THEOREM AssertionsHold == Spec => []HandlerPreconditions
<1>1. IInv => HandlerPreconditions
  BY DEF IInv
<1>2. QED BY <1>1, Invariance, PTL

\* No stage of a working connection is without the operation that ends it.
THEOREM NothingStalls == Spec => []NoStalledConnection
<1>1. IInv => NoStalledConnection
  BY DEF IInv
<1>2. QED BY <1>1, Invariance, PTL

\* The accept loop goes on for good, whatever clients and failing accepts do, if
\* no client is gone before it is accepted and no accept fails to be started:
\* these two faults are all that can end it.
THEOREM AcceptLoopGoesOn ==
  ASSUME "early_reset" \notin Faults, "accept_setup" \notin Faults
  PROVE  Spec => []AcceptsUntilStopped
<1>1. Init => AcceptsUntilStopped
  BY DEF Init, AcceptsUntilStopped
<1>2. AcceptsUntilStopped /\ [Next]_vars => AcceptsUntilStopped'
  <2> SUFFICES ASSUME AcceptsUntilStopped, [Next]_vars PROVE AcceptsUntilStopped'
    OBVIOUS
  <2>1. CASE AcceptClient \/ AcceptFails
    BY <2>1 DEF AcceptClient, AcceptFails, DoAsyncAccept, AcceptsUntilStopped
  <2>2. ~AcceptThrows
    BY DEF AcceptThrows
  <2>3. CASE Sweep \/ UNCHANGED vars
    BY <2>3 DEF Sweep, vars, AcceptsUntilStopped
  <2>4. ASSUME NEW c \in Ids, Handle(c) \/ Reactor(c) \/ Client(c)
        PROVE  UNCHANGED <<accepting, io>>
    BY <2>4 DEF Handle, HandleWrite, HandleRead, HandleReceive, HandleSendWait, HandleReceiveWait,
                RunHandler, Reactor, SocketCompletes, WriteCompletes, InputCompletes, Complete,
                TimerExpires, Client, ClientSends, ClientCloses, ClientResets
  <2>5. QED BY <2>1, <2>2, <2>3, <2>4 DEF Next, AcceptsUntilStopped
<1>3. QED BY <1>1, <1>2, PTL DEF Spec
-------------------------------------------------------------------------------
(***************************************************************************)
(* What a step may do to a connection.                                     *)
(***************************************************************************)

\* Only a handler advances a status, and only as HandlerStep allows.
LEMMA StatusStep ==
  ASSUME IInv, [Next]_vars, NEW c \in Ids
  PROVE  StatusRank(conn'[c].status) >= StatusRank(conn[c].status)
<1> DEFINE G(x) == StatusRank(conn'[x].status) >= StatusRank(conn[x].status)
<1>1. conn[c] \in ConnectionState /\ conn \in [Ids -> ConnectionState]
  BY DEF IInv, TypeOK
<1>2. ASSUME conn'[c].status = conn[c].status PROVE G(c)
  BY <1>1, <1>2 DEF StatusRank, ConnectionState, Statuses
<1>3. CASE AcceptClient
  <2>1. conn'[c].status = conn[c].status
    BY <1>1, <1>3, HandleAcceptOK DEF AcceptClient, IInv, TypeOK, PeerStates
  <2>2. QED BY <1>2, <2>1
<1>4. CASE Sweep
  <2>1. conn'[c].status = conn[c].status
    BY <1>4, EachConnectionOK, CollectableOK DEF Sweep, Swept
  <2>2. QED BY <1>2, <2>1
<1>5. ASSUME NEW x \in Ids, Handle(x) PROVE G(c)
  <2>1. PICK o \in Ops, after \in ConnectionState :
           conn' = [conn EXCEPT ![x] = after] /\ HandlerStep(conn[x], after, o)
    BY <1>5, HandlersKeepConnectionOK DEF RunHandler
  <2>2. CASE x = c
    BY <1>1, <2>1, <2>2 DEF HandlerStep
  <2>3. CASE x # c
    BY <1>1, <1>2, <2>1, <2>3
  <2>4. QED BY <2>2, <2>3
<1>6. ASSUME NEW x \in Ids, Reactor(x) PROVE G(c)
  <2>1. conn'[c].status = conn[c].status
    BY <1>1, <1>6, ReactorKeepsConnectionOK
  <2>2. QED BY <1>2, <2>1
<1>7. ASSUME UNCHANGED conn PROVE G(c)
  BY <1>2, <1>7
<1>8. QED
  BY <1>3, <1>4, <1>5, <1>6, <1>7
     DEF Next, vars, AcceptFails, AcceptThrows, Client, ClientSends, ClientCloses, ClientResets

\* The assertion in SetStatus: a status is only ever replaced by a later one.
THEOREM StatusAdvances == Spec => StatusOnlyAdvances
<1>1. IInv /\ [Next]_vars
        => [\A c \in Ids : StatusRank(conn'[c].status) >= StatusRank(conn[c].status)]_vars
  BY StatusStep
<1>2. QED BY <1>1, Invariance, PTL DEF Spec, StatusOnlyAdvances

\* Only the handlers that MayClose names close the socket of a connection
\* that stays.
LEMMA CloseStep ==
  ASSUME IInv, [Next]_vars, NEW c \in connections, c \in connections',
         conn[c].socket = "open", conn'[c].socket = "closed"
  PROVE  MayClose(conn[c], conn'[c])
<1>1. c \in Ids /\ conn[c] \in ConnectionState /\ conn \in [Ids -> ConnectionState]
  BY DEF IInv, TypeOK
<1>2. ASSUME conn'[c] = conn[c] PROVE FALSE
  BY <1>2
<1>3. CASE AcceptClient
  <2>1. nextConnectionId \in Ids /\ nextConnectionId # c
    BY <1>3 DEF AcceptClient, IInv, Ids
  <2>2. QED BY <1>1, <1>2, <1>3, <2>1 DEF AcceptClient
<1>4. CASE Sweep
  BY <1>1, <1>2, <1>4 DEF Sweep
<1>5. ASSUME NEW x \in Ids, Handle(x) PROVE MayClose(conn[c], conn'[c])
  <2>1. PICK o \in Ops, after \in ConnectionState :
           conn' = [conn EXCEPT ![x] = after] /\ HandlerStep(conn[x], after, o)
    BY <1>5, HandlersKeepConnectionOK DEF RunHandler
  <2>2. CASE x = c
    BY <1>1, <2>1, <2>2 DEF HandlerStep
  <2>3. CASE x # c
    BY <1>1, <1>2, <2>1, <2>3
  <2>4. QED BY <2>2, <2>3
<1>6. ASSUME NEW x \in Ids, Reactor(x) PROVE FALSE
  BY <1>1, <1>6, ReactorKeepsConnectionOK
<1>7. ASSUME UNCHANGED conn PROVE FALSE
  BY <1>7
<1>8. QED
  BY <1>3, <1>4, <1>5, <1>6, <1>7
     DEF Next, vars, AcceptFails, AcceptThrows, Client, ClientSends, ClientCloses, ClientResets

\* Sockets are closed for the reasons the code gives and no other: never by a
\* timeout that was queued but is stale by the time it runs.
THEOREM ClosedForCause == Spec => ClosedOnlyForCause
<1>1. IInv /\ [Next]_vars
        => [\A c \in connections \cap connections' :
               conn[c].socket = "open" /\ conn'[c].socket = "closed"
                   => MayClose(conn[c], conn'[c])]_vars
  BY CloseStep
<1>2. QED BY <1>1, Invariance, PTL DEF Spec, ClosedOnlyForCause

-------------------------------------------------------------------------------
(***************************************************************************)
(* The services implement AsyncLifetime.                                   *)
(***************************************************************************)
usersBar == [c \in Ids |-> Outstanding(conn[c])]
freedBar == (1 .. nextConnectionId - 1) \ connections

\* The handlers that point to a connection are handlers.
LEMMA OutstandingInOps == \A this : Outstanding(this) \in SUBSET Ops
BY DEF Outstanding

\* No object and no handler to begin with.
LEMMA RefinesInit == Init => Lifetime!LifetimeInit
BY DEF Init, Lifetime!LifetimeInit, NewConnection, Outstanding

\* The steps that leave every handler and every object as they are.
LEMMA RefinesStutter ==
  ASSUME nextConnectionId' = nextConnectionId, connections' = connections,
         \A c \in Ids : Outstanding(conn'[c]) = Outstanding(conn[c])
  PROVE  UNCHANGED Lifetime!lifetimeVars
BY DEF Lifetime!lifetimeVars

\* A handler of c is a Run of c: it hands c on to the operations it started.
LEMMA RefinesHandle ==
  ASSUME IInv, NEW c \in Ids, Handle(c)
  PROVE  Lifetime!LifetimeNext
<1>1. PICK o \in Ops, after \in ConnectionState :
         /\ RunHandler(c, o, after) /\ c \in connections
         /\ HandlerStep(conn[c], after, o)
  BY HandlersKeepConnectionOK
<1>2. /\ nextConnectionId' = nextConnectionId /\ connections' = connections
      /\ conn' = [conn EXCEPT ![c] = after] /\ conn \in [Ids -> ConnectionState]
      /\ o \in Outstanding(conn[c])
  BY <1>1 DEF RunHandler, IInv, TypeOK, Outstanding, Results
<1> DEFINE hs == Outstanding(after)
<1>3. Outstanding(conn[c]) \ {o} \subseteq hs
  BY <1>1 DEF HandlerStep, Outstanding
<1>4. \A x \in Ids : Outstanding(conn'[x]) = IF x = c THEN hs ELSE Outstanding(conn[x])
  BY <1>2
<1>5. Lifetime!HandsOn(c)
  BY <1>3, <1>4, OutstandingInOps DEF Lifetime!HandsOn
<1>6. Lifetime!Run(c, o)
  BY <1>1, <1>2, <1>3, <1>4, <1>5 DEF Lifetime!Run
<1>7. QED BY <1>6 DEF Lifetime!LifetimeNext

\* The collector collects what no handler points to.
LEMMA RefinesSweep == IInv /\ Sweep => Lifetime!LifetimeNext
<1> SUFFICES ASSUME IInv, Sweep PROVE Lifetime!LifetimeNext
  OBVIOUS
<1>1. \A x \in Swept : /\ x \in Ids /\ Outstanding(conn[x]) = {}
                       /\ Outstanding(Destruct(conn[x])) = {}
  BY EachConnectionOK, CollectableOK DEF Swept
<1>2. /\ connections' = connections \ Swept /\ nextConnectionId' = nextConnectionId
      /\ Swept \subseteq connections /\ connections \subseteq Ids
      /\ \A x \in Ids : conn'[x] = IF x \in Swept THEN Destruct(conn[x]) ELSE conn[x]
  BY DEF Sweep, Swept, IInv, TypeOK
<1>3. usersBar' = usersBar
  BY <1>1, <1>2 DEF usersBar
<1>4. \A x \in connections : x \in 1 .. nextConnectionId - 1
  BY <1>2 DEF IInv, TypeOK, Ids
<1>5. freedBar' = freedBar \cup Swept
  BY <1>2, <1>4 DEF freedBar
<1>6. Lifetime!Collect
  BY <1>1, <1>2, <1>3, <1>5 DEF Lifetime!Collect, usersBar, freedBar
<1>7. QED BY <1>2, <1>6 DEF Lifetime!LifetimeNext

\* An accepted client is a new object with its first two handlers.
LEMMA RefinesAccept == IInv /\ AcceptClient => Lifetime!LifetimeNext
<1> SUFFICES ASSUME IInv, AcceptClient PROVE Lifetime!LifetimeNext
  OBVIOUS
<1> DEFINE n == nextConnectionId
<1>1. /\ n \in Ids /\ n \in Int /\ n >= 1 /\ n' = n + 1 /\ connections' = connections \cup {n}
      /\ conn' = [conn EXCEPT ![n] = HandleAccept(NewConnection)]
      /\ conn \in [Ids -> ConnectionState] /\ n \notin connections
  BY DEF AcceptClient, IInv, TypeOK, Ids
<1>2. freedBar' = freedBar /\ n \notin freedBar
  BY <1>1 DEF freedBar
<1>3. \A x \in Ids \ {n} : Outstanding(conn'[x]) = Outstanding(conn[x])
  BY <1>1
<1>4. Lifetime!HandsOn(n)
  BY <1>3, OutstandingInOps DEF Lifetime!HandsOn
<1>5. Lifetime!Make(n)
  BY <1>1, <1>2, <1>4 DEF Lifetime!Make, freedBar
<1>6. QED BY <1>1, <1>5 DEF Lifetime!LifetimeNext

\* A constructor that throws wastes its id.
LEMMA RefinesWaste == IInv /\ AcceptThrows => Lifetime!LifetimeNext
<1> SUFFICES ASSUME IInv, AcceptThrows PROVE Lifetime!LifetimeNext
  OBVIOUS
<1> DEFINE n == nextConnectionId
<1>1. /\ n \in Ids /\ n \in Int /\ n >= 1 /\ n' = n + 1 /\ n \notin connections
      /\ UNCHANGED <<conn, connections>>
  BY DEF AcceptThrows, IInv, TypeOK, Ids
<1>2. freedBar' = freedBar \cup {n} /\ n \notin freedBar
  BY <1>1 DEF freedBar
<1>3. Lifetime!Waste(n)
  BY <1>1, <1>2 DEF Lifetime!Waste, freedBar
<1>4. QED BY <1>1, <1>3 DEF Lifetime!LifetimeNext

\* Every step maps to a step of AsyncLifetime or to a stutter.
LEMMA RefinesNext ==
  ASSUME IInv, [Next]_vars
  PROVE  [Lifetime!LifetimeNext]_Lifetime!lifetimeVars
<1>1. CASE AcceptClient \/ AcceptThrows \/ Sweep
  BY <1>1, RefinesAccept, RefinesWaste, RefinesSweep
<1>2. ASSUME NEW c \in Ids, Handle(c) PROVE Lifetime!LifetimeNext
  BY <1>2, RefinesHandle
<1>3. ASSUME NEW c \in Ids, Reactor(c) PROVE UNCHANGED Lifetime!lifetimeVars
  <2>1. PICK after \in ConnectionState :
           /\ conn' = [conn EXCEPT ![c] = after] /\ conn \in [Ids -> ConnectionState]
           /\ \A q \in Ops : after.op[q] = "idle" <=> conn[c].op[q] = "idle"
           /\ nextConnectionId' = nextConnectionId /\ connections' = connections
    BY <1>3, ReactorKeepsConnectionOK DEF IInv, TypeOK
  <2>2. \A x \in Ids : Outstanding(conn'[x]) = Outstanding(conn[x])
    BY <2>1 DEF Outstanding
  <2>3. QED BY <2>1, <2>2, RefinesStutter
<1>4. ASSUME UNCHANGED <<nextConnectionId, conn, connections>>
      PROVE  UNCHANGED Lifetime!lifetimeVars
  BY <1>4, RefinesStutter
<1>5. QED
  BY <1>1, <1>2, <1>3, <1>4
     DEF Next, vars, AcceptFails, Client, ClientSends, ClientCloses, ClientResets

\* Connections, handlers and collector keep the lifetime discipline for any
\* number of clients.
THEOREM LifetimeImplemented == Spec => ImplementsLifetime
BY RefinesInit, RefinesNext, Invariance, PTL
   DEF Spec, ImplementsLifetime, Lifetime!LifetimeSpec
===============================================================================
