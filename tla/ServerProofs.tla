------------------------------ MODULE ServerProofs ------------------------------
(***************************************************************************)
(* The two threads, for any number of clients and every fault: the         *)
(* inductive invariant of the services holds until ~NetData, whatever      *)
(* main's thread does, and what is left of them is destroyed after their   *)
(* thread; and main keeps to the stages of Lifecycle.                      *)
(***************************************************************************)
EXTENDS Server, ConnectionServicesProofs

\* Main's thread is past the join only when the services thread has returned
\* and taken what it had outstanding with it.
Joined ==
    /\ mainPc \in {"destroy", "goodbye", "done"} => servicesPc = "returned"
    /\ servicesPc = "returned" => ~accepting /\ ~sweepTimer
    /\ process = "exited" <=> mainPc = "done"
    /\ mainPc = "goodbye" => connections = {}

\* ~NetData leaves handlers queued for connections that are gone.
SInv ==
    /\ ServerTypeOK
    /\ process = "up" /\ mainPc # "goodbye" => IInv
    /\ Joined

-------------------------------------------------------------------------------
\* Destroying a connection leaves its record one of a connection.
LEMMA DestructType ==
  ASSUME NEW this \in ConnectionState
  PROVE  Destruct(this) \in ConnectionState
<1>1. ASSUME NEW k \in ConnectionState, NEW os
      PROVE  CancelOps(k, os) \in ConnectionState
  BY <1>1 DEF CancelOps, ConnectionState, OpStates, Results
<1>2. ASSUME NEW k \in ConnectionState
      PROVE  CloseSocket(k) \in ConnectionState
  <2>1. CancelOps(k, SocketOps) \in ConnectionState
    BY <1>1
  <2>2. QED BY <2>1 DEF CloseSocket, ConnectionState
<1>3. QED BY <1>1, <1>2 DEF Destruct

\* IInv says nothing of the io_context, the accept and the sweep but their types.
LEMMA IInvOfConnections ==
  ASSUME IInv, UNCHANGED <<nextConnectionId, conn, connections, peer, unread>>,
         io' \in {"running", "stopped", "terminated"},
         accepting' \in BOOLEAN, sweepTimer' \in BOOLEAN
  PROVE  IInv'
BY DEF IInv, TypeOK, NoDanglingHandler, RefCountExact, OperationsMatchStatus, HandlerPreconditions,
       NoStalledConnection

LEMMA SInvInit == ServerInit => SInv
<1> SUFFICES ASSUME ServerInit PROVE SInv
  OBVIOUS
<1>1. TypeOK
  <2>1. NewConnection \in ConnectionState
    BY DEF NewConnection, ConnectionState, Statuses, OpStates
  <2>2. nextConnectionId \in 1 .. MaxConnections + 1 /\ unread \in [Ids -> 0 .. MaxUnread]
    BY ServicesAssumption DEF ServerInit
  <2>3. conn \in [Ids -> ConnectionState] /\ peer \in [Ids -> PeerStates]
    BY <2>1 DEF ServerInit, PeerStates
  <2>4. QED BY <2>2, <2>3 DEF ServerInit, TypeOK
<1>2. IInv
  BY <1>1 DEF ServerInit, IInv, NoDanglingHandler, NewConnection, Outstanding, RefCountExact,
         OperationsMatchStatus, HandlerPreconditions, NoStalledConnection
<1>3. ServerTypeOK /\ Joined
  BY <1>1 DEF ServerInit, ServerTypeOK, Joined
<1>4. QED BY <1>2, <1>3 DEF SInv

\* A step of the services or of a client, taken while there are connections.
LEMMA ServicesStep ==
  ASSUME SInv, process = "up", mainPc # "goodbye", Next,
         UNCHANGED <<build, threadVars>>, handling' \in BOOLEAN,
         servicesPc = "returned" => UNCHANGED <<accepting, sweepTimer>>
  PROVE  SInv'
<1>1. IInv'
  BY NextIInv DEF SInv
<1>2. TypeOK'
  BY <1>1 DEF IInv
<1>3. QED BY <1>1, <1>2 DEF SInv, ServerTypeOK, Joined, threadVars

\* ~NetData: after it there are no connections, or the process is not up.
LEMMA DestroyStep == SInv /\ DestroyNetData => SInv'
<1> SUFFICES ASSUME SInv, DestroyNetData PROVE SInv'
  OBVIOUS
<1>1. TypeOK /\ process = "up" /\ mainPc = "destroy"
  BY DEF SInv, ServerTypeOK, DestroyNetData
<1>2. \/ process' = "aborted" /\ mainPc' = "destroy"
      \/ process' = "up" /\ mainPc' = "goodbye" /\ connections' = {}
  BY <1>1 DEF DestroyNetData
<1>3. conn' \in [Ids -> ConnectionState] /\ connections' \subseteq Ids
  BY <1>1, DestructType DEF DestroyNetData, TypeOK
<1>4. ServerTypeOK'
  BY <1>1, <1>2, <1>3 DEF SInv, ServerTypeOK, TypeOK, DestroyNetData
<1>5. Joined'
  BY <1>1, <1>2 DEF SInv, Joined, DestroyNetData
<1>6. QED BY <1>2, <1>4, <1>5 DEF SInv

LEMMA SInvStep == SInv /\ [ServerNext]_serverVars => SInv'
<1> SUFFICES ASSUME SInv, [ServerNext]_serverVars PROVE SInv'
  OBVIOUS
<1> DEFINE Quiet == UNCHANGED <<nextConnectionId, conn, connections, peer, unread>>
\* The steps that leave the connections alone: IInv is kept.
<1>1. ASSUME process = "up", mainPc # "goodbye", Quiet, ServerTypeOK', Joined'
      PROVE  SInv'
  BY <1>1, IInvOfConnections DEF SInv, ServerTypeOK, TypeOK
<1>2. ASSUME Quiet, io' \in {"running", "stopped", "terminated"},
             accepting' \in BOOLEAN, sweepTimer' \in BOOLEAN
      PROVE  TypeOK'
  BY <1>2 DEF SInv, ServerTypeOK, TypeOK
<1>3. CASE HandleTerminalCommands
  <2>1. /\ Quiet
        /\ UNCHANGED <<io, accepting, sweepTimer, build, process, servicesPc, stopped, handling>>
    BY <1>3 DEF HandleTerminalCommands, vars
  <2>2. process = "up" /\ mainPc = "command" /\ mainPc' = "stop" /\ servicesExit' = TRUE
    BY <1>3 DEF HandleTerminalCommands, Main
  <2>3. QED BY <1>1, <1>2, <2>1, <2>2 DEF SInv, ServerTypeOK, TypeOK, Joined
<1>4. CASE StopContext
  BY <1>1, <1>2, <1>4 DEF StopContext, Main, vars, SInv, ServerTypeOK, TypeOK, Joined
<1>5. CASE JoinServices
  BY <1>1, <1>2, <1>5 DEF JoinServices, Main, vars, SInv, ServerTypeOK, TypeOK, Joined
<1>6. CASE DestroyNetData \/ Goodbye
  <2>1. CASE DestroyNetData
    BY <2>1, DestroyStep
  <2>2. CASE Goodbye
    BY <1>2, <2>2 DEF Goodbye, Main, vars, SInv, ServerTypeOK, TypeOK, Joined
  <2>3. QED BY <1>6, <2>1, <2>2
<1>7. CASE CheckServicesExit
  <2>1. Quiet /\ UNCHANGED <<accepting, sweepTimer, io, build, mainPc, servicesExit>>
    BY <1>7 DEF CheckServicesExit, vars
  <2>2. process = "up" /\ servicesPc = "check" /\ mainPc \notin {"destroy", "goodbye", "done"}
    BY <1>7 DEF CheckServicesExit, Services, SInv, Joined
  <2>3. process' \in {"up", "aborted", "undefined"} /\ servicesPc' \in {"check", "try"}
    BY <1>7, <2>2 DEF CheckServicesExit
  <2>4. UNCHANGED <<stopped, handling>>
    BY <1>7 DEF CheckServicesExit
  <2>5. QED BY <1>1, <1>2, <2>1, <2>2, <2>3, <2>4 DEF SInv, ServerTypeOK, TypeOK, Joined
<1>8. CASE MakeAcceptor
  BY <1>1, <1>2, <1>8 DEF MakeAcceptor, Services, vars, SInv, ServerTypeOK, TypeOK, Joined
<1>9. CASE StartServices
  BY <1>1, <1>2, <1>9 DEF StartServices, DoAsyncAccept, Services, SInv, ServerTypeOK, TypeOK, Joined
<1>10. CASE RunServices
  <2>1. Next /\ process = "up" /\ servicesPc = "run" /\ mainPc # "goodbye"
    BY <1>10 DEF RunServices, Services, Next, SInv, Joined
  <2>2. QED BY <1>10, <2>1, ServicesStep DEF RunServices
<1>11. CASE TakeNext \/ ReactorWoken \/ ServicesTerminate
  <2>1. /\ Quiet /\ UNCHANGED <<io, accepting, sweepTimer, build, mainPc, servicesPc,
                                servicesExit, stopped>>
        /\ process = "up" /\ servicesPc = "run"
    BY <1>11 DEF TakeNext, ReactorWoken, ServicesTerminate, Services, threadVars, vars
  <2>2. process' \in {"up", "aborted"} /\ handling' \in BOOLEAN
    BY <1>11, <2>1 DEF TakeNext, ReactorWoken, ServicesTerminate, threadVars, SInv, ServerTypeOK
  <2>3. QED BY <1>1, <1>2, <2>1, <2>2 DEF SInv, ServerTypeOK, TypeOK, Joined
<1>12. CASE ServicesReturn
  BY <1>1, <1>2, <1>12 DEF ServicesReturn, Services, SInv, ServerTypeOK, TypeOK, Joined
<1>13. CASE ClientActs
  <2>1. Next /\ process = "up" /\ connections # {}
    BY <1>13 DEF ClientActs, Next, Client, ClientSends, ClientCloses, ClientResets, Connected
  <2>2. UNCHANGED <<accepting, sweepTimer>>
    BY <1>13 DEF ClientActs, Client, ClientSends, ClientCloses, ClientResets
  <2>3. mainPc # "goodbye" /\ handling' \in BOOLEAN
    BY <1>13, <2>1 DEF SInv, ServerTypeOK, Joined, ClientActs
  <2>4. QED BY <1>13, <2>1, <2>2, <2>3, ServicesStep DEF ClientActs
<1>14. CASE UNCHANGED serverVars
  <2>1. /\ Quiet
        /\ UNCHANGED <<io, accepting, sweepTimer, build, process, mainPc, servicesPc,
                       servicesExit, stopped, handling>>
    BY <1>14 DEF serverVars, threadVars, vars
  <2>2. ServerTypeOK' /\ Joined'
    BY <2>1 DEF SInv, ServerTypeOK, TypeOK, Joined
  <2>3. CASE process = "up" /\ mainPc # "goodbye"
    BY <2>1, <2>2, <2>3, <1>1
  <2>4. CASE ~(process = "up" /\ mainPc # "goodbye")
    BY <2>1, <2>2, <2>4 DEF SInv
  <2>5. QED BY <2>3, <2>4
<1>15. QED BY <1>3, <1>4, <1>5, <1>6, <1>7, <1>8, <1>9, <1>10, <1>11, <1>12, <1>13, <1>14
       DEF ServerNext, MainNext, ServicesNext

-------------------------------------------------------------------------------
LEMMA ServerInvariance == ServerSpec => []SInv
<1>1. QED BY SInvInit, SInvStep, PTL DEF ServerSpec

\* Type correctness of both threads and of all that they share, to the end.
THEOREM ServerTypeCorrectness == ServerSpec => []ServerTypeOK
<1>1. SInv => ServerTypeOK
  BY DEF SInv
<1>2. QED BY <1>1, ServerInvariance, PTL

\* The orderly end comes after the services thread, with nothing of it left.
THEOREM TeardownFollowsServices == ServerSpec => []DestroyedAfterServices
<1>1. SInv => DestroyedAfterServices
  BY DEF SInv, Joined, DestroyedAfterServices
<1>2. QED BY <1>1, ServerInvariance, PTL

\* Also the handler that run() has gone on to when main stops the server runs
\* on a connection that is there: ~NetData comes after it, and none runs later.
THEOREM HandlersSafeUntilEnd == ServerSpec => HandlersRunOnLive
<1> DEFINE Live == \A c \in Ids :
              (\E o \in Ops : conn[c].op[o] \in Results /\ conn'[c].op[o] \in {"idle", "pending"})
                => process = "up" /\ c \in connections
<1>1. SInv /\ [ServerNext]_serverVars => [Live]_serverVars
  <2> SUFFICES ASSUME SInv, ServerNext,
                      NEW c \in Ids, NEW o \in Ops,
                      conn[c].op[o] \in Results, conn'[c].op[o] \in {"idle", "pending"}
               PROVE  process = "up" /\ c \in connections
    OBVIOUS
  <2>1. process = "up" /\ (mainPc = "goodbye" => conn' = conn)
    <3>1. CASE MainNext
      BY <3>1 DEF MainNext, HandleTerminalCommands, StopContext, JoinServices, DestroyNetData,
                  Goodbye, Main, vars
    <3>2. CASE ServicesNext
      BY <3>2 DEF ServicesNext, CheckServicesExit, MakeAcceptor, StartServices, TakeNext,
                  RunServices, ReactorWoken, ServicesTerminate, ServicesReturn, Services,
                  SInv, Joined
    <3>3. CASE ClientActs
      BY <3>3 DEF ClientActs, Client, ClientSends, ClientCloses, ClientResets
    <3>4. QED BY <3>1, <3>2, <3>3 DEF ServerNext
  <2>2. conn[c].op[o] # "idle" /\ conn' # conn
    BY DEF Results
  <2>3. QED BY <2>1, <2>2, OutstandingIsStored DEF SInv
<1>2. QED BY <1>1, ServerInvariance, PTL DEF ServerSpec, HandlersRunOnLive

-------------------------------------------------------------------------------
(***************************************************************************)
(* The refinement of Lifecycle.  The services thread returns only when the *)
(* io_context was stopped, and only main stops it.                         *)
(***************************************************************************)
StoppedByMain == stopped => mainPc \in {"join", "destroy", "goodbye", "done"}

LEMMA StoppedByMainStep == StoppedByMain /\ [ServerNext]_serverVars => StoppedByMain'
<1> SUFFICES ASSUME StoppedByMain, [ServerNext]_serverVars PROVE StoppedByMain'
  OBVIOUS
<1>1. CASE MainNext
  BY <1>1 DEF MainNext, HandleTerminalCommands, StopContext, JoinServices, DestroyNetData, Goodbye,
              Main, StoppedByMain
<1>2. CASE ServicesNext \/ ClientActs \/ UNCHANGED serverVars
  <2>1. UNCHANGED <<stopped, mainPc>>
    BY <1>2 DEF ServicesNext, CheckServicesExit, MakeAcceptor, StartServices, TakeNext, RunServices,
                ReactorWoken, ServicesTerminate, ServicesReturn, ClientActs, serverVars, threadVars
  <2>2. QED BY <2>1 DEF StoppedByMain
<1>3. QED BY <1>1, <1>2 DEF ServerNext

LEMMA LifecycleStep ==
  ASSUME SInv, StoppedByMain, [ServerNext]_serverVars
  PROVE  [Life!LifecycleNext]_(Life!lifecycleVars)
<1> USE DEF Life!lifecycleVars, MainStage
<1>1. CASE HandleTerminalCommands
  <2>1. Life!Stop
    BY <1>1 DEF HandleTerminalCommands, Main, Life!Stop, Life!Passes
  <2>2. QED BY <2>1 DEF Life!LifecycleNext
<1>2. CASE \/ StopContext \/ TakeNext \/ RunServices \/ ReactorWoken
           \/ ClientActs \/ UNCHANGED serverVars
  BY <1>2 DEF StopContext, Main, TakeNext, RunServices, ReactorWoken, ClientActs, serverVars,
              threadVars
<1>3. CASE JoinServices
  <2>1. Life!Join
    BY <1>3 DEF JoinServices, Main, Life!Join, Life!Passes
  <2>2. QED BY <2>1 DEF Life!LifecycleNext
<1>4. CASE DestroyNetData \/ Goodbye
  <2>1. process = "up" /\ mainPc \in {"destroy", "goodbye"} /\ servicesPc' = servicesPc
    BY <1>4 DEF DestroyNetData, Goodbye, Main
  <2>2. \/ process' = "aborted" /\ mainPc' = mainPc
        \/ process' = "up" /\ mainPc' = "goodbye"
        \/ process' = "exited" /\ mainPc' = "done"
    BY <1>4 DEF DestroyNetData, Goodbye, Main
  <2>3. Life!Crash \/ Life!Exit \/ UNCHANGED Life!lifecycleVars
    BY <2>1, <2>2 DEF Life!Crash, Life!Exit, Life!Ends
  <2>4. QED BY <2>3 DEF Life!LifecycleNext
<1>5. CASE CheckServicesExit \/ ServicesTerminate
  <2>1. UNCHANGED <<mainPc, servicesPc, process>> \/ Life!Crash \/ UNCHANGED Life!lifecycleVars
    BY <1>5 DEF CheckServicesExit, ServicesTerminate, Services, Life!Crash, Life!Ends
  <2>2. QED BY <2>1 DEF Life!LifecycleNext
<1>6. CASE MakeAcceptor \/ StartServices
  BY <1>6 DEF MakeAcceptor, StartServices, Services
<1>7. CASE ServicesReturn
  <2>1. mainPc = "join" /\ process = "up"
    BY <1>7 DEF ServicesReturn, Services, StoppedByMain, SInv, Joined
  <2>2. Life!ServicesReturn
    BY <1>7, <2>1 DEF ServicesReturn, Services, Life!ServicesReturn, Life!Passes
  <2>3. QED BY <2>2 DEF Life!LifecycleNext
<1>8. QED BY <1>1, <1>2, <1>3, <1>4, <1>5, <1>6, <1>7 DEF ServerNext, MainNext, ServicesNext

\* Main and the services thread, with all that the handlers do, keep to the
\* stages of Lifecycle for any number of clients and every fault.
THEOREM ServerLifecycle == ServerSpec => ImplementsLifecycle
<1>1. ServerInit => StoppedByMain /\ Life!LaunchedInit
  BY DEF ServerInit, StoppedByMain, Life!LaunchedInit, MainStage
<1>2. ServerSpec => []StoppedByMain
  BY <1>1, StoppedByMainStep, ServerInvariance, PTL DEF ServerSpec
<1>3. SInv /\ StoppedByMain /\ [ServerNext]_serverVars => [Life!LifecycleNext]_(Life!lifecycleVars)
  BY LifecycleStep
<1>4. QED BY <1>1, <1>2, <1>3, ServerInvariance, PTL
          DEF ServerSpec, ImplementsLifecycle, Life!LaunchedSpec
===============================================================================
