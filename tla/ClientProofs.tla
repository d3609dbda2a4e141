---------------------------- MODULE ClientProofs ----------------------------
(* Safety of a Client for any messages, any Close frames among them, any     *)
(* maxima of connection attempts and any bounds.                             *)
EXTENDS Client, TLAPS

(* What taking the head of a queue does.                                     *)
LEMMA TakeHead ==
    ASSUME NEW S, NEW q \in Seq(S), q # <<>>
    PROVE  /\ Head(q) \in S
           /\ Tail(q) \in Seq(S)
           /\ Len(q) \in Nat /\ Len(q) > 0
           /\ Len(Tail(q)) = Len(q) - 1
           /\ Head(q) = q[1]
           /\ \A i \in 1..Len(Tail(q)) : Tail(q)[i] = q[i + 1] /\ i + 1 \in 1..Len(q)
           /\ \A i \in 2..Len(q) : q[i] = Tail(q)[i - 1] /\ i - 1 \in 1..Len(Tail(q))
  OBVIOUS

(* What adding to the end of a queue does.                                   *)
LEMMA AddLast ==
    ASSUME NEW S, NEW q \in Seq(S), NEW x \in S
    PROVE  /\ Append(q, x) \in Seq(S)
           /\ Len(q) \in Nat
           /\ Len(Append(q, x)) = Len(q) + 1
           /\ \A i \in 1..Len(q) : Append(q, x)[i] = q[i] /\ q[i] \in S
           /\ Append(q, x)[Len(q) + 1] = x
           /\ Len(q) + 1 \in 1..Len(Append(q, x))
           /\ \A i \in 1..Len(q) : i \in 1..Len(Append(q, x))
           /\ \A i \in 1..Len(Append(q, x)) : i \in 1..Len(q) \/ i = Len(q) + 1
  OBVIOUS

-----------------------------------------------------------------------------
(* Every variable keeps its type.                                            *)
LEMMA TypeInit == Init => ClientTypeOK
<1>1. Init => ClientFlags
  BY DEF Init, ClientFlags
<1>2. Init => ClientTypes
  BY ClientAssumption DEF Init, ClientTypes, ActorStates, Statuses, Connections
<1>3. QED
  BY <1>1, <1>2 DEF ClientTypeOK

LEMMA FlagsStep == ClientFlags /\ [Next]_vars => ClientFlags'
<1> SUFFICES ASSUME ClientFlags, [Next]_vars PROVE ClientFlags'
  OBVIOUS
<1> USE DEF ClientFlags, handleVars, sinkVars, streamVars, socketVars, history,
            Finish, Quit, Goto, DropSocket
<1>1. CASE Draining
  BY <1>1 DEF Draining, Discard, CloseWhileConnecting, StartAttempt, NobodyLeft
<1>2. CASE Connector
  BY <1>2 DEF Connector, ConnectorConnects, ConnectorFails
<1>3. CASE Callbacks
  BY <1>3 DEF Callbacks, NewSocket, Retry, HandlerOk, Reconnect, CallbackCloses
<1>4. CASE Sleeps
  BY <1>4 DEF Sleeps, RetrySleepElapsed, CloseSleepElapsed
<1>5. ASSUME NEW m \in Messages, Forward(m) PROVE ClientFlags'
  <2>1. close_taken' \in BOOLEAN /\ connected' = connected
    BY <1>5 DEF Forward
  <2>2. CASE ClosesClient(m)
    <3>1. closed_self' = FALSE /\ result_taken' = FALSE /\ stream_over' = FALSE
      BY <1>5, <2>2 DEF Forward
    <3>2. QED
      BY <2>1, <3>1
  <2>3. CASE ~ClosesClient(m)
    <3>1. UNCHANGED <<closed_self, result_taken, stream_over>>
      BY <1>5, <2>3 DEF Forward
    <3>2. QED
      BY <2>1, <3>1
  <2>4. QED
    BY <2>2, <2>3
<1>6. ASSUME NEW m \in Messages, ForwardFails(m) PROVE ClientFlags'
  BY <1>6 DEF ForwardFails
<1>7. CASE Incoming
  BY <1>7 DEF Incoming, TakeItem, TakeEnd
<1>8. CASE AwaitSinkClose
  BY <1>8 DEF AwaitSinkClose
<1>9. CASE Break \/ TakeCall
  BY <1>9 DEF Break, TakeCall
<1>10. CASE Users
  BY <1>10 DEF Users, Send, Call, DropHandles
<1>11. CASE Sockets
  BY <1>11 DEF Sockets, SinkSends, SinkFails, SinkStops, SinkDrops,
     StreamYields, StreamEnds
<1>12. CASE UNCHANGED vars
  BY <1>12 DEF vars
<1>13. QED
  BY <1>1, <1>2, <1>3, <1>4, <1>5, <1>6, <1>7, <1>8, <1>9, <1>10, <1>11, <1>12
     DEF Next, Outgoing

LEMMA DroppedType ==
    ASSUME NEW lost, ClientTypes
    PROVE  Dropped(lost) \in [Messages -> Statuses]
  BY DEF Dropped, ClientTypes, Statuses

LEMMA FinishType ==
    ASSUME ClientTypes, NEW left \in Seq(Messages), NEW lost, Finish(left, lost)
    PROVE  /\ actor' \in ActorStates
           /\ attempts' \in Nat
           /\ to_socket' \in Seq(Messages)
           /\ calls' \in 0..MaxCalls
           /\ sink_result' \in {"none", "ok", "lost", "other"}
           /\ stream' \in Seq({"data", "close", "error"})
           /\ signal' \in [Messages -> Statuses]
<1>1. /\ Dropped(lost) \in [Messages -> Statuses]
      /\ Dropped(lost \cup Contents(left)) \in [Messages -> Statuses]
  BY DroppedType
<1>2. 0 \in 0..MaxCalls
  BY ClientAssumption
<1>3. to_socket' \in Seq(Messages) /\ signal' \in [Messages -> Statuses]
  <2>1. CASE handles = "both"
    BY <1>1, <2>1 DEF Finish
  <2>2. CASE handles # "both"
    <3>1. to_socket' = <<>> /\ signal' = Dropped(lost \cup Contents(left))
      BY <2>2 DEF Finish
    <3>2. <<>> \in Seq(Messages)
      OBVIOUS
    <3>3. QED
      BY <1>1, <3>1, <3>2
  <2>3. QED
    BY <2>1, <2>2
<1>4. calls' \in 0..MaxCalls
  BY <1>2 DEF Finish, ClientTypes
<1>5. QED
  BY <1>3, <1>4 DEF Finish, DropSocket, ActorStates

LEMMA LosesType ==
    ASSUME ClientTypes, NEW e, NEW lost, NEW rest \in Seq(Messages),
           SinkLoses(e, lost, rest)
    PROVE  /\ signal' \in [Messages -> Statuses]
           /\ sink' \in [Connections -> Seq(Messages)]
  BY DroppedType DEF ClientTypes, SinkLoses

LEMMA KeepsType ==
    ASSUME ClientTypes, NEW e, SinkKeeps(e)
    PROVE  /\ signal' \in [Messages -> Statuses]
           /\ sink' \in [Connections -> Seq(Messages)]
<1>1. <<>> \in Seq(Messages)
  OBVIOUS
<1>2. QED
  BY <1>1, LosesType DEF SinkKeeps, ClientTypes

LEMMA QuitType == ClientTypes /\ Quit => ClientTypes'
<1> SUFFICES ASSUME ClientTypes, Quit PROVE ClientTypes'
  OBVIOUS
<1>1. to_socket \in Seq(Messages) /\ Finish(to_socket, {})
  BY DEF ClientTypes, Quit
<1>2. QED
  BY <1>1, FinishType DEF ClientTypes, Quit, sinkVars, history

LEMMA GotoType ==
    ASSUME ClientTypes, NEW next \in ActorStates, Goto(next) PROVE ClientTypes'
  BY DEF ClientTypes, Goto, handleVars, socketVars, sinkVars, streamVars, history

(* A connector that has succeeded was within the bound on connections.       *)
RoomLeft == actor = "on_connect" => conn < MaxConnections

LEMMA RoomInit == Init => RoomLeft
  BY DEF Init, RoomLeft

(* What an action does to the task's place and to the connection's number.   *)
LEMMA ActorMoves ==
    ASSUME ClientTypes, [Next]_vars
    PROVE  \/ actor' = actor /\ conn' = conn
           \/ actor' # "on_connect" /\ conn' = conn
           \/ ConnectorConnects
           \/ NewSocket
<1> USE DEF handleVars, sinkVars, streamVars, socketVars, history,
            Finish, Quit, Goto, DropSocket
<1>1. CASE Draining
  BY <1>1 DEF Draining, Discard, CloseWhileConnecting, StartAttempt, NobodyLeft
<1>2. CASE Connector
  BY <1>2 DEF Connector, ConnectorFails
<1>3. CASE Callbacks
  BY <1>3 DEF Callbacks, Retry, HandlerOk, Reconnect, CallbackCloses
<1>4. CASE Sleeps
  BY <1>4 DEF Sleeps, RetrySleepElapsed, CloseSleepElapsed
<1>5. ASSUME NEW m \in Messages, Forward(m) PROVE actor' \in {actor, "done"} /\ conn' = conn
  <2>1. CASE ClosesClient(m)
    BY <1>5, <2>1 DEF Forward
  <2>2. CASE ~ClosesClient(m)
    BY <1>5, <2>2 DEF Forward
  <2>3. QED
    BY <2>1, <2>2
<1>6. ASSUME NEW m \in Messages, ForwardFails(m) PROVE actor' # "on_connect" /\ conn' = conn
  BY <1>6 DEF ForwardFails
<1>7. CASE TakeItem
  <2>1. Head(stream) \in {"data", "close", "error"}
    BY <1>7, TakeHead DEF TakeItem, ClientTypes
  <2>2. actor' \in {"handler", "on_close", "on_disconnect"}
    BY <1>7, <2>1 DEF TakeItem
  <2>3. QED
    BY <1>7, <2>2 DEF TakeItem
<1>8. CASE TakeEnd \/ Break \/ TakeCall
  BY <1>8 DEF TakeEnd, Break, TakeCall
<1>9. CASE AwaitSinkClose
  BY <1>9 DEF AwaitSinkClose
<1>10. CASE Users
  BY <1>10 DEF Users, Send, Call, DropHandles
<1>11. CASE Sockets
  BY <1>11 DEF Sockets, SinkSends, SinkFails, SinkStops, SinkDrops,
     StreamYields, StreamEnds
<1>12. CASE UNCHANGED vars
  BY <1>12 DEF vars
<1>13. QED
  BY <1>1, <1>2, <1>3, <1>4, <1>5, <1>6, <1>7, <1>8, <1>9, <1>10, <1>11, <1>12
     DEF Next, Outgoing, Incoming

LEMMA RoomStep == ClientTypes /\ RoomLeft /\ [Next]_vars => RoomLeft'
<1> SUFFICES ASSUME ClientTypes, RoomLeft, [Next]_vars PROVE RoomLeft'
  OBVIOUS
<1>1. CASE ConnectorConnects
  BY <1>1 DEF ConnectorConnects, Goto, RoomLeft, socketVars, sinkVars
<1>2. CASE NewSocket
  BY <1>2 DEF NewSocket, RoomLeft
<1>3. QED
  BY <1>1, <1>2, ActorMoves DEF RoomLeft

LEMMA TypesStep == ClientTypes /\ RoomLeft /\ [Next]_vars => ClientTypes'
<1> SUFFICES ASSUME ClientTypes, RoomLeft, [Next]_vars PROVE ClientTypes'
  OBVIOUS
<1> USE DEF handleVars, sinkVars, streamVars, socketVars, history
<1>1. ASSUME NEW m \in Messages, Discard(m) PROVE ClientTypes'
  <2>1. Tail(to_socket) \in Seq(Messages) /\ Dropped({m}) \in [Messages -> Statuses]
    BY <1>1, TakeHead, DroppedType DEF Discard, Drained, ClientTypes
  <2>2. QED
    BY <1>1, <2>1 DEF Discard, ClientTypes
<1>2. ASSUME NEW m \in Messages, CloseWhileConnecting(m) PROVE ClientTypes'
  <2>1. Tail(to_socket) \in Seq(Messages) /\ Finish(Tail(to_socket), {m})
    BY <1>2, TakeHead DEF CloseWhileConnecting, Drained, ClientTypes
  <2>2. QED
    BY <1>2, <2>1, FinishType DEF CloseWhileConnecting, ClientTypes
<1>3. CASE StartAttempt
  BY <1>3 DEF StartAttempt, ClientTypes, ActorStates
<1>4. CASE NobodyLeft \/ Break \/ CallbackCloses
  BY <1>4, QuitType DEF NobodyLeft, Break, CallbackCloses
<1>5. CASE Connector \/ Sleeps \/ HandlerOk \/ TakeEnd
  BY <1>5, GotoType DEF Connector, ConnectorConnects, ConnectorFails, Sleeps,
     RetrySleepElapsed, CloseSleepElapsed, HandlerOk, TakeEnd, ActorStates
<1>6. CASE NewSocket
  <2>1. conn + 1 \in Connections /\ conn + 1 \in 0..MaxConnections
    BY <1>6, ClientAssumption DEF NewSocket, RoomLeft, ClientTypes, Connections
  <2>2. QED
    BY <1>6, <2>1 DEF NewSocket, ClientTypes, ActorStates
<1>7. CASE Retry
  BY <1>7, GotoType, QuitType DEF Retry, ActorStates
<1>8. CASE Reconnect
  BY <1>8 DEF Reconnect, DropSocket, ClientTypes, ActorStates
<1>9. ASSUME NEW m \in Messages, Forward(m) PROVE ClientTypes'
  <2>1. conn \in Connections /\ Tail(to_socket) \in Seq(Messages)
    BY <1>9, TakeHead DEF Forward, ClientTypes
  <2>2. /\ sink' \in [Connections -> Seq(Messages)]
        /\ delivered' \in [Messages -> 0..MaxConnections]
    <3>1. Append(sink[conn], m) \in Seq(Messages)
      BY <2>1, AddLast DEF ClientTypes
    <3>2. QED
      BY <1>9, <2>1, <3>1 DEF Forward, ClientTypes
  <2>3. CASE ClosesClient(m)
    <3>1. Finish(Tail(to_socket), {})
      BY <1>9, <2>3 DEF Forward
    <3>2. QED
      BY <1>9, <2>1, <2>2, <3>1, FinishType DEF Forward, ClientTypes
  <2>4. CASE ~ClosesClient(m)
    BY <1>9, <2>1, <2>2, <2>4 DEF Forward, ClientTypes
  <2>5. QED
    BY <2>3, <2>4
<1>10. ASSUME NEW m \in Messages, ForwardFails(m) PROVE ClientTypes'
  <2>1. Tail(to_socket) \in Seq(Messages) /\ Dropped({m}) \in [Messages -> Statuses]
    BY <1>10, TakeHead, DroppedType DEF ForwardFails, ClientTypes
  <2>2. QED
    BY <1>10, <2>1 DEF ForwardFails, ClientTypes, ActorStates
<1>11. CASE TakeItem
  <2>1. Head(stream) \in {"data", "close", "error"}
        /\ Tail(stream) \in Seq({"data", "close", "error"})
    BY <1>11, TakeHead DEF TakeItem, ClientTypes
  <2>2. actor' \in {"handler", "on_close", "on_disconnect"}
    BY <1>11, <2>1 DEF TakeItem
  <2>3. QED
    BY <1>11, <2>1, <2>2 DEF TakeItem, ClientTypes, ActorStates
<1>12. CASE AwaitSinkClose
  <2>1. CASE GivesUp
    <3>1. to_socket \in Seq(Messages) /\ Finish(to_socket, {})
      BY <1>12, <2>1 DEF AwaitSinkClose, ClientTypes
    <3>2. QED
      BY <1>12, <3>1, FinishType DEF AwaitSinkClose, ClientTypes
  <2>2. CASE ~GivesUp
    BY <1>12, <2>2 DEF AwaitSinkClose, ClientTypes, ActorStates
  <2>3. QED
    BY <2>1, <2>2
<1>13. CASE TakeCall
  <2>1. calls - 1 \in 0..MaxCalls
    BY <1>13, ClientAssumption DEF TakeCall, CallWaiting, ClientTypes
  <2>2. QED
    BY <1>13, <2>1 DEF TakeCall, ClientTypes, ActorStates
<1>14. ASSUME NEW m \in Messages, Send(m) PROVE ClientTypes'
  <2>1. /\ Append(to_socket, m) \in Seq(Messages)
        /\ Dropped({m}) \in [Messages -> Statuses]
        /\ [signal EXCEPT ![m] = "Sending"] \in [Messages -> Statuses]
    BY AddLast, DroppedType DEF ClientTypes, Statuses
  <2>2. /\ to_socket' \in Seq(Messages)
        /\ signal' \in [Messages -> Statuses]
    BY <1>14, <2>1 DEF Send, ClientTypes
  <2>3. born' \in [Messages -> 0..MaxConnections]
    BY <1>14, ClientAssumption DEF Send, ClientTypes
  <2>4. QED
    BY <1>14, <2>2, <2>3 DEF Send, ClientTypes
<1>15. CASE Call
  <2>1. calls + 1 \in 0..MaxCalls
    BY <1>15, ClientAssumption DEF Call, ClientTypes
  <2>2. QED
    BY <1>15, <2>1 DEF Call, ClientTypes
<1>16. ASSUME NEW left \in {"calls", "none"}, DropHandles(left) PROVE ClientTypes'
  <2>1. Dropped(Contents(to_socket)) \in [Messages -> Statuses] /\ 0 \in 0..MaxCalls
    BY DroppedType, ClientAssumption
  <2>2. calls' \in 0..MaxCalls
    BY <1>16, <2>1 DEF DropHandles, ClientTypes
  <2>3. to_socket' \in Seq(Messages) /\ signal' \in [Messages -> Statuses]
    <3>1. CASE actor = "done"
      BY <1>16, <2>1, <3>1 DEF DropHandles
    <3>2. CASE actor # "done"
      BY <1>16, <3>2 DEF DropHandles, ClientTypes
    <3>3. QED
      BY <3>1, <3>2
  <2>4. QED
    BY <1>16, <2>2, <2>3 DEF DropHandles, ClientTypes
<1>17. ASSUME NEW e \in Connections, SinkSends(e) PROVE ClientTypes'
  <2>1. Head(sink[e]) \in Messages /\ Tail(sink[e]) \in Seq(Messages)
    BY <1>17, TakeHead DEF SinkSends, ClientTypes
  <2>2. QED
    BY <1>17, <2>1 DEF SinkSends, ClientTypes, Statuses
<1>18. ASSUME NEW e \in Connections, SinkFails(e) PROVE ClientTypes'
  <2>1. /\ signal' \in [Messages -> Statuses]
        /\ sink' \in [Connections -> Seq(Messages)]
    BY <1>18, LosesType, KeepsType, TakeHead DEF SinkFails, ClientTypes
  <2>2. sink_result' \in {"none", "ok", "lost", "other"}
    BY <1>18 DEF SinkFails, ClientTypes
  <2>3. QED
    BY <1>18, <2>1, <2>2 DEF SinkFails, ClientTypes
<1>19. ASSUME NEW e \in Connections, SinkStops(e) PROVE ClientTypes'
  <2>1. /\ signal' \in [Messages -> Statuses]
        /\ sink' \in [Connections -> Seq(Messages)]
    BY <1>19, KeepsType DEF SinkStops
  <2>2. QED
    BY <1>19, <2>1 DEF SinkStops, ClientTypes
<1>20. ASSUME NEW e \in Connections, SinkDrops(e) PROVE ClientTypes'
  <2>1. <<>> \in Seq(Messages)
    OBVIOUS
  <2>2. /\ signal' \in [Messages -> Statuses]
        /\ sink' \in [Connections -> Seq(Messages)]
    BY <1>20, <2>1, LosesType DEF SinkDrops
  <2>3. QED
    BY <1>20, <2>2 DEF SinkDrops, ClientTypes
<1>21. ASSUME NEW item \in {"data", "close", "error"}, StreamYields(item)
       PROVE  ClientTypes'
  <2>1. Append(stream, item) \in Seq({"data", "close", "error"})
    BY AddLast DEF ClientTypes
  <2>2. QED
    BY <1>21, <2>1 DEF StreamYields, ClientTypes
<1>22. CASE StreamEnds
  BY <1>22 DEF StreamEnds, ClientTypes
<1>23. CASE UNCHANGED vars
  BY <1>23 DEF vars, ClientTypes
<1>24. QED
  BY <1>1, <1>2, <1>3, <1>4, <1>5, <1>6, <1>7, <1>8, <1>9, <1>10, <1>11, <1>12,
     <1>13, <1>14, <1>15, <1>16, <1>17, <1>18, <1>19, <1>20, <1>21, <1>22, <1>23
     DEF Next, Draining, Callbacks, Outgoing, Incoming, Users, Sockets

(* The client's variables stay in their sets.                                *)
THEOREM ClientType == Spec => []ClientTypeOK
<1> DEFINE Inv == ClientTypeOK /\ RoomLeft
<1>1. Init => Inv
  BY TypeInit, RoomInit
<1>2. Inv /\ [Next]_vars => Inv'
  BY FlagsStep, TypesStep, RoomStep DEF ClientTypeOK
<1>3. QED
  BY <1>1, <1>2, PTL DEF Spec

-----------------------------------------------------------------------------
(* The number of attempts.                                                   *)
Attempting == {"drain", "connecting", "on_connect", "on_connect_fail", "retry_sleep"}

(* What client_connect makes of the maximum, which it checks after a failure.*)
allowed == IF max_attempts = 0 THEN 1 ELSE max_attempts

AttemptInv ==
    /\ attempts <= allowed
    /\ actor \in {"drain", "retry_sleep"} => attempts < allowed
    /\ actor \notin Attempting => attempts = 0

LEMMA MaxAttempts == max_attempts \in Nat /\ allowed \in Nat /\ allowed > 0
  BY ClientAssumption DEF max_attempts, allowed

LEMMA AttemptInit == Init => AttemptInv
  BY MaxAttempts DEF Init, AttemptInv, Attempting

LEMMA AttemptStep ==
    ASSUME ClientTypes, AttemptInv, [Next]_vars PROVE AttemptInv'
<1> USE DEF handleVars, sinkVars, streamVars, socketVars, history, Attempting
<1>1. allowed \in Nat /\ allowed > 0 /\ allowed' \in Nat /\ allowed' > 0
  BY ClientAssumption DEF max_attempts, allowed
<1>2. ASSUME connected' = connected PROVE allowed' = allowed
  BY <1>2 DEF max_attempts, allowed
<1>3. ASSUME actor' \notin Attempting \ {"drain"}, attempts' = 0 PROVE AttemptInv'
  BY <1>1, <1>3 DEF AttemptInv
<1>4. ASSUME actor' = actor, attempts' = attempts, connected' = connected PROVE AttemptInv'
  BY <1>2, <1>4 DEF AttemptInv
<1>5. ASSUME actor \notin Attempting, actor' \notin Attempting, attempts' = attempts
      PROVE  AttemptInv'
  BY <1>3, <1>5 DEF AttemptInv
<1>6. ASSUME NEW left, NEW lost, Finish(left, lost) PROVE AttemptInv'
  BY <1>3, <1>6 DEF Finish
<1>7. ASSUME NEW m \in Messages, Discard(m) \/ CloseWhileConnecting(m) PROVE AttemptInv'
  BY <1>4, <1>6, <1>7 DEF Discard, CloseWhileConnecting
<1>8. CASE StartAttempt
  <2>1. attempts' = attempts + 1 /\ attempts < allowed /\ allowed' = allowed
    BY <1>2, <1>8 DEF StartAttempt, AttemptInv
  <2>2. actor' = "connecting" /\ attempts' <= allowed'
    BY <1>1, <1>8, <2>1 DEF StartAttempt, ClientTypes
  <2>3. QED
    BY <2>2 DEF AttemptInv
<1>9. CASE NobodyLeft \/ Break \/ CallbackCloses
  BY <1>6, <1>9 DEF NobodyLeft, Break, CallbackCloses, Quit
<1>10. CASE Connector
  BY <1>2, <1>10 DEF Connector, ConnectorConnects, ConnectorFails, Goto, AttemptInv
<1>11. CASE NewSocket
  BY <1>3, <1>11 DEF NewSocket
<1>12. CASE Retry
  <2>1. CASE AttemptsLeft
    <3>1. attempts < allowed
      BY <2>1, MaxAttempts DEF AttemptsLeft, allowed, ClientTypes
    <3>2. QED
      BY <1>2, <1>12, <2>1, <3>1 DEF Retry, Goto, AttemptInv
  <2>2. CASE ~AttemptsLeft
    BY <1>6, <1>12, <2>2 DEF Retry, Quit
  <2>3. QED
    BY <2>1, <2>2
<1>13. CASE RetrySleepElapsed
  BY <1>2, <1>13 DEF RetrySleepElapsed, Goto, AttemptInv
<1>14. CASE CloseSleepElapsed \/ Reconnect
  BY <1>3, <1>14 DEF CloseSleepElapsed, Reconnect, Goto, AttemptInv
<1>15. CASE HandlerOk \/ TakeEnd \/ TakeCall
  BY <1>5, <1>15 DEF HandlerOk, TakeEnd, TakeCall, Goto
<1>16. ASSUME NEW m \in Messages, Forward(m) PROVE AttemptInv'
  <2>1. CASE ClosesClient(m)
    BY <1>6, <1>16, <2>1 DEF Forward
  <2>2. CASE ~ClosesClient(m)
    BY <1>4, <1>16, <2>2 DEF Forward
  <2>3. QED
    BY <2>1, <2>2
<1>17. ASSUME NEW m \in Messages, ForwardFails(m) PROVE AttemptInv'
  BY <1>5, <1>17 DEF ForwardFails
<1>18. CASE TakeItem
  <2>1. Head(stream) \in {"data", "close", "error"}
    BY <1>18, TakeHead DEF TakeItem, ClientTypes
  <2>2. actor' \in {"handler", "on_close", "on_disconnect"}
    BY <1>18, <2>1 DEF TakeItem
  <2>3. QED
    BY <1>5, <1>18, <2>2 DEF TakeItem
<1>19. CASE AwaitSinkClose
  <2>1. CASE GivesUp
    BY <1>6, <1>19, <2>1 DEF AwaitSinkClose
  <2>2. CASE ~GivesUp
    BY <1>5, <1>19, <2>2 DEF AwaitSinkClose
  <2>3. QED
    BY <2>1, <2>2
<1>20. CASE Users
  BY <1>4, <1>20 DEF Users, Send, Call, DropHandles
<1>21. CASE Sockets
  BY <1>4, <1>21 DEF Sockets, SinkSends, SinkFails, SinkStops, SinkDrops,
     StreamYields, StreamEnds
<1>22. CASE UNCHANGED vars
  BY <1>4, <1>22 DEF vars
<1>23. QED
  BY <1>7, <1>8, <1>9, <1>10, <1>11, <1>12, <1>13, <1>14, <1>15, <1>16, <1>17,
     <1>18, <1>19, <1>20, <1>21, <1>22
     DEF Next, Draining, Callbacks, Sleeps, Outgoing, Incoming

(* A client makes no more attempts in a row than configured, or than one     *)
(* where none is (client.rs 640-711).                                        *)
THEOREM Attempts == Spec => []AttemptsWithinMaximum
<1> DEFINE Inv == ClientTypeOK /\ AttemptInv
<1>1. Init => AttemptInv
  BY AttemptInit
<1>2. Inv /\ [Next]_vars => AttemptInv'
  BY AttemptStep DEF ClientTypeOK
<1>3. Inv => AttemptsWithinMaximum
  BY DEF AttemptInv, AttemptsWithinMaximum, allowed
<1>4. QED
  BY <1>1, <1>2, <1>3, ClientType, PTL DEF Spec

-----------------------------------------------------------------------------
(* A Close that was taken.                                                   *)
CloseInv == close_taken => actor = "done" \/ (actor = "await_sink" /\ closed_self)

LEMMA CloseStep == ASSUME CloseInv, [Next]_vars PROVE CloseInv'
<1> USE DEF handleVars, sinkVars, streamVars, socketVars, history
<1>1. ASSUME NEW left, NEW lost, Finish(left, lost) PROVE CloseInv'
  BY <1>1 DEF Finish, CloseInv
<1>2. ASSUME actor \notin {"await_sink", "done"}, close_taken' = close_taken PROVE CloseInv'
  BY <1>2 DEF CloseInv
<1>3. ASSUME actor' = actor, closed_self' = closed_self, close_taken' = close_taken
      PROVE  CloseInv'
  BY <1>3 DEF CloseInv
<1>4. CASE Draining
  BY <1>1, <1>2, <1>4 DEF Draining, Discard, CloseWhileConnecting, StartAttempt,
     NobodyLeft, Quit
<1>5. CASE Connector \/ Sleeps
  BY <1>2, <1>5 DEF Connector, ConnectorConnects, ConnectorFails, Sleeps,
     RetrySleepElapsed, CloseSleepElapsed, Goto
<1>6. CASE Callbacks
  BY <1>1, <1>2, <1>6 DEF Callbacks, NewSocket, Retry, HandlerOk, Reconnect,
     CallbackCloses, Quit, Goto
<1>7. ASSUME NEW m \in Messages, Forward(m) PROVE CloseInv'
  <2>1. CASE m \in Closes
    BY <1>1, <1>7, <2>1 DEF Forward, ClosesClient
  <2>2. CASE m \notin Closes
    BY <1>7, <2>2 DEF Forward, ClosesClient, CloseInv
  <2>3. QED
    BY <2>1, <2>2
<1>8. ASSUME NEW m \in Messages, ForwardFails(m) PROVE CloseInv'
  <2>1. CASE m \in Closes
    BY <1>8, <2>1 DEF ForwardFails, CloseInv
  <2>2. CASE m \notin Closes
    BY <1>8, <2>2 DEF ForwardFails, CloseInv
  <2>3. QED
    BY <2>1, <2>2
<1>9. CASE Incoming \/ TakeCall
  BY <1>2, <1>9 DEF Incoming, TakeItem, TakeEnd, TakeCall, Goto
<1>10. CASE Break
  BY <1>1, <1>10 DEF Break, Quit
<1>11. CASE AwaitSinkClose
  <2>1. CASE GivesUp
    BY <1>1, <1>11, <2>1 DEF AwaitSinkClose
  <2>2. CASE ~GivesUp
    <3>1. actor = "await_sink" /\ ~closed_self /\ close_taken' = close_taken
      BY <1>11, <2>2 DEF AwaitSinkClose, GivesUp
    <3>2. QED
      BY <3>1 DEF CloseInv
  <2>3. QED
    BY <2>1, <2>2
<1>12. CASE Users
  BY <1>3, <1>12 DEF Users, Send, Call, DropHandles
<1>13. CASE Sockets
  BY <1>3, <1>13 DEF Sockets, SinkSends, SinkFails, SinkStops, SinkDrops,
     StreamYields, StreamEnds
<1>14. CASE UNCHANGED vars
  BY <1>3, <1>14 DEF vars
<1>15. QED
  BY <1>4, <1>5, <1>6, <1>7, <1>8, <1>9, <1>10, <1>11, <1>12, <1>13, <1>14
     DEF Next, Outgoing

(* Once the user's Close has been taken the client does not connect again.   *)
THEOREM CloseFinal == Spec => []CloseIsFinal
<1>1. Init => CloseInv
  BY DEF Init, CloseInv
<1>2. CloseInv => CloseIsFinal
  BY DEF CloseInv, CloseIsFinal
<1>3. CloseInv /\ [Next]_vars => CloseInv'
  BY CloseStep
<1>4. QED
  BY <1>1, <1>2, <1>3, PTL DEF Spec

-----------------------------------------------------------------------------
(* Queues and signals.                                                       *)
Distinct(q) == \A i, j \in 1..Len(q) : q[i] = q[j] => i = j

(* Taking the head of a queue without repetitions removes it.                *)
LEMMA TakenHead ==
    ASSUME NEW q \in Seq(Messages), q # <<>>, Distinct(q)
    PROVE  /\ Distinct(Tail(q))
           /\ Head(q) \in Contents(q)
           /\ Contents(Tail(q)) = Contents(q) \ {Head(q)}
<1> /\ Head(q) = q[1]
    /\ Len(q) \in Nat /\ Len(q) > 0
    /\ Len(Tail(q)) = Len(q) - 1
    /\ \A i \in 1..Len(Tail(q)) : Tail(q)[i] = q[i + 1] /\ i + 1 \in 1..Len(q)
    /\ \A i \in 2..Len(q) : q[i] = Tail(q)[i - 1] /\ i - 1 \in 1..Len(Tail(q))
  BY TakeHead
<1>1. Distinct(Tail(q))
  BY DEF Distinct
<1>2. Head(q) \in Contents(q)
  BY DEF Contents
<1>3. ASSUME NEW x \in Contents(Tail(q)) PROVE x \in Contents(q) \ {Head(q)}
  <2>1. PICK i \in 1..Len(Tail(q)) : x = Tail(q)[i]
    BY DEF Contents
  <2>2. i + 1 \in 1..Len(q) /\ x = q[i + 1] /\ i + 1 # 1 /\ 1 \in 1..Len(q)
    BY <2>1
  <2>3. x # q[1]
    BY <2>2 DEF Distinct
  <2>4. QED
    BY <2>2, <2>3 DEF Contents
<1>4. ASSUME NEW x \in Contents(q), x # Head(q) PROVE x \in Contents(Tail(q))
  <2>1. PICK i \in 1..Len(q) : x = q[i]
    BY DEF Contents
  <2>2. i \in 2..Len(q)
    BY <1>4, <2>1
  <2>3. QED
    BY <2>1, <2>2 DEF Contents
<1>5. QED
  BY <1>1, <1>2, <1>3, <1>4

(* Adding a new message to a queue adds it.                                  *)
LEMMA AddedLast ==
    ASSUME NEW q \in Seq(Messages), NEW m \in Messages
    PROVE  /\ Distinct(q) /\ m \notin Contents(q) => Distinct(Append(q, m))
           /\ Contents(Append(q, m)) = Contents(q) \cup {m}
<1> /\ Len(q) \in Nat
    /\ Len(Append(q, m)) = Len(q) + 1
    /\ \A i \in 1..Len(q) : Append(q, m)[i] = q[i] /\ q[i] \in Messages
    /\ Append(q, m)[Len(q) + 1] = m
    /\ Len(q) + 1 \in 1..Len(Append(q, m))
    /\ \A i \in 1..Len(q) : i \in 1..Len(Append(q, m))
    /\ \A i \in 1..Len(Append(q, m)) : i \in 1..Len(q) \/ i = Len(q) + 1
  BY AddLast
<1>1. Distinct(q) /\ m \notin Contents(q) => Distinct(Append(q, m))
  BY DEF Distinct, Contents
<1>2. ASSUME NEW x \in Contents(Append(q, m)) PROVE x \in Contents(q) \cup {m}
  BY DEF Contents
<1>3. ASSUME NEW x \in Contents(q) \cup {m} PROVE x \in Contents(Append(q, m))
  BY DEF Contents
<1>4. QED
  BY <1>1, <1>2, <1>3

(* A queue q, the sinks' queues s and the signals g agree: no message is     *)
(* twice in the queues, and those in them are the ones that are Sending.     *)
Agree(q, s, g) ==
    /\ Distinct(q)
    /\ \A e \in Connections : Distinct(s[e])
    /\ \A e \in Connections : Contents(q) \cap Contents(s[e]) = {}
    /\ \A e, f \in Connections : e # f => Contents(s[e]) \cap Contents(s[f]) = {}
    /\ \A m \in Messages :
         g[m] = "Sending" <=>
             m \in Contents(q) \/ \E e \in Connections : m \in Contents(s[e])

Queues == [Connections -> Seq(Messages)]

Fail(g, lost) == [m \in Messages |-> IF m \in lost THEN "Failed" ELSE g[m]]

LEMMA EmptyQueue == Contents(<<>>) = {} /\ Distinct(<<>>) /\ <<>> \in Seq(Messages)
  BY DEF Contents, Distinct

LEMMA Failing ==
    ASSUME NEW g, NEW lost, NEW m \in Messages
    PROVE  Fail(g, lost)[m] = "Sending" <=> g[m] = "Sending" /\ m \notin lost
  BY DEF Fail

LEMMA LoseHead ==
    ASSUME NEW q \in Seq(Messages), NEW s \in Queues, NEW g, Agree(q, s, g), q # <<>>
    PROVE  Agree(Tail(q), s, Fail(g, {Head(q)}))
<1>1. /\ Distinct(Tail(q)) /\ Head(q) \in Contents(q)
      /\ Contents(Tail(q)) = Contents(q) \ {Head(q)}
  BY TakenHead DEF Agree
<1>2. \A e \in Connections : Head(q) \notin Contents(s[e])
  BY <1>1 DEF Agree
<1>3. ASSUME NEW m \in Messages
      PROVE  Fail(g, {Head(q)})[m] = "Sending" <=>
               m \in Contents(Tail(q)) \/ \E e \in Connections : m \in Contents(s[e])
  <2>1. g[m] = "Sending" <=>
          m \in Contents(q) \/ \E e \in Connections : m \in Contents(s[e])
    BY DEF Agree
  <2>2. Fail(g, {Head(q)})[m] = "Sending" <=> g[m] = "Sending" /\ m # Head(q)
    BY Failing
  <2>3. QED
    BY <1>1, <1>2, <2>1, <2>2
<1>4. QED
  BY <1>1, <1>3 DEF Agree

LEMMA LoseAll ==
    ASSUME NEW q \in Seq(Messages), NEW s \in Queues, NEW g, Agree(q, s, g)
    PROVE  Agree(<<>>, s, Fail(g, Contents(q)))
  BY EmptyQueue DEF Agree, Fail

LEMMA MoveHead ==
    ASSUME NEW q \in Seq(Messages), NEW s \in Queues, NEW g, Agree(q, s, g),
           q # <<>>, NEW e \in Connections
    PROVE  Agree(Tail(q), [s EXCEPT ![e] = Append(@, Head(q))], g)
<1> DEFINE s1 == [s EXCEPT ![e] = Append(@, Head(q))]
<1>1. /\ Distinct(Tail(q)) /\ Head(q) \in Contents(q) /\ Head(q) \in Messages
      /\ Contents(Tail(q)) = Contents(q) \ {Head(q)}
  BY TakenHead, TakeHead DEF Agree
<1>2. s[e] \in Seq(Messages) /\ Head(q) \notin Contents(s[e]) /\ Distinct(s[e])
  BY <1>1 DEF Agree, Queues
<1>3. Distinct(s1[e]) /\ Contents(s1[e]) = Contents(s[e]) \cup {Head(q)}
  BY <1>1, <1>2, AddedLast DEF Queues
<1>4. \A f \in Connections : f # e => s1[f] = s[f]
  BY DEF Queues
<1> HIDE DEF s1
<1>5. \A f \in Connections : Distinct(s1[f])
  BY <1>3, <1>4 DEF Agree
<1>6. \A f \in Connections : Contents(Tail(q)) \cap Contents(s1[f]) = {}
  BY <1>1, <1>3, <1>4 DEF Agree
<1>7. \A f, h \in Connections : f # h => Contents(s1[f]) \cap Contents(s1[h]) = {}
  BY <1>1, <1>3, <1>4 DEF Agree
<1>8. \A m \in Messages :
         g[m] = "Sending" <=>
             m \in Contents(Tail(q)) \/ \E f \in Connections : m \in Contents(s1[f])
  BY <1>1, <1>3, <1>4 DEF Agree
<1>9. Agree(Tail(q), s1, g)
  BY <1>1, <1>5, <1>6, <1>7, <1>8 DEF Agree
<1>10. QED
  BY <1>9 DEF s1

LEMMA SettleHead ==
    ASSUME NEW q \in Seq(Messages), NEW s \in Queues, NEW g, Agree(q, s, g),
           NEW e \in Connections, s[e] # <<>>,
           NEW h, \A m \in Messages : m # Head(s[e]) => h[m] = g[m],
           h[Head(s[e])] # "Sending"
    PROVE  Agree(q, [s EXCEPT ![e] = Tail(@)], h)
<1> DEFINE s1 == [s EXCEPT ![e] = Tail(@)]
<1>1. s[e] \in Seq(Messages) /\ Distinct(s[e])
  BY DEF Agree, Queues
<1>2. /\ Distinct(Tail(s[e])) /\ Head(s[e]) \in Contents(s[e])
      /\ Contents(Tail(s[e])) = Contents(s[e]) \ {Head(s[e])}
  BY <1>1, TakenHead
<1>3. s1[e] = Tail(s[e]) /\ \A f \in Connections : f # e => s1[f] = s[f]
  BY DEF Queues
<1> HIDE DEF s1
<1>4. \A f \in Connections : Distinct(s1[f])
  BY <1>2, <1>3 DEF Agree
<1>5. \A f \in Connections : Contents(q) \cap Contents(s1[f]) = {}
  BY <1>2, <1>3 DEF Agree
<1>6. \A f, k \in Connections : f # k => Contents(s1[f]) \cap Contents(s1[k]) = {}
  BY <1>2, <1>3 DEF Agree
<1>7. ASSUME NEW m \in Messages
      PROVE  h[m] = "Sending" <=>
               m \in Contents(q) \/ \E f \in Connections : m \in Contents(s1[f])
  <2>1. CASE m = Head(s[e])
    <3>1. m \notin Contents(q) /\ \A f \in Connections : m \notin Contents(s1[f])
      BY <1>2, <1>3, <2>1 DEF Agree
    <3>2. QED
      BY <2>1, <3>1
  <2>2. CASE m # Head(s[e])
    <3>1. h[m] = g[m] /\ \A f \in Connections : m \in Contents(s1[f]) <=> m \in Contents(s[f])
      BY <1>2, <1>3, <2>2
    <3>2. QED
      BY <3>1 DEF Agree
  <2>3. QED
    BY <2>1, <2>2
<1>8. Agree(q, s1, h)
  BY <1>4, <1>5, <1>6, <1>7 DEF Agree
<1>9. QED
  BY <1>8 DEF s1

LEMMA LoseSink ==
    ASSUME NEW q \in Seq(Messages), NEW s \in Queues, NEW g, Agree(q, s, g),
           NEW e \in Connections
    PROVE  Agree(q, [s EXCEPT ![e] = <<>>], Fail(g, Contents(s[e])))
<1> DEFINE s1 == [s EXCEPT ![e] = <<>>]
<1>1. s1[e] = <<>> /\ \A f \in Connections : f # e => s1[f] = s[f]
  BY DEF Queues
<1> HIDE DEF s1
<1>2. Contents(s1[e]) = {} /\ Distinct(s1[e])
  BY <1>1, EmptyQueue
<1>3. ASSUME NEW m \in Messages
      PROVE  Fail(g, Contents(s[e]))[m] = "Sending" <=>
               m \in Contents(q) \/ \E f \in Connections : m \in Contents(s1[f])
  <2>1. g[m] = "Sending" <=>
          m \in Contents(q) \/ \E f \in Connections : m \in Contents(s[f])
    BY DEF Agree
  <2>2. Fail(g, Contents(s[e]))[m] = "Sending" <=> g[m] = "Sending" /\ m \notin Contents(s[e])
    BY Failing
  <2>3. /\ m \in Contents(s[e]) => m \notin Contents(q)
        /\ \A f \in Connections : f # e /\ m \in Contents(s[e]) => m \notin Contents(s[f])
    BY DEF Agree
  <2>4. (\E f \in Connections : m \in Contents(s1[f]))
          <=> \E f \in Connections : f # e /\ m \in Contents(s[f])
    BY <1>1, <1>2
  <2>5. QED
    BY <2>1, <2>2, <2>3, <2>4
<1>4. Agree(q, s1, Fail(g, Contents(s[e])))
  <2>1. \A f \in Connections : Contents(q) \cap Contents(s1[f]) = {}
    BY <1>1, <1>2 DEF Agree
  <2>2. \A f, k \in Connections : f # k => Contents(s1[f]) \cap Contents(s1[k]) = {}
    BY <1>1, <1>2 DEF Agree
  <2>3. \A f \in Connections : Distinct(s1[f])
    BY <1>1, <1>2 DEF Agree
  <2>4. QED
    BY <1>3, <2>1, <2>2, <2>3 DEF Agree
<1>5. QED
  BY <1>4 DEF s1

LEMMA Submit ==
    ASSUME NEW q \in Seq(Messages), NEW s \in Queues, NEW g \in [Messages -> Statuses],
           Agree(q, s, g), NEW m \in Messages, g[m] # "Sending"
    PROVE  Agree(Append(q, m), s, [g EXCEPT ![m] = "Sending"])
<1>1. m \notin Contents(q) /\ \A e \in Connections : m \notin Contents(s[e])
  BY DEF Agree
<1>2. Distinct(Append(q, m)) /\ Contents(Append(q, m)) = Contents(q) \cup {m}
  BY <1>1, AddedLast DEF Agree
<1>3. QED
  BY <1>1, <1>2 DEF Agree

LEMMA Refuse ==
    ASSUME NEW q, NEW s, NEW g, Agree(q, s, g), NEW m \in Messages, g[m] # "Sending"
    PROVE  Agree(q, s, Fail(g, {m}))
  BY DEF Agree, Fail

AgreeInv == Agree(to_socket, sink, signal)

LEMMA FinishAgrees ==
    ASSUME NEW left \in Seq(Messages), NEW lost, Finish(left, lost),
           sink' \in Queues, Agree(left, sink', Fail(signal, lost))
    PROVE  AgreeInv'
<1>1. CASE handles = "both"
  <2>1. to_socket' = left /\ signal' = Fail(signal, lost)
    BY <1>1 DEF Finish, Dropped, Fail
  <2>2. QED
    BY <2>1 DEF AgreeInv
<1>2. CASE handles # "both"
  <2>1. Agree(<<>>, sink', Fail(Fail(signal, lost), Contents(left)))
    BY LoseAll
  <2>2. Fail(Fail(signal, lost), Contents(left)) = Fail(signal, lost \cup Contents(left))
    BY DEF Fail
  <2>3. to_socket' = <<>> /\ signal' = Fail(signal, lost \cup Contents(left))
    BY <1>2 DEF Finish, Dropped, Fail
  <2>4. QED
    BY <2>1, <2>2, <2>3 DEF AgreeInv
<1>3. QED
  BY <1>1, <1>2

LEMMA FailNone == ASSUME ClientTypes PROVE Fail(signal, {}) = signal
  BY DEF ClientTypes, Fail

LEMMA AgreeStep == ASSUME ClientTypes, AgreeInv, [Next]_vars PROVE AgreeInv'
<1> USE DEF handleVars, sinkVars, streamVars, socketVars, history
<1>1. to_socket \in Seq(Messages) /\ sink \in Queues /\ signal \in [Messages -> Statuses]
  BY DEF ClientTypes, Queues
<1>2. Agree(to_socket, sink, signal)
  BY DEF AgreeInv
<1>3. ASSUME UNCHANGED <<to_socket, sink, signal>> PROVE AgreeInv'
  BY <1>2, <1>3 DEF AgreeInv
<1>4. CASE Quit
  <2>1. Finish(to_socket, {}) /\ sink' = sink
    BY <1>4 DEF Quit
  <2>2. QED
    BY <1>1, <1>2, <2>1, FailNone, FinishAgrees
<1>5. ASSUME NEW m \in Messages, Discard(m) PROVE AgreeInv'
  <2>1. to_socket # <<>> /\ m = Head(to_socket) /\ to_socket' = Tail(to_socket)
        /\ sink' = sink /\ signal' = Fail(signal, {m})
    BY <1>5 DEF Discard, Drained, Dropped, Fail
  <2>2. QED
    BY <1>1, <1>2, <2>1, LoseHead DEF AgreeInv
<1>6. ASSUME NEW m \in Messages, CloseWhileConnecting(m) PROVE AgreeInv'
  <2>1. to_socket # <<>> /\ m = Head(to_socket) /\ sink' = sink
        /\ Finish(Tail(to_socket), {m})
    BY <1>6 DEF CloseWhileConnecting, Drained
  <2>2. Tail(to_socket) \in Seq(Messages) /\ Agree(Tail(to_socket), sink, Fail(signal, {m}))
    BY <1>1, <1>2, <2>1, TakeHead, LoseHead
  <2>3. QED
    BY <1>1, <2>1, <2>2, FinishAgrees
<1>7. CASE StartAttempt \/ Connector \/ Sleeps
  BY <1>3, <1>7 DEF StartAttempt, Connector, ConnectorConnects, ConnectorFails,
     Sleeps, RetrySleepElapsed, CloseSleepElapsed, Goto
<1>8. CASE NobodyLeft \/ Break \/ CallbackCloses
  BY <1>4, <1>8 DEF NobodyLeft, Break, CallbackCloses
<1>9. CASE NewSocket \/ HandlerOk \/ Reconnect
  BY <1>3, <1>9 DEF NewSocket, HandlerOk, Reconnect, Goto
<1>10. CASE Retry
  BY <1>3, <1>4, <1>10 DEF Retry, Goto
<1>11. ASSUME NEW m \in Messages, Forward(m) PROVE AgreeInv'
  <2>1. to_socket # <<>> /\ m = Head(to_socket) /\ conn \in Connections
        /\ sink' = [sink EXCEPT ![conn] = Append(@, m)]
    BY <1>11 DEF Forward, ClientTypes
  <2>2. Tail(to_socket) \in Seq(Messages) /\ Agree(Tail(to_socket), sink', signal)
    BY <1>1, <1>2, <2>1, TakeHead, MoveHead
  <2>3. CASE ClosesClient(m)
    <3>1. Finish(Tail(to_socket), {})
      BY <1>11, <2>3 DEF Forward
    <3>2. sink' \in Queues
      <4>1. Append(sink[conn], m) \in Seq(Messages)
        BY <1>1, <2>1, AddLast DEF Queues
      <4>2. QED
        BY <1>1, <2>1, <4>1 DEF Queues
    <3>3. QED
      BY <2>2, <3>1, <3>2, FailNone, FinishAgrees
  <2>4. CASE ~ClosesClient(m)
    <3>1. to_socket' = Tail(to_socket) /\ signal' = signal
      BY <1>11, <2>4 DEF Forward
    <3>2. QED
      BY <2>2, <3>1 DEF AgreeInv
  <2>5. QED
    BY <2>3, <2>4
<1>12. ASSUME NEW m \in Messages, ForwardFails(m) PROVE AgreeInv'
  <2>1. to_socket # <<>> /\ m = Head(to_socket) /\ to_socket' = Tail(to_socket)
        /\ sink' = sink /\ signal' = Fail(signal, {m})
    BY <1>12 DEF ForwardFails, Dropped, Fail
  <2>2. QED
    BY <1>1, <1>2, <2>1, LoseHead DEF AgreeInv
<1>13. CASE Incoming \/ TakeCall
  BY <1>3, <1>13 DEF Incoming, TakeItem, TakeEnd, TakeCall, Goto
<1>14. CASE AwaitSinkClose
  <2>1. CASE GivesUp
    <3>1. Finish(to_socket, {}) /\ sink' = sink
      BY <1>14, <2>1 DEF AwaitSinkClose
    <3>2. QED
      BY <1>1, <1>2, <3>1, FailNone, FinishAgrees
  <2>2. CASE ~GivesUp
    BY <1>3, <1>14, <2>2 DEF AwaitSinkClose
  <2>3. QED
    BY <2>1, <2>2
<1>15. ASSUME NEW m \in Messages, Send(m) PROVE AgreeInv'
  <2>1. signal[m] # "Sending" /\ sink' = sink
    BY <1>15 DEF Send
  <2>2. CASE actor = "done"
    <3>1. to_socket' = to_socket /\ signal' = Fail(signal, {m})
      BY <1>15, <2>2 DEF Send, Dropped, Fail
    <3>2. QED
      BY <1>2, <2>1, <3>1, Refuse DEF AgreeInv
  <2>3. CASE actor # "done"
    <3>1. to_socket' = Append(to_socket, m) /\ signal' = [signal EXCEPT ![m] = "Sending"]
      BY <1>15, <2>3 DEF Send
    <3>2. QED
      BY <1>1, <1>2, <2>1, <3>1, Submit DEF AgreeInv
  <2>4. QED
    BY <2>2, <2>3
<1>16. CASE Call
  BY <1>3, <1>16 DEF Call
<1>17. ASSUME NEW left \in {"calls", "none"}, DropHandles(left) PROVE AgreeInv'
  <2>1. CASE actor = "done"
    <3>1. to_socket' = <<>> /\ signal' = Fail(signal, Contents(to_socket)) /\ sink' = sink
      BY <1>17, <2>1 DEF DropHandles, Dropped, Fail
    <3>2. QED
      BY <1>1, <1>2, <3>1, LoseAll DEF AgreeInv
  <2>2. CASE actor # "done"
    BY <1>3, <1>17, <2>2 DEF DropHandles
  <2>3. QED
    BY <2>1, <2>2
<1>18. ASSUME NEW e \in Connections, SinkSends(e) PROVE AgreeInv'
  <2>1. sink[e] # <<>> /\ sink' = [sink EXCEPT ![e] = Tail(@)] /\ to_socket' = to_socket
        /\ signal' = [signal EXCEPT ![Head(sink[e])] = "Sent"]
    BY <1>18 DEF SinkSends
  <2>2. Head(sink[e]) \in Messages
    BY <1>1, <2>1, TakeHead DEF Queues
  <2>3. /\ \A m \in Messages : m # Head(sink[e]) => signal'[m] = signal[m]
        /\ signal'[Head(sink[e])] # "Sending"
    BY <1>1, <2>1, <2>2
  <2>4. QED
    BY <1>1, <1>2, <2>1, <2>3, SettleHead DEF AgreeInv
<1>a. ASSUME NEW e \in Connections, SinkKeeps(e), to_socket' = to_socket
      PROVE  AgreeInv'
  <2>1. CASE UNCHANGED <<signal, sink>>
    BY <1>3, <1>a, <2>1
  <2>2. CASE SinkLoses(e, Contents(sink[e]), <<>>)
    <3>1. /\ sink' = [sink EXCEPT ![e] = <<>>]
          /\ signal' = Fail(signal, Contents(sink[e]))
      BY <2>2 DEF SinkLoses, Dropped, Fail
    <3>2. QED
      BY <1>1, <1>2, <1>a, <3>1, LoseSink DEF AgreeInv
  <2>3. QED
    BY <1>a, <2>1, <2>2 DEF SinkKeeps
<1>19. ASSUME NEW e \in Connections, SinkFails(e) PROVE AgreeInv'
  <2>1. to_socket' = to_socket
    BY <1>19 DEF SinkFails
  <2>2. CASE SinkKeeps(e)
    BY <1>a, <2>1, <2>2
  <2>3. CASE sink[e] # <<>> /\ SinkLoses(e, {Head(sink[e])}, Tail(sink[e]))
    <3>1. Head(sink[e]) \in Messages /\ sink' = [sink EXCEPT ![e] = Tail(@)]
      BY <1>1, <2>3, TakeHead DEF Queues, SinkLoses
    <3>2. /\ \A m \in Messages : m # Head(sink[e]) => signal'[m] = signal[m]
          /\ signal'[Head(sink[e])] # "Sending"
      BY <2>3, <3>1 DEF SinkLoses, Dropped
    <3>3. QED
      BY <1>1, <1>2, <2>1, <2>3, <3>1, <3>2, SettleHead DEF AgreeInv
  <2>4. QED
    BY <1>19, <2>2, <2>3 DEF SinkFails
<1>20. ASSUME NEW e \in Connections, SinkStops(e) PROVE AgreeInv'
  BY <1>a, <1>20 DEF SinkStops
<1>21. ASSUME NEW e \in Connections, SinkDrops(e) PROVE AgreeInv'
  BY <1>a, <1>21 DEF SinkDrops, SinkKeeps
<1>22. ASSUME NEW item, StreamYields(item) \/ StreamEnds PROVE AgreeInv'
  BY <1>3, <1>22 DEF StreamYields, StreamEnds
<1>23. CASE UNCHANGED vars
  BY <1>3, <1>23 DEF vars
<1>24. QED
  BY <1>5, <1>6, <1>7, <1>8, <1>9, <1>10, <1>11, <1>12, <1>13, <1>14, <1>15,
     <1>16, <1>17, <1>18, <1>19, <1>20, <1>21, <1>22, <1>23
     DEF Next, Draining, Callbacks, Outgoing, Users, Sockets

LEMMA AgreeInit == Init => AgreeInv
<1> SUFFICES ASSUME Init PROVE AgreeInv
  OBVIOUS
<1>1. /\ to_socket = <<>> /\ \A e \in Connections : sink[e] = <<>>
      /\ \A m \in Messages : signal[m] = "none"
  BY DEF Init
<1>2. QED
  BY <1>1, EmptyQueue DEF AgreeInv, Agree

(* A message says Sending as long as it is in one of the client's queues, and*)
(* no longer, through any number of reconnects.                              *)
THEOREM ClientSignals == Spec => []ClientSignalsAccounted
<1> DEFINE Inv == ClientTypeOK /\ AgreeInv
<1>1. Init => AgreeInv
  BY AgreeInit
<1>2. Inv /\ [Next]_vars => AgreeInv'
  BY AgreeStep DEF ClientTypeOK
<1>3. Inv => ClientSignalsAccounted
  BY DEF AgreeInv, Agree, ClientSignalsAccounted
<1>4. QED
  BY <1>1, <1>2, <1>3, ClientType, PTL DEF Spec

-----------------------------------------------------------------------------
(* Messages and reconnects.                                                  *)

(* What is queued was submitted on this connection or while there was none;  *)
(* nothing is queued from before when an attempt begins.                     *)
AcrossInv ==
    /\ NotAcrossReconnects
    /\ \A m \in Contents(to_socket) : born[m] = 0 \/ born[m] = conn
    /\ actor \in {"connecting", "on_connect"} =>
         \A m \in Contents(to_socket) : born[m] = 0
    /\ \A m \in Messages : signal[m] = "none" => delivered[m] = 0

(* The part of most steps: the queue only loses messages, none of them       *)
(* becomes new, and an attempt begins with an empty queue only.              *)
Loses ==
    /\ Contents(to_socket') \subseteq Contents(to_socket)
    /\ \A m \in Messages : signal'[m] = "none" => signal[m] = "none"
    /\ actor' \in {"connecting", "on_connect"} =>
         actor \in {"connecting", "on_connect"} \/ Contents(to_socket) = {}

LEMMA LosesKeeps ==
    ASSUME AcrossInv, Loses, UNCHANGED <<conn, born, delivered>> PROVE AcrossInv'
  BY DEF AcrossInv, NotAcrossReconnects, Loses

LEMMA DroppedIsOld ==
    ASSUME NEW lost, NEW m \in Messages, Dropped(lost)[m] = "none"
    PROVE  signal[m] = "none"
  BY DEF Dropped

LEMMA FinishLoses ==
    ASSUME NEW left, NEW lost, Contents(left) \subseteq Contents(to_socket),
           Finish(left, lost)
    PROVE  Loses
<1>1. Contents(to_socket') \subseteq Contents(to_socket)
  BY EmptyQueue DEF Finish
<1>2. signal' = Dropped(lost) \/ signal' = Dropped(lost \cup Contents(left))
  BY DEF Finish
<1>3. \A m \in Messages : signal'[m] = "none" => signal[m] = "none"
  BY <1>2, DroppedIsOld
<1>4. QED
  BY <1>1, <1>3 DEF Finish, Loses

LEMMA AcrossStep ==
    ASSUME ClientTypes, AgreeInv, AcrossInv, [Next]_vars PROVE AcrossInv'
<1> USE DEF handleVars, sinkVars, streamVars, socketVars, history
<1>1. ASSUME UNCHANGED <<to_socket, signal, conn, born, delivered>>,
             actor' \in {"connecting", "on_connect"} =>
               actor \in {"connecting", "on_connect"} \/ Contents(to_socket) = {}
      PROVE  AcrossInv'
  BY <1>1, LosesKeeps DEF Loses
<1>2. CASE Quit
  BY <1>2, FinishLoses, LosesKeeps DEF Quit
<1>3. ASSUME to_socket # <<>>
      PROVE  /\ Head(to_socket) \in Contents(to_socket)
             /\ Contents(Tail(to_socket)) \subseteq Contents(to_socket)
  BY <1>3, TakenHead DEF ClientTypes, AgreeInv, Agree
<1>4. ASSUME NEW m \in Messages, Discard(m) PROVE AcrossInv'
  <2>1. Loses
    BY <1>3, <1>4, DroppedIsOld DEF Discard, Drained, Loses
  <2>2. QED
    BY <1>4, <2>1, LosesKeeps DEF Discard
<1>5. ASSUME NEW m \in Messages, CloseWhileConnecting(m) PROVE AcrossInv'
  <2>1. Loses
    BY <1>3, <1>5, FinishLoses DEF CloseWhileConnecting, Drained
  <2>2. QED
    BY <1>5, <2>1, LosesKeeps DEF CloseWhileConnecting
<1>6. CASE StartAttempt
  <2>1. Contents(to_socket) = {}
    BY <1>6, EmptyQueue DEF StartAttempt, Drained
  <2>2. QED
    BY <1>1, <1>6, <2>1 DEF StartAttempt
<1>7. CASE Connector \/ Sleeps \/ HandlerOk \/ Reconnect
  BY <1>1, <1>7 DEF Connector, ConnectorConnects, ConnectorFails, Sleeps,
     RetrySleepElapsed, CloseSleepElapsed, HandlerOk, Reconnect, Goto
<1>8. CASE NobodyLeft \/ Break \/ CallbackCloses
  BY <1>2, <1>8 DEF NobodyLeft, Break, CallbackCloses
<1>9. CASE NewSocket
  <2>1. UNCHANGED <<to_socket, signal, born, delivered>> /\ actor' = "select"
        /\ \A m \in Contents(to_socket) : born[m] = 0
    BY <1>9 DEF NewSocket, AcrossInv
  <2>2. QED
    BY <2>1 DEF AcrossInv, NotAcrossReconnects
<1>10. CASE Retry
  BY <1>1, <1>2, <1>10 DEF Retry, Goto
<1>11. ASSUME NEW m \in Messages, Forward(m) PROVE AcrossInv'
  <2>1. m \in Contents(to_socket) /\ signal[m] = "Sending"
    BY <1>3, <1>11 DEF Forward, AgreeInv, Agree
  <2>2. Loses
    <3>1. CASE ClosesClient(m)
      BY <1>3, <1>11, <3>1, FinishLoses DEF Forward
    <3>2. CASE ~ClosesClient(m)
      BY <1>3, <1>11, <3>2 DEF Forward, Loses
    <3>3. QED
      BY <3>1, <3>2
  <2>3. UNCHANGED <<conn, born>> /\ delivered' = [delivered EXCEPT ![m] = conn]
    BY <1>11 DEF Forward
  <2>4. delivered'[m] = conn /\ \A u \in Messages : u # m => delivered'[u] = delivered[u]
    BY <2>3 DEF ClientTypes
  <2>5. NotAcrossReconnects'
    BY <2>1, <2>3, <2>4 DEF AcrossInv, NotAcrossReconnects
  <2>6. \A u \in Messages : signal'[u] = "none" => delivered'[u] = 0
    BY <2>1, <2>2, <2>4 DEF AcrossInv, Loses
  <2>7. \A u \in Contents(to_socket)' : born'[u] = 0 \/ born'[u] = conn'
    BY <2>2, <2>3 DEF AcrossInv, Loses
  <2>8. actor' \notin {"connecting", "on_connect"}
    <3>1. CASE ClosesClient(m)
      BY <1>11, <3>1 DEF Forward, Finish
    <3>2. CASE ~ClosesClient(m)
      BY <1>11, <3>2 DEF Forward
    <3>3. QED
      BY <3>1, <3>2
  <2>9. QED
    BY <2>5, <2>6, <2>7, <2>8 DEF AcrossInv
<1>12. ASSUME NEW m \in Messages, ForwardFails(m) PROVE AcrossInv'
  <2>1. Loses
    BY <1>3, <1>12, DroppedIsOld DEF ForwardFails, Loses
  <2>2. QED
    BY <1>12, <2>1, LosesKeeps DEF ForwardFails
<1>13. CASE TakeItem
  <2>1. Head(stream) \in {"data", "close", "error"}
    BY <1>13, TakeHead DEF TakeItem, ClientTypes
  <2>2. actor' \in {"handler", "on_close", "on_disconnect"}
    BY <1>13, <2>1 DEF TakeItem
  <2>3. QED
    BY <1>1, <1>13, <2>2 DEF TakeItem
<1>14. CASE TakeEnd \/ TakeCall \/ Call
  BY <1>1, <1>14 DEF TakeEnd, TakeCall, Call, Goto
<1>15. CASE AwaitSinkClose
  <2>1. CASE GivesUp
    BY <1>15, <2>1, FinishLoses, LosesKeeps DEF AwaitSinkClose
  <2>2. CASE ~GivesUp
    BY <1>1, <1>15, <2>2 DEF AwaitSinkClose
  <2>3. QED
    BY <2>1, <2>2
<1>16. ASSUME NEW m \in Messages, Send(m) PROVE AcrossInv'
  <2>1. signal[m] = "none" /\ delivered[m] = 0 /\ m \notin Contents(to_socket)
    BY <1>16 DEF Send, AcrossInv, AgreeInv, Agree
  <2>2. UNCHANGED <<actor, conn, delivered>>
        /\ born' = [born EXCEPT ![m] = IF Up THEN conn ELSE 0]
    BY <1>16 DEF Send
  <2>3. /\ born'[m] = 0 \/ (born'[m] = conn /\ Up)
        /\ \A u \in Messages : u # m => born'[u] = born[u]
    BY <2>2 DEF ClientTypes
  <2>4. Contents(to_socket)' \subseteq Contents(to_socket) \cup {m}
    BY <1>16, AddedLast DEF Send, ClientTypes
  <2>5. Contents(to_socket) \subseteq Messages
    BY DEF ClientTypes, Contents
  <2>6. \A u \in Messages : signal'[u] = "none" => signal[u] = "none"
    <3>1. CASE actor = "done"
      BY <1>16, <3>1, DroppedIsOld DEF Send
    <3>2. CASE actor # "done"
      BY <1>16, <3>2 DEF Send, ClientTypes
    <3>3. QED
      BY <3>1, <3>2
  <2>7. NotAcrossReconnects'
    BY <2>1, <2>2, <2>3 DEF AcrossInv, NotAcrossReconnects
  <2>8. \A u \in Contents(to_socket)' : born'[u] = 0 \/ born'[u] = conn'
    BY <2>1, <2>2, <2>3, <2>4, <2>5 DEF AcrossInv
  <2>9. actor' \in {"connecting", "on_connect"} =>
          \A u \in Contents(to_socket)' : born'[u] = 0
    BY <2>1, <2>2, <2>3, <2>4, <2>5 DEF AcrossInv, Up
  <2>10. QED
    BY <2>2, <2>6, <2>7, <2>8, <2>9 DEF AcrossInv
<1>17. ASSUME NEW left \in {"calls", "none"}, DropHandles(left) PROVE AcrossInv'
  <2>1. CASE actor = "done"
    <3>1. Loses
      BY <1>17, <2>1, DroppedIsOld, EmptyQueue DEF DropHandles, Loses
    <3>2. QED
      BY <1>17, <3>1, LosesKeeps DEF DropHandles
  <2>2. CASE actor # "done"
    BY <1>1, <1>17, <2>2 DEF DropHandles
  <2>3. QED
    BY <2>1, <2>2
<1>18. ASSUME NEW e \in Connections, SinkSends(e) PROVE AcrossInv'
  <2>1. Loses
    BY <1>18 DEF SinkSends, Loses, ClientTypes
  <2>2. QED
    BY <1>18, <2>1, LosesKeeps DEF SinkSends
<1>a. ASSUME NEW e \in Connections, NEW lost, NEW rest,
             SinkLoses(e, lost, rest) \/ UNCHANGED <<signal, sink>>,
             UNCHANGED <<actor, to_socket>>
      PROVE  Loses
  BY <1>a, DroppedIsOld DEF SinkLoses, Loses
<1>19. ASSUME NEW e \in Connections, SinkFails(e) PROVE AcrossInv'
  <2>1. Loses
    BY <1>19, <1>a DEF SinkFails, SinkKeeps
  <2>2. QED
    BY <1>19, <2>1, LosesKeeps DEF SinkFails
<1>20. ASSUME NEW e \in Connections, SinkStops(e) PROVE AcrossInv'
  <2>1. Loses
    BY <1>20, <1>a DEF SinkStops, SinkKeeps
  <2>2. QED
    BY <1>20, <2>1, LosesKeeps DEF SinkStops
<1>21. ASSUME NEW e \in Connections, SinkDrops(e) PROVE AcrossInv'
  <2>1. Loses
    BY <1>21, <1>a DEF SinkDrops
  <2>2. QED
    BY <1>21, <2>1, LosesKeeps DEF SinkDrops
<1>22. ASSUME NEW item, StreamYields(item) \/ StreamEnds PROVE AcrossInv'
  BY <1>1, <1>22 DEF StreamYields, StreamEnds
<1>23. CASE UNCHANGED vars
  BY <1>1, <1>23 DEF vars
<1>24. QED
  BY <1>4, <1>5, <1>6, <1>7, <1>8, <1>9, <1>10, <1>11, <1>12, <1>13, <1>14,
     <1>15, <1>16, <1>17, <1>18, <1>19, <1>20, <1>21, <1>22, <1>23
     DEF Next, Draining, Callbacks, Outgoing, Incoming, Users, Sockets

(* No message that was submitted on one connection gets onto a later one.    *)
THEOREM NotAcross == Spec => []NotAcrossReconnects
<1> DEFINE Inv == ClientTypeOK /\ AgreeInv /\ AcrossInv
<1>1. Init => Inv
  <2>1. Init => AcrossInv
    BY EmptyQueue DEF Init, AcrossInv, NotAcrossReconnects
  <2>2. QED
    BY <2>1, TypeInit, AgreeInit
<1>2. Inv /\ ClientTypeOK' /\ [Next]_vars => Inv'
  BY AgreeStep, AcrossStep DEF ClientTypeOK
<1>3. Inv => NotAcrossReconnects
  BY DEF AcrossInv
<1>4. QED
  BY <1>1, <1>2, <1>3, ClientType, PTL DEF Spec

-----------------------------------------------------------------------------
(* The sockets under their owner.  Each message is where `delivered` says,   *)
(* later sockets are untouched, and a client between two connections holds   *)
(* nothing of a socket.                                                      *)
PlaceInv ==
    /\ \A m \in Contents(to_socket) : delivered[m] = 0
    /\ \A e \in Connections : \A m \in Contents(sink[e]) : delivered[m] = e

UnusedInv ==
    /\ \A e \in Connections : e > conn => sink[e] = <<>>
    /\ sink_open \subseteq 1..conn

ResetInv ==
    ~Held(conn) => /\ sink_result = "none" /\ result_taken = FALSE
                   /\ stream = <<>> /\ stream_over = FALSE

SocketsInv == PlaceInv /\ UnusedInv /\ ResetInv

(* What a step of one sink leaves alone.                                     *)
LEMMA OneSink ==
    ASSUME ClientTypes, AgreeInv, NEW e \in Connections,
           SinkSends(e) \/ SinkFails(e) \/ SinkStops(e) \/ SinkDrops(e)
    PROVE  /\ UNCHANGED <<actor, conn, to_socket, delivered, stream, stream_over,
                          result_taken>>
           /\ \A f \in Connections : f # e => sink'[f] = sink[f]
           /\ Contents(sink'[e]) \subseteq Contents(sink[e])
           /\ sink[e] = <<>> => sink'[e] = <<>>
           /\ \A m \in Messages : m \notin Contents(sink[e]) => signal'[m] = signal[m]
           /\ \A f : f # e => (f \in sink_open' <=> f \in sink_open)
           /\ sink_open' \subseteq sink_open
           /\ ~Held(e) => sink_result' = sink_result
<1> DEFINE Effect ==
             /\ \A f \in Connections : f # e => sink'[f] = sink[f]
             /\ Contents(sink'[e]) \subseteq Contents(sink[e])
             /\ sink[e] = <<>> => sink'[e] = <<>>
             /\ \A m \in Messages : m \notin Contents(sink[e]) => signal'[m] = signal[m]
<1>1. sink \in Queues /\ sink[e] \in Seq(Messages) /\ Distinct(sink[e])
  BY DEF ClientTypes, Queues, AgreeInv, Agree
<1>2. sink[e] # <<>> => /\ Head(sink[e]) \in Contents(sink[e])
                        /\ Contents(Tail(sink[e])) \subseteq Contents(sink[e])
  BY <1>1, TakenHead
<1>3. ASSUME sink[e] # <<>>, SinkLoses(e, {Head(sink[e])}, Tail(sink[e])) PROVE Effect
  BY <1>1, <1>2, <1>3 DEF SinkLoses, Dropped, Queues
<1>4. ASSUME SinkLoses(e, Contents(sink[e]), <<>>) PROVE Effect
  <2>1. Contents(<<>>) = {}
    BY EmptyQueue
  <2>2. QED
    BY <1>1, <1>4, <2>1 DEF SinkLoses, Dropped, Queues
<1>5. ASSUME SinkKeeps(e) PROVE Effect
  BY <1>4, <1>5 DEF SinkKeeps
<1>6. CASE SinkSends(e)
  <2>1. Effect
    BY <1>1, <1>2, <1>6 DEF SinkSends, Queues, ClientTypes
  <2>2. QED
    BY <1>6, <2>1 DEF SinkSends, handleVars, history
<1>7. CASE SinkFails(e)
  <2>1. Effect
    BY <1>3, <1>5, <1>7 DEF SinkFails
  <2>2. QED
    BY <1>7, <2>1 DEF SinkFails, handleVars, history
<1>8. CASE SinkStops(e)
  <2>1. Effect
    BY <1>5, <1>8 DEF SinkStops
  <2>2. QED
    BY <1>8, <2>1 DEF SinkStops, handleVars, history
<1>9. CASE SinkDrops(e)
  <2>1. Effect
    BY <1>4, <1>9 DEF SinkDrops
  <2>2. QED
    BY <1>9, <2>1 DEF SinkDrops, handleVars, history
<1>10. QED
  BY <1>6, <1>7, <1>8, <1>9

(* A step that moves no message into a queue.                                *)
Shrinks ==
    /\ Contents(to_socket') \subseteq Contents(to_socket)
    /\ \A e \in Connections : Contents(sink'[e]) \subseteq Contents(sink[e])
    /\ delivered' = delivered

LEMMA ShrinksKeeps == ASSUME PlaceInv, Shrinks PROVE PlaceInv'
  BY DEF PlaceInv, Shrinks

LEMMA FinishShrinks ==
    ASSUME NEW left, NEW lost, Contents(left) \subseteq Contents(to_socket),
           Finish(left, lost)
    PROVE  Contents(to_socket') \subseteq Contents(to_socket)
  BY EmptyQueue DEF Finish

LEMMA PlaceStep ==
    ASSUME ClientTypes, AgreeInv, AcrossInv, PlaceInv, [Next]_vars PROVE PlaceInv'
<1> USE DEF handleVars, sinkVars, streamVars, socketVars, history
<1>1. ASSUME UNCHANGED <<to_socket, sink, delivered>> PROVE PlaceInv'
  BY <1>1, ShrinksKeeps DEF Shrinks
<1>2. ASSUME Contents(to_socket') \subseteq Contents(to_socket),
             UNCHANGED <<sink, delivered>>
      PROVE  PlaceInv'
  BY <1>2, ShrinksKeeps DEF Shrinks
<1>3. CASE Quit
  BY <1>2, <1>3, FinishShrinks DEF Quit
<1>4. ASSUME to_socket # <<>>
      PROVE  /\ Head(to_socket) \in Contents(to_socket)
             /\ Contents(Tail(to_socket)) = Contents(to_socket) \ {Head(to_socket)}
  BY <1>4, TakenHead DEF ClientTypes, AgreeInv, Agree
<1>5. ASSUME NEW m \in Messages, Discard(m) PROVE PlaceInv'
  BY <1>2, <1>4, <1>5 DEF Discard, Drained
<1>6. ASSUME NEW m \in Messages, CloseWhileConnecting(m) PROVE PlaceInv'
  BY <1>2, <1>4, <1>6, FinishShrinks DEF CloseWhileConnecting, Drained
<1>7. CASE StartAttempt \/ Connector \/ Sleeps
  BY <1>1, <1>7 DEF StartAttempt, Connector, ConnectorConnects, ConnectorFails,
     Sleeps, RetrySleepElapsed, CloseSleepElapsed, Goto
<1>8. CASE NobodyLeft \/ Break \/ CallbackCloses
  BY <1>3, <1>8 DEF NobodyLeft, Break, CallbackCloses
<1>9. CASE NewSocket \/ HandlerOk \/ Reconnect
  BY <1>1, <1>9 DEF NewSocket, HandlerOk, Reconnect, Goto
<1>10. CASE Retry
  BY <1>1, <1>3, <1>10 DEF Retry, Goto
<1>11. ASSUME NEW m \in Messages, Forward(m) PROVE PlaceInv'
  <2>1. /\ m \in Contents(to_socket)
        /\ Contents(Tail(to_socket)) = Contents(to_socket) \ {m}
        /\ conn \in Connections
        /\ sink' = [sink EXCEPT ![conn] = Append(@, m)]
        /\ delivered' = [delivered EXCEPT ![m] = conn]
    BY <1>4, <1>11 DEF Forward, ClientTypes
  <2>2. Contents(to_socket') \subseteq Contents(to_socket) \ {m}
    <3>1. CASE ClosesClient(m)
      BY <1>11, <2>1, <3>1, EmptyQueue DEF Forward, Finish
    <3>2. CASE ~ClosesClient(m)
      BY <1>11, <2>1, <3>2 DEF Forward
    <3>3. QED
      BY <3>1, <3>2
  <2>3. /\ delivered'[m] = conn
        /\ \A u : u # m => delivered'[u] = delivered[u]
    BY <2>1 DEF ClientTypes
  <2>4. Contents(sink'[conn]) = Contents(sink[conn]) \cup {m}
    <3>1. sink[conn] \in Seq(Messages) /\ sink'[conn] = Append(sink[conn], m)
      BY <2>1 DEF ClientTypes
    <3>2. QED
      BY <3>1, AddedLast
  <2>5. \A e \in Connections : e # conn => sink'[e] = sink[e] /\ m \notin Contents(sink[e])
    BY <2>1 DEF ClientTypes, AgreeInv, Agree
  <2>6. \A u \in Contents(to_socket') : delivered'[u] = 0
    BY <2>2, <2>3 DEF PlaceInv
  <2>7. \A e \in Connections : \A u \in Contents(sink'[e]) : delivered'[u] = e
    BY <2>3, <2>4, <2>5 DEF PlaceInv
  <2>8. QED
    BY <2>6, <2>7 DEF PlaceInv
<1>12. ASSUME NEW m \in Messages, ForwardFails(m) PROVE PlaceInv'
  BY <1>2, <1>4, <1>12 DEF ForwardFails
<1>13. CASE Incoming \/ TakeCall \/ Call
  BY <1>1, <1>13 DEF Incoming, TakeItem, TakeEnd, TakeCall, Call, Goto
<1>14. CASE AwaitSinkClose
  <2>1. CASE GivesUp
    BY <1>2, <1>14, <2>1, FinishShrinks DEF AwaitSinkClose
  <2>2. CASE ~GivesUp
    BY <1>1, <1>14, <2>2 DEF AwaitSinkClose
  <2>3. QED
    BY <2>1, <2>2
<1>15. ASSUME NEW m \in Messages, Send(m) PROVE PlaceInv'
  <2>1. delivered[m] = 0 /\ UNCHANGED <<sink, delivered>>
    BY <1>15 DEF Send, AcrossInv
  <2>2. Contents(to_socket') \subseteq Contents(to_socket) \cup {m}
    BY <1>15, AddedLast DEF Send, ClientTypes
  <2>3. QED
    BY <2>1, <2>2 DEF PlaceInv
<1>16. ASSUME NEW left \in {"calls", "none"}, DropHandles(left) PROVE PlaceInv'
  BY <1>2, <1>16, EmptyQueue DEF DropHandles
<1>17. ASSUME NEW e \in Connections,
              SinkSends(e) \/ SinkFails(e) \/ SinkStops(e) \/ SinkDrops(e)
       PROVE  PlaceInv'
  BY <1>17, OneSink, ShrinksKeeps DEF Shrinks
<1>18. ASSUME NEW item, StreamYields(item) \/ StreamEnds PROVE PlaceInv'
  BY <1>1, <1>18 DEF StreamYields, StreamEnds
<1>19. CASE UNCHANGED vars
  BY <1>1, <1>19 DEF vars
<1>20. QED
  BY <1>5, <1>6, <1>7, <1>8, <1>9, <1>10, <1>11, <1>12, <1>13, <1>14, <1>15,
     <1>16, <1>17, <1>18, <1>19
     DEF Next, Draining, Callbacks, Outgoing, Users, Sockets

LEMMA UnusedStep ==
    ASSUME ClientTypes, AgreeInv, UnusedInv, [Next]_vars PROVE UnusedInv'
<1> USE DEF handleVars, sinkVars, streamVars, socketVars, history
<1>1. ASSUME UNCHANGED <<sink, sink_open, conn>> PROVE UnusedInv'
  BY <1>1 DEF UnusedInv
<1>2. CASE Draining
  BY <1>1, <1>2 DEF Draining, Discard, CloseWhileConnecting, StartAttempt,
     NobodyLeft, Quit
<1>3. CASE Connector \/ Sleeps
  BY <1>1, <1>3 DEF Connector, ConnectorConnects, ConnectorFails, Sleeps,
     RetrySleepElapsed, CloseSleepElapsed, Goto
<1>4. CASE NewSocket
  BY <1>4 DEF NewSocket, UnusedInv, ClientTypes, Connections
<1>5. CASE Retry \/ HandlerOk \/ Reconnect \/ CallbackCloses \/ Break
  BY <1>1, <1>5 DEF Retry, HandlerOk, Reconnect, CallbackCloses, Break, Quit, Goto
<1>6. ASSUME NEW m \in Messages, Forward(m) PROVE UnusedInv'
  <2>1. /\ conn \in Connections
        /\ sink' = [sink EXCEPT ![conn] = Append(@, m)]
        /\ UNCHANGED <<conn, sink_open>>
    BY <1>6 DEF Forward, ClientTypes
  <2>2. \A e \in Connections : e > conn => e # conn
    BY <2>1 DEF Connections
  <2>3. \A e \in Connections : e # conn => sink'[e] = sink[e]
    BY <2>1 DEF ClientTypes
  <2>4. QED
    BY <2>1, <2>2, <2>3 DEF UnusedInv
<1>7. ASSUME NEW m \in Messages, ForwardFails(m) PROVE UnusedInv'
  BY <1>1, <1>7 DEF ForwardFails
<1>8. CASE Incoming \/ AwaitSinkClose \/ TakeCall \/ Users
  BY <1>1, <1>8 DEF Incoming, TakeItem, TakeEnd, AwaitSinkClose, TakeCall, Users,
     Send, Call, DropHandles, Goto
<1>9. ASSUME NEW e \in Connections,
             SinkSends(e) \/ SinkFails(e) \/ SinkStops(e) \/ SinkDrops(e)
      PROVE  UnusedInv'
  <2>1. /\ conn' = conn
        /\ \A f \in Connections : sink[f] = <<>> => sink'[f] = <<>>
        /\ sink_open' \subseteq sink_open
    BY <1>9, OneSink
  <2>2. QED
    BY <2>1 DEF UnusedInv
<1>10. ASSUME NEW item, StreamYields(item) \/ StreamEnds PROVE UnusedInv'
  BY <1>1, <1>10 DEF StreamYields, StreamEnds
<1>11. CASE UNCHANGED vars
  BY <1>1, <1>11 DEF vars
<1>12. QED
  BY <1>2, <1>3, <1>4, <1>5, <1>6, <1>7, <1>8, <1>9, <1>10, <1>11
     DEF Next, Callbacks, Outgoing, Sockets

(* The client has let go of its socket, or goes on holding it.               *)
LEMMA ResetStep ==
    ASSUME ClientTypes, AgreeInv, ResetInv, [Next]_vars PROVE ResetInv'
<1> USE DEF handleVars, sinkVars, streamVars, socketVars, history, Held, Up
<1>1. ASSUME DropSocket PROVE ResetInv'
  BY <1>1 DEF ResetInv, DropSocket
<1>2. ASSUME UNCHANGED <<sink_result, result_taken, stream, stream_over>>,
             Held(conn)' \/ ~Held(conn)
      PROVE  ResetInv'
  BY <1>2 DEF ResetInv
<1>3. ASSUME NEW left, NEW lost, Finish(left, lost) PROVE ResetInv'
  BY <1>1, <1>3 DEF Finish
<1>4. CASE Draining
  BY <1>2, <1>3, <1>4 DEF Draining, Discard, CloseWhileConnecting, StartAttempt,
     NobodyLeft, Quit
<1>5. CASE Connector \/ Sleeps
  BY <1>2, <1>5 DEF Connector, ConnectorConnects, ConnectorFails, Sleeps,
     RetrySleepElapsed, CloseSleepElapsed, Goto
<1>6. CASE NewSocket
  BY <1>2, <1>6 DEF NewSocket
<1>7. CASE Retry \/ HandlerOk \/ CallbackCloses \/ Break
  BY <1>2, <1>3, <1>7 DEF Retry, HandlerOk, CallbackCloses, Break, Quit, Goto
<1>8. CASE Reconnect
  BY <1>1, <1>8 DEF Reconnect
<1>9. ASSUME NEW m \in Messages, Forward(m) PROVE ResetInv'
  <2>1. CASE ClosesClient(m)
    BY <1>3, <1>9, <2>1 DEF Forward
  <2>2. CASE ~ClosesClient(m)
    BY <1>2, <1>9, <2>2 DEF Forward
  <2>3. QED
    BY <2>1, <2>2
<1>10. ASSUME NEW m \in Messages, ForwardFails(m) PROVE ResetInv'
  BY <1>2, <1>10 DEF ForwardFails
<1>11. CASE TakeEnd \/ TakeCall \/ Users
  BY <1>2, <1>11 DEF TakeEnd, TakeCall, Users, Send, Call, DropHandles, Goto
<1>12. CASE TakeItem
  <2>1. Head(stream) \in {"data", "close", "error"}
    BY <1>12, TakeHead DEF TakeItem, ClientTypes
  <2>2. actor' \in {"handler", "on_close", "on_disconnect"} /\ conn' = conn
    BY <1>12, <2>1 DEF TakeItem
  <2>3. QED
    BY <2>2 DEF ResetInv
<1>13. CASE AwaitSinkClose
  <2>1. CASE GivesUp
    BY <1>3, <1>13, <2>1 DEF AwaitSinkClose
  <2>2. CASE ~GivesUp
    BY <1>13, <2>2 DEF AwaitSinkClose, ResetInv
  <2>3. QED
    BY <2>1, <2>2
<1>14. ASSUME NEW e \in Connections,
              SinkSends(e) \/ SinkFails(e) \/ SinkStops(e) \/ SinkDrops(e)
       PROVE  ResetInv'
  <2>1. /\ UNCHANGED <<actor, conn, stream, stream_over, result_taken>>
        /\ ~Held(e) => sink_result' = sink_result
    BY <1>14, OneSink
  <2>2. QED
    BY <2>1 DEF ResetInv
<1>15. ASSUME NEW item, StreamYields(item) \/ StreamEnds PROVE ResetInv'
  BY <1>15 DEF StreamYields, StreamEnds, ResetInv
<1>16. CASE UNCHANGED vars
  BY <1>2, <1>16 DEF vars
<1>17. QED
  BY <1>4, <1>5, <1>6, <1>7, <1>8, <1>9, <1>10, <1>11, <1>12, <1>13, <1>14,
     <1>15, <1>16 DEF Next, Callbacks, Outgoing, Incoming, Sockets

ClientInv == ClientTypeOK /\ AgreeInv /\ AcrossInv /\ SocketsInv

(* Each message is in the queue that the records say, no socket is used      *)
(* before its connection, and nothing is left of one that was dropped.       *)
THEOREM ClientInvariant == Spec => []ClientInv
<1>1. Init => ClientInv
  <2>1. Init => AcrossInv
    BY EmptyQueue DEF Init, AcrossInv, NotAcrossReconnects
  <2>2. Init => SocketsInv
    BY EmptyQueue, ClientAssumption
       DEF Init, SocketsInv, PlaceInv, UnusedInv, ResetInv, Connections
  <2>3. QED
    BY <2>1, <2>2, TypeInit, AgreeInit DEF ClientInv
<1>2. ClientInv /\ ClientTypeOK' /\ [Next]_vars => ClientInv'
  BY AgreeStep, AcrossStep, PlaceStep, UnusedStep, ResetStep
     DEF ClientInv, SocketsInv, ClientTypeOK
<1>3. QED
  BY <1>1, <1>2, ClientType, PTL DEF Spec

-----------------------------------------------------------------------------
(* A step of the client as the owner of connection e's socket sees it.       *)

(* Messages that are not on e may change.                                    *)
LEMMA SameSignals ==
    ASSUME NEW e, delivered' = delivered,
           \A m \in Messages : delivered[m] = e => signal'[m] = signal[m]
    PROVE  SignalsOn(e)' = SignalsOn(e)
  BY DEF SignalsOn

LEMMA SameQueue ==
    ASSUME NEW e, sink'[e] = sink[e], e \in sink_open' <=> e \in sink_open
    PROVE  QueueOn(e)' = QueueOn(e)
  BY DEF QueueOn

(* The signals of messages that wait in the client's queue are not seen.     *)
LEMMA WaitingUnseen ==
    ASSUME NEW e \in Connections, PlaceInv, NEW lost, lost \subseteq Contents(to_socket),
           signal' = Dropped(lost), delivered' = delivered
    PROVE  SignalsOn(e)' = SignalsOn(e)
<1>1. ASSUME NEW m \in Messages, delivered[m] = e PROVE signal'[m] = signal[m]
  <2>1. m \notin Contents(to_socket)
    BY <1>1 DEF PlaceInv, Connections
  <2>2. QED
    BY <2>1 DEF Dropped
<1>2. QED
  BY <1>1, SameSignals

(* A step elsewhere.                                                         *)
LEMMA Elsewhere ==
    ASSUME NEW e \in Connections,
           QueueOn(e)' = QueueOn(e), SignalsOn(e)' = SignalsOn(e),
           e \in sink_open' <=> e \in sink_open, conn' = conn,
           Held(e)' <=> Held(e),
           Held(e) => UNCHANGED <<sink_result, result_taken, stream, stream_over>>
    PROVE  UNCHANGED Owned(e)!vars
<1>1. CASE Held(e)
  BY <1>1 DEF Owned!vars, Owned!sinkVars, Owned!heldVars, Owned!ownerVars
<1>2. CASE ~Held(e)
  BY <1>2 DEF Owned!vars, Owned!sinkVars, Owned!heldVars, Owned!ownerVars
<1>3. QED
  BY <1>1, <1>2

(* The client drops the Socket, if it is that of e.                          *)
LEMMA Leaves ==
    ASSUME NEW e \in Connections,
           QueueOn(e)' = QueueOn(e), SignalsOn(e)' = SignalsOn(e),
           e \in sink_open' <=> e \in sink_open, conn' = conn,
           ~Held(e)', UnusedInv
    PROVE  Owned(e)!Leave \/ UNCHANGED Owned(e)!vars
<1>1. CASE Held(e)
  <2>1. ~(e > conn)
    BY <1>1 DEF Held, Connections
  <2>2. Owned(e)!LetGo
    BY <1>1, <2>1 DEF Owned!LetGo
  <2>3. QED
    BY <2>1, <2>2 DEF Owned!Leave
<1>2. CASE ~Held(e)
  BY <1>2, Elsewhere
<1>3. QED
  BY <1>1, <1>2

(* The task ends without a message for a sink.                               *)
LEMMA FinishLeaves ==
    ASSUME NEW e \in Connections, PlaceInv, UnusedInv, NEW left, NEW lost,
           lost \subseteq Contents(to_socket), Contents(left) \subseteq Contents(to_socket),
           Finish(left, lost), UNCHANGED <<conn, sink, sink_open, delivered>>
    PROVE  Owned(e)!Leave \/ UNCHANGED Owned(e)!vars
<1>1. signal' = Dropped(lost) \/ signal' = Dropped(lost \cup Contents(left))
  BY DEF Finish
<1>2. SignalsOn(e)' = SignalsOn(e)
  BY <1>1, WaitingUnseen
<1>3. QueueOn(e)' = QueueOn(e)
  BY SameQueue
<1>4. ~Held(e)'
  BY DEF Finish, Held, Up
<1>5. QED
  BY <1>2, <1>3, <1>4, Leaves

LEMMA QuitLeaves ==
    ASSUME NEW e \in Connections, PlaceInv, UnusedInv, Quit
    PROVE  Owned(e)!Leave \/ UNCHANGED Owned(e)!vars
<1>1. Finish(to_socket, {}) /\ UNCHANGED <<conn, sink, sink_open, delivered>>
  BY DEF Quit, sinkVars, history
<1>2. QED
  BY <1>1, FinishLeaves

(* The task moves on, without taking or dropping a Socket.                   *)
LEMMA MovesOn ==
    ASSUME NEW e \in Connections,
           UNCHANGED <<conn, sink, sink_open, signal, delivered, streamVars>>,
           Held(e)' <=> Held(e)
    PROVE  UNCHANGED Owned(e)!vars
<1>1. SignalsOn(e)' = SignalsOn(e)
  BY SameSignals
<1>2. QueueOn(e)' = QueueOn(e)
  BY SameQueue
<1>3. QED
  BY <1>1, <1>2, Elsewhere DEF streamVars

(* ... failing messages that it has not put on a sink.                       *)
LEMMA MovesOnDropping ==
    ASSUME NEW e \in Connections, PlaceInv, NEW lost, lost \subseteq Contents(to_socket),
           signal' = Dropped(lost),
           UNCHANGED <<conn, sink, sink_open, delivered, streamVars>>,
           Held(e)' <=> Held(e)
    PROVE  UNCHANGED Owned(e)!vars
<1>1. SignalsOn(e)' = SignalsOn(e)
  BY WaitingUnseen
<1>2. QueueOn(e)' = QueueOn(e)
  BY SameQueue
<1>3. QED
  BY <1>1, <1>2, Elsewhere DEF streamVars

(* Forward is the owner's Submit, and its departure if it is a Close.        *)
LEMMA ForwardSubmits ==
    ASSUME NEW e \in Connections, ClientTypes, AgreeInv, PlaceInv, UnusedInv,
           NEW m \in Messages, Forward(m)
    PROVE  Owned(e)!Next \/ UNCHANGED Owned(e)!vars
<1> DEFINE left == Tail(to_socket)
<1>1. /\ m \in Contents(to_socket)
      /\ Contents(left) = Contents(to_socket) \ {m}
      /\ conn \in sink_open /\ conn \in Connections
      /\ sink' = [sink EXCEPT ![conn] = Append(@, m)]
      /\ delivered' = [delivered EXCEPT ![m] = conn]
      /\ UNCHANGED <<conn, sink_open>>
  <2>1. to_socket # <<>> /\ m = Head(to_socket)
    BY DEF Forward
  <2>2. m \in Contents(to_socket) /\ Contents(left) = Contents(to_socket) \ {m}
    BY <2>1, TakenHead DEF ClientTypes, AgreeInv, Agree
  <2>3. QED
    BY <2>2 DEF Forward, ClientTypes
<1>2. /\ delivered[m] = 0 /\ signal[m] = "Sending"
      /\ delivered'[m] = conn
      /\ \A u \in Messages : u # m => delivered'[u] = delivered[u]
  BY <1>1 DEF PlaceInv, AgreeInv, Agree, ClientTypes
<1>3. signal' = signal \/ signal' = Dropped({}) \/ signal' = Dropped(Contents(left))
  <2>1. CASE ClosesClient(m)
    <3>1. Finish(left, {})
      BY <2>1 DEF Forward
    <3>2. signal' = Dropped({}) \/ signal' = Dropped({} \cup Contents(left))
      BY <3>1 DEF Finish
    <3>3. {} \cup Contents(left) = Contents(left)
      OBVIOUS
    <3>4. QED
      BY <3>2, <3>3
  <2>2. CASE ~ClosesClient(m)
    BY <2>2 DEF Forward
  <2>3. QED
    BY <2>1, <2>2
<1>4. /\ signal'[m] = "Sending"
      /\ \A u \in Messages : u \notin Contents(to_socket) => signal'[u] = signal[u]
  BY <1>1, <1>2, <1>3 DEF Dropped
<1>5. \A u \in Messages : u # m /\ delivered[u] = e => signal'[u] = signal[u]
  <2>1. \A u \in Contents(to_socket) : delivered[u] # e
    BY DEF PlaceInv, Connections
  <2>2. QED
    BY <1>4, <2>1
<1>6. Held(e) <=> e = conn
  BY DEF Forward, Held, Up
<1>7. \/ UNCHANGED <<sink_result, result_taken, stream, stream_over>> /\ Held(e)' /\ e = conn
      \/ UNCHANGED <<sink_result, result_taken, stream, stream_over>> /\ e # conn /\ ~Held(e)'
      \/ ~Held(e)'
  <2>1. CASE ClosesClient(m)
    BY <2>1 DEF Forward, Finish, Held, Up
  <2>2. CASE ~ClosesClient(m)
    BY <1>1, <2>2 DEF Forward, Held, Up, streamVars
  <2>3. QED
    BY <2>1, <2>2
<1>8. CASE e = conn
  <2>1. QueueOn(e)' = Append(QueueOn(e), m)
    BY <1>1, <1>8 DEF QueueOn, ClientTypes
  <2>2. SignalsOn(e)[m] = "none"
    BY <1>2 DEF SignalsOn, Connections
  <2>3. SignalsOn(e)' = [SignalsOn(e) EXCEPT ![m] = "Sending"]
    BY <1>2, <1>4, <1>5, <1>8 DEF SignalsOn
  <2>4. ~(e > conn) /\ Held(e) /\ e \in sink_open /\ e \in sink_open'
    BY <1>1, <1>6, <1>8 DEF Connections
  <2>5. Owned(e)!LetGo
    <3>1. ~(e > conn')
      BY <1>1, <2>4
    <3>2. CASE Held(e)'
      BY <1>7, <2>4, <3>1, <3>2 DEF Owned!LetGo
    <3>3. CASE ~Held(e)'
      BY <2>4, <3>1, <3>3 DEF Owned!LetGo
    <3>4. QED
      BY <3>2, <3>3
  <2>6. Owned(e)!Submit(m)
    BY <1>1, <2>1, <2>2, <2>3, <2>4, <2>5 DEF Owned!Submit
  <2>7. QED
    BY <2>6 DEF Owned!Next, Owned!OwnerStep
<1>9. CASE e # conn
  <2>1. QueueOn(e)' = QueueOn(e)
    BY <1>1, <1>9, SameQueue DEF ClientTypes
  <2>2. SignalsOn(e)' = SignalsOn(e)
    <3>1. \A u \in Messages : (delivered'[u] = e <=> delivered[u] = e)
      BY <1>2, <1>9 DEF Connections
    <3>2. \A u \in Messages : delivered[u] = e => signal'[u] = signal[u]
      BY <1>2, <1>5 DEF Connections
    <3>3. QED
      BY <3>1, <3>2 DEF SignalsOn
  <2>3. ~Held(e)'
    BY <1>1, <1>9 DEF Held
  <2>4. QED
    BY <1>1, <1>6, <1>9, <2>1, <2>2, <2>3, Elsewhere
<1>10. QED
  BY <1>8, <1>9

(* The messages in a sink's queue are those of its socket that are Sending.  *)
LEMMA SendingOn ==
    ASSUME NEW e \in Connections, ClientTypes, AgreeInv, PlaceInv
    PROVE  Contents(sink[e]) = Owned(e)!Sending
<1>1. Contents(sink[e]) \subseteq Messages
  BY DEF Contents, ClientTypes
<1>2. ASSUME NEW m \in Messages
      PROVE  m \in Contents(sink[e]) <=> SignalsOn(e)[m] = "Sending"
  <2>1. signal[m] = "Sending" <=>
          m \in Contents(to_socket) \/ \E f \in Connections : m \in Contents(sink[f])
    BY DEF AgreeInv, Agree
  <2>2. CASE m \in Contents(sink[e])
    BY <2>1, <2>2 DEF PlaceInv, SignalsOn
  <2>3. CASE m \notin Contents(sink[e])
    <3>1. ASSUME delivered[m] = e PROVE signal[m] # "Sending"
      BY <2>1, <2>3, <3>1 DEF PlaceInv, Connections
    <3>2. QED
      BY <2>3, <3>1 DEF SignalsOn
  <2>4. QED
    BY <2>2, <2>3
<1>3. QED
  BY <1>1, <1>2 DEF Owned!Sending

(* What one sink loses fails for its socket's owner.                         *)
LEMMA LosesFails ==
    ASSUME NEW e \in Connections, PlaceInv, NEW lost, lost \subseteq Contents(sink[e]),
           Contents(sink[e]) \subseteq Messages,
           signal' = Dropped(lost), delivered' = delivered
    PROVE  Owned(e)!Fails(lost)
<1>1. \A m \in lost : delivered[m] = e
  BY DEF PlaceInv
<1>2. QED
  BY <1>1 DEF Owned!Fails, SignalsOn, Dropped

LEMMA KeepsOrFails ==
    ASSUME NEW e \in Connections, ClientTypes, AgreeInv, PlaceInv, SinkKeeps(e),
           delivered' = delivered
    PROVE  SignalsOn(e)' = SignalsOn(e) \/ (~Held(e) /\ Owned(e)!Fails(Owned(e)!Sending))
<1>1. Contents(sink[e]) \subseteq Messages
  BY DEF Contents, ClientTypes
<1>2. CASE UNCHANGED <<signal, sink>>
  BY <1>2, SameSignals
<1>3. CASE ~Held(e) /\ SinkLoses(e, Contents(sink[e]), <<>>)
  BY <1>1, <1>3, LosesFails, SendingOn DEF SinkLoses
<1>4. QED
  BY <1>2, <1>3 DEF SinkKeeps

(* The actions of e's own sink.                                              *)
LEMMA SinkPromise ==
    ASSUME NEW e \in Connections, ClientTypes, AgreeInv, PlaceInv, UnusedInv,
           SinkSends(e) \/ SinkFails(e) \/ SinkStops(e) \/ SinkDrops(e)
    PROVE  Owned(e)!SocketStep
<1> USE DEF handleVars, history
<1>1. /\ UNCHANGED <<actor, conn, delivered, stream, stream_over, result_taken>>
      /\ ~Held(e) => sink_result' = sink_result
  BY OneSink
<1>2. Held(e)' <=> Held(e)
  BY <1>1 DEF Held, Up
<1>3. sink[e] \in Seq(Messages) /\ Contents(sink[e]) \subseteq Messages
  BY DEF ClientTypes, Contents
<1>4. sink[e] # <<>> => Head(sink[e]) \in Messages /\ Head(sink[e]) \in Contents(sink[e])
  BY <1>3, TakeHead, TakenHead DEF AgreeInv, Agree
<1>5. e \in sink_open \/ sink[e] # <<>> => ~(e > conn)
  BY DEF UnusedInv, ClientTypes, Connections
<1>6. CASE SinkSends(e)
  <2>1. /\ e \in sink_open /\ sink[e] # <<>>
        /\ sink'[e] = Tail(sink[e]) /\ sink_open' = sink_open /\ sink_result' = sink_result
        /\ signal' = [signal EXCEPT ![Head(sink[e])] = "Sent"]
    BY <1>6 DEF SinkSends, ClientTypes
  <2>2. QueueOn(e) = sink[e] /\ QueueOn(e)' = Tail(sink[e])
    BY <2>1 DEF QueueOn
  <2>3. SignalsOn(e)' = [SignalsOn(e) EXCEPT ![Head(sink[e])] = "Sent"]
    BY <1>1, <1>4, <2>1 DEF SignalsOn, ClientTypes, PlaceInv
  <2>4. Owned(e)!Deliver
    BY <1>1, <1>2, <2>1, <2>2, <2>3 DEF Owned!Deliver, Owned!heldVars, Owned!ownerVars
  <2>5. QED
    BY <2>4 DEF Owned!SocketStep
<1>7. CASE SinkFails(e)
  <2>1. /\ e \in sink_open /\ e \notin sink_open'
        /\ Held(e) => sink_result' \in {"lost", "other"}
    BY <1>7 DEF SinkFails
  <2>2. QueueOn(e) = sink[e] /\ QueueOn(e)' = <<>>
    BY <2>1 DEF QueueOn
  <2>3. \/ SignalsOn(e)' = SignalsOn(e)
        \/ QueueOn(e) # <<>> /\ Owned(e)!Fails({Head(QueueOn(e))})
        \/ ~Held(e) /\ Owned(e)!Fails(Owned(e)!Sending)
    <3>1. CASE SinkKeeps(e)
      BY <1>1, <3>1, KeepsOrFails
    <3>2. CASE sink[e] # <<>> /\ SinkLoses(e, {Head(sink[e])}, Tail(sink[e]))
      BY <1>1, <1>3, <1>4, <2>2, <3>2, LosesFails DEF SinkLoses
    <3>3. QED
      BY <1>7, <3>1, <3>2 DEF SinkFails
  <2>4. ~(e > conn) /\ ~(e > conn')
    BY <1>1, <1>5, <2>1
  <2>5. Owned(e)!Stop("failed")
    BY <1>1, <1>2, <2>1, <2>2, <2>3, <2>4 DEF Owned!Stop, Owned!Held, Owned!heldVars
  <2>6. QED
    BY <2>5 DEF Owned!SocketStep
<1>8. CASE SinkStops(e)
  <2>1. /\ e \in sink_open /\ e \notin sink_open'
        /\ Held(e) => sink_result' = "ok" /\ stream_over
    BY <1>8 DEF SinkStops
  <2>2. QueueOn(e)' = <<>>
    BY <2>1 DEF QueueOn
  <2>3. \/ SignalsOn(e)' = SignalsOn(e)
        \/ ~Held(e) /\ Owned(e)!Fails(Owned(e)!Sending)
    BY <1>1, <1>8, KeepsOrFails DEF SinkStops
  <2>4. ~(e > conn) /\ ~(e > conn')
    BY <1>1, <1>5, <2>1
  <2>5. Owned(e)!Stop("ok")
    BY <1>1, <1>2, <2>1, <2>2, <2>3, <2>4 DEF Owned!Stop, Owned!Held, Owned!heldVars
  <2>6. QED
    BY <2>5 DEF Owned!SocketStep
<1>9. CASE SinkDrops(e)
  <2>1. /\ e \notin sink_open /\ ~Held(e) /\ sink[e] # <<>>
        /\ sink_open' = sink_open /\ signal' = Dropped(Contents(sink[e]))
    BY <1>9 DEF SinkDrops, SinkLoses
  <2>2. QueueOn(e) = <<>> /\ QueueOn(e)' = <<>>
    BY <2>1 DEF QueueOn
  <2>3. Owned(e)!Fails(Owned(e)!Sending)
    BY <1>1, <1>3, <2>1, LosesFails, SendingOn
  <2>4. ~(e > conn) /\ ~(e > conn')
    BY <1>1, <1>5, <2>1
  <2>5. Owned(e)!DropRest
    BY <1>1, <1>2, <2>1, <2>2, <2>3, <2>4 DEF Owned!DropRest, Owned!heldVars, Owned!ownerVars
  <2>6. QED
    BY <2>5 DEF Owned!SocketStep
<1>10. QED
  BY <1>6, <1>7, <1>8, <1>9

(* Those of another connection's.                                            *)
LEMMA OtherSink ==
    ASSUME NEW e \in Connections, NEW f \in Connections, f # e,
           ClientTypes, AgreeInv, PlaceInv, UnusedInv,
           SinkSends(f) \/ SinkFails(f) \/ SinkStops(f) \/ SinkDrops(f)
    PROVE  UNCHANGED Owned(e)!vars
<1>1. /\ UNCHANGED <<actor, conn, delivered, stream, stream_over, result_taken>>
      /\ sink'[e] = sink[e]
      /\ \A m \in Messages : m \notin Contents(sink[f]) => signal'[m] = signal[m]
      /\ e \in sink_open' <=> e \in sink_open
      /\ ~Held(f) => sink_result' = sink_result
  BY OneSink
<1>2. SignalsOn(e)' = SignalsOn(e)
  BY <1>1, SameSignals DEF PlaceInv
<1>3. QueueOn(e)' = QueueOn(e)
  BY <1>1, SameQueue
<1>4. Held(e)' <=> Held(e)
  BY <1>1 DEF Held, Up
<1>5. Held(e) => ~Held(f)
  BY DEF Held
<1>6. QED
  BY <1>1, <1>2, <1>3, <1>4, <1>5, Elsewhere

(* A new Socket is the next one that was not used yet, in its first state.   *)
LEMMA NewSocketUnseen ==
    ASSUME NEW e \in Connections, ClientTypes, UnusedInv, ResetInv, NewSocket
    PROVE  UNCHANGED Owned(e)!vars
<1>1. /\ conn' = conn + 1 /\ sink_open' = sink_open \cup {conn + 1}
      /\ UNCHANGED <<sink, signal, delivered, sink_result, result_taken, stream, stream_over>>
      /\ \A f : ~Held(f)
      /\ \A f : Held(f)' <=> f = conn + 1
      /\ conn \in Nat /\ e \in Nat
  BY DEF NewSocket, Held, Up, streamVars, history, ClientTypes, Connections
<1>2. SignalsOn(e)' = SignalsOn(e)
  BY <1>1, SameSignals
<1>3. CASE e = conn + 1
  <2>1. e \notin sink_open /\ sink[e] = <<>> /\ e > conn
    BY <1>1, <1>3 DEF UnusedInv
  <2>2. QueueOn(e)' = QueueOn(e)
    BY <1>1, <2>1 DEF QueueOn
  <2>3. e \in sink_open' /\ Held(e)' /\ ~Held(e)
    BY <1>1, <1>3
  <2>4. sink_result' = "none" /\ result_taken' = FALSE /\ stream' = <<>> /\ stream_over' = FALSE
    BY <1>1 DEF ResetInv
  <2>5. QED
    BY <1>2, <2>1, <2>2, <2>3, <2>4
       DEF Owned!vars, Owned!sinkVars, Owned!heldVars, Owned!ownerVars
<1>4. CASE e # conn + 1
  <2>1. QueueOn(e)' = QueueOn(e)
    BY <1>1, <1>4, SameQueue
  <2>2. ~Held(e) /\ ~Held(e)' /\ (e > conn' <=> e > conn) /\ (e \in sink_open' <=> e \in sink_open)
    BY <1>1, <1>4
  <2>3. QED
    BY <1>2, <2>1, <2>2
       DEF Owned!vars, Owned!sinkVars, Owned!heldVars, Owned!ownerVars
<1>5. QED
  BY <1>3, <1>4

(* await_sink_close says how the sink ended.                                 *)
LEMMA AwaitTells ==
    ASSUME NEW e \in Connections, PlaceInv, UnusedInv, AwaitSinkClose
    PROVE  Owned(e)!Next \/ UNCHANGED Owned(e)!vars
<1>1. UNCHANGED <<conn, sink, sink_open, delivered>> /\ (Held(e) <=> e = conn)
  BY DEF AwaitSinkClose, sinkVars, history, Held, Up
<1>2. CASE GivesUp
  <2>1. Finish(to_socket, {})
    BY <1>2 DEF AwaitSinkClose
  <2>2. Owned(e)!Leave \/ UNCHANGED Owned(e)!vars
    BY <1>1, <2>1, FinishLeaves
  <2>3. QED
    BY <2>2 DEF Owned!Next, Owned!OwnerStep
<1>3. CASE ~GivesUp
  <2>1. /\ result_taken' = TRUE
        /\ UNCHANGED <<signal, sink_result, stream, stream_over>>
        /\ actor' \in {"select", "on_disconnect"}
        /\ result_taken = TRUE \/ (stream_over /\ conn \notin sink_open)
    BY <1>3 DEF AwaitSinkClose, SinkReported
  <2>2. Held(e)' <=> Held(e)
    BY <1>1, <2>1 DEF Held, Up
  <2>3. SignalsOn(e)' = SignalsOn(e) /\ QueueOn(e)' = QueueOn(e)
    BY <1>1, <2>1, SameSignals, SameQueue
  <2>4. CASE Held(e) /\ stream_over /\ conn \notin sink_open
    <3>1. ~(e > conn) /\ ~(e > conn') /\ e \notin sink_open
      BY <1>1, <2>4 DEF Connections
    <3>2. Owned(e)!Tell
      BY <1>1, <2>1, <2>2, <2>3, <2>4, <3>1
         DEF Owned!Tell, Owned!sinkVars, Owned!heldVars
    <3>3. QED
      BY <3>2 DEF Owned!Next, Owned!OwnerStep
  <2>5. CASE ~(Held(e) /\ stream_over /\ conn \notin sink_open)
    <3>1. Held(e) => result_taken' = result_taken
      BY <2>1, <2>5
    <3>2. QED
      BY <1>1, <2>1, <2>2, <2>3, <3>1, Elsewhere
  <2>6. QED
    BY <2>4, <2>5
<1>4. QED
  BY <1>2, <1>3

LEMMA TakeItemTakes ==
    ASSUME NEW e \in Connections, ClientTypes, TakeItem
    PROVE  Owned(e)!Take \/ UNCHANGED Owned(e)!vars
<1>1. /\ UNCHANGED <<conn, sink, sink_open, sink_result, result_taken, stream_over,
                     signal, delivered>>
      /\ stream # <<>> /\ stream' = Tail(stream) /\ actor = "select"
  BY DEF TakeItem, history
<1>2. actor' \in {"handler", "on_close", "on_disconnect"}
  <2>1. Head(stream) \in {"data", "close", "error"}
    BY <1>1, TakeHead DEF ClientTypes
  <2>2. QED
    BY <2>1 DEF TakeItem
<1>3. (Held(e) <=> e = conn) /\ (Held(e)' <=> e = conn)
  BY <1>1, <1>2 DEF Held, Up
<1>4. SignalsOn(e)' = SignalsOn(e) /\ QueueOn(e)' = QueueOn(e)
  BY <1>1, SameSignals, SameQueue
<1>5. CASE e = conn
  BY <1>1, <1>3, <1>4, <1>5 DEF Owned!Take, Owned!sinkVars, Owned!heldVars
<1>6. CASE e # conn
  BY <1>1, <1>3, <1>4, <1>6, Elsewhere
<1>7. QED
  BY <1>5, <1>6

LEMMA StreamPromise ==
    ASSUME NEW e \in Connections, ResetInv,
           StreamEnds \/ \E item \in {"data", "close", "error"} : StreamYields(item)
    PROVE  Owned(e)!SocketStep \/ UNCHANGED Owned(e)!vars
<1>1. /\ UNCHANGED <<actor, conn, sink, sink_open, sink_result, result_taken, signal,
                     delivered>>
      /\ Held(conn) /\ ~stream_over
  BY DEF StreamEnds, StreamYields, history
<1>2. (Held(e) <=> e = conn) /\ (Held(e)' <=> Held(e))
  BY <1>1 DEF Held, Up
<1>3. SignalsOn(e)' = SignalsOn(e) /\ QueueOn(e)' = QueueOn(e)
  BY <1>1, SameSignals, SameQueue
<1>4. CASE e # conn
  BY <1>1, <1>2, <1>3, <1>4, Elsewhere
<1>5. CASE e = conn /\ StreamEnds
  <2>1. Owned(e)!End
    BY <1>1, <1>2, <1>3, <1>5
       DEF StreamEnds, Owned!End, Owned!Held, Owned!sinkVars, Owned!heldVars
  <2>2. QED
    BY <2>1 DEF Owned!SocketStep
<1>6. ASSUME e = conn, NEW item \in {"data", "close", "error"}, StreamYields(item)
      PROVE  Owned(e)!SocketStep
  <2>1. Owned(e)!Yield(item)
    BY <1>1, <1>2, <1>3, <1>6
       DEF StreamYields, Owned!Yield, Owned!sinkVars, Owned!heldVars
  <2>2. QED
    BY <2>1 DEF Owned!SocketStep
<1>7. QED
  BY <1>4, <1>5, <1>6

LEMMA UsesStep ==
    ASSUME NEW e \in Connections, ClientTypes, AgreeInv, AcrossInv, SocketsInv, [Next]_vars
    PROVE  [Owned(e)!Next]_(Owned(e)!vars)
<1> USE DEF handleVars, sinkVars, socketVars, history
<1>1. PlaceInv /\ UnusedInv /\ ResetInv
  BY DEF SocketsInv
<1>2. CASE Quit
  BY <1>1, <1>2, QuitLeaves DEF Owned!Next, Owned!OwnerStep
<1>3. ASSUME to_socket # <<>>
      PROVE  /\ {Head(to_socket)} \subseteq Contents(to_socket)
             /\ Contents(Tail(to_socket)) \subseteq Contents(to_socket)
  BY <1>3, TakenHead DEF ClientTypes, AgreeInv, Agree
<1>4. ASSUME NEW m \in Messages, Discard(m) PROVE UNCHANGED Owned(e)!vars
  BY <1>1, <1>3, <1>4, MovesOnDropping DEF Discard, Drained, Held, Up
<1>5. ASSUME NEW m \in Messages, CloseWhileConnecting(m) PROVE [Owned(e)!Next]_(Owned(e)!vars)
  <2>1. Owned(e)!Leave \/ UNCHANGED Owned(e)!vars
    BY <1>1, <1>3, <1>5, FinishLeaves DEF CloseWhileConnecting, Drained
  <2>2. QED
    BY <2>1 DEF Owned!Next, Owned!OwnerStep
<1>6. CASE StartAttempt \/ Connector \/ Sleeps
  BY <1>6, MovesOn DEF StartAttempt, Connector, ConnectorConnects, ConnectorFails,
     Sleeps, RetrySleepElapsed, CloseSleepElapsed, Goto, Held, Up
<1>7. CASE NobodyLeft \/ Break \/ CallbackCloses
  BY <1>2, <1>7 DEF NobodyLeft, Break, CallbackCloses
<1>8. CASE NewSocket
  BY <1>1, <1>8, NewSocketUnseen
<1>9. CASE HandlerOk \/ TakeEnd \/ TakeCall
  BY <1>9, MovesOn DEF HandlerOk, TakeEnd, TakeCall, Goto, Held, Up
<1>10. CASE Reconnect
  <2>1. ~Held(e)' /\ UNCHANGED <<conn, sink, sink_open, signal, delivered>>
    BY <1>10 DEF Reconnect, Held, Up
  <2>2. Owned(e)!Leave \/ UNCHANGED Owned(e)!vars
    BY <1>1, <2>1, SameSignals, SameQueue, Leaves
  <2>3. QED
    BY <2>2 DEF Owned!Next, Owned!OwnerStep
<1>11. CASE Retry
  <2>1. CASE AttemptsLeft
    BY <1>11, <2>1, MovesOn DEF Retry, Goto, Held, Up
  <2>2. CASE ~AttemptsLeft
    BY <1>2, <1>11, <2>2 DEF Retry
  <2>3. QED
    BY <2>1, <2>2
<1>12. ASSUME NEW m \in Messages, Forward(m) PROVE [Owned(e)!Next]_(Owned(e)!vars)
  BY <1>1, <1>12, ForwardSubmits
<1>13. ASSUME NEW m \in Messages, ForwardFails(m) PROVE UNCHANGED Owned(e)!vars
  BY <1>1, <1>3, <1>13, MovesOnDropping DEF ForwardFails, Held, Up
<1>14. CASE AwaitSinkClose
  BY <1>1, <1>14, AwaitTells
<1>15. CASE TakeItem
  BY <1>15, TakeItemTakes DEF Owned!Next, Owned!OwnerStep
<1>16. ASSUME NEW m \in Messages, Send(m) PROVE UNCHANGED Owned(e)!vars
  <2>1. delivered[m] # e
    BY <1>16 DEF Send, AcrossInv, Connections
  <2>2. \A u \in Messages : u # m => signal'[u] = signal[u]
    BY <1>16 DEF Send, Dropped, ClientTypes
  <2>3. UNCHANGED <<actor, conn, sink, sink_open, delivered, streamVars>>
    BY <1>16 DEF Send
  <2>4. SignalsOn(e)' = SignalsOn(e) /\ QueueOn(e)' = QueueOn(e)
    BY <2>1, <2>2, <2>3, SameSignals, SameQueue
  <2>5. QED
    BY <2>3, <2>4, Elsewhere DEF Held, Up, streamVars
<1>17. CASE Call
  BY <1>17, MovesOn DEF Call, Held, Up
<1>18. ASSUME NEW left \in {"calls", "none"}, DropHandles(left) PROVE UNCHANGED Owned(e)!vars
  <2>1. CASE actor = "done"
    BY <1>1, <1>18, <2>1, MovesOnDropping DEF DropHandles, Held, Up
  <2>2. CASE actor # "done"
    BY <1>18, <2>2, MovesOn DEF DropHandles, Held, Up
  <2>3. QED
    BY <2>1, <2>2
<1>19. ASSUME NEW f \in Connections,
              SinkSends(f) \/ SinkFails(f) \/ SinkStops(f) \/ SinkDrops(f)
       PROVE  [Owned(e)!Next]_(Owned(e)!vars)
  BY <1>1, <1>19, SinkPromise, OtherSink DEF Owned!Next
<1>20. CASE StreamEnds \/ \E item \in {"data", "close", "error"} : StreamYields(item)
  BY <1>1, <1>20, StreamPromise DEF Owned!Next
<1>21. CASE UNCHANGED vars
  BY <1>21, MovesOn DEF vars, Held, Up
<1>22. QED
  BY <1>4, <1>5, <1>6, <1>7, <1>8, <1>9, <1>10, <1>11, <1>12, <1>13, <1>14, <1>15,
     <1>16, <1>17, <1>18, <1>19, <1>20, <1>21
     DEF Next, Draining, Callbacks, Outgoing, Incoming, Users, Sockets

(* The client deals with the socket of every connection as the owner of a    *)
(* Socket may, and assumes no more of it than a Socket promises.             *)
THEOREM ClientUsesSockets == Spec => UsesSockets
<1>1. Init => SocketsFresh
  <2> SUFFICES ASSUME Init, NEW e \in Connections PROVE Owned(e)!Init
    BY DEF SocketsFresh
  <2>1. /\ SignalsOn(e) = [m \in Messages |-> "none"]
        /\ QueueOn(e) = <<>>
        /\ e > conn /\ ~Held(e)
    BY DEF Init, SignalsOn, QueueOn, Held, Up, Connections
  <2>2. QED
    BY <2>1 DEF Owned!Init
<1>2. ClientInv /\ [Next]_vars => [SocketsStep]_vars
  BY UsesStep DEF ClientInv, ClientTypeOK, SocketsStep
<1>3. QED
  BY <1>1, <1>2, ClientInvariant, PTL DEF Spec, UsesSockets

LEMMA SocketOf ==
    ASSUME NEW e \in Connections PROVE UsesSockets => Owned(e)!Spec
<1>1. SocketsFresh => Owned(e)!Init
  BY DEF SocketsFresh
<1>2. UNCHANGED vars => UNCHANGED Owned(e)!vars
  <2> SUFFICES ASSUME UNCHANGED vars PROVE UNCHANGED Owned(e)!vars
    OBVIOUS
  <2>1. Held(e)' <=> Held(e)
    BY DEF vars, socketVars, sinkVars, Held, Up
  <2>2. QED
    BY <2>1, MovesOn DEF vars, socketVars, sinkVars, history
<1>3. [SocketsStep]_vars => [Owned(e)!Next]_(Owned(e)!vars)
  BY <1>2 DEF SocketsStep
<1>4. QED
  BY <1>1, <1>3, PTL DEF UsesSockets, Owned!Spec

(* So each of the client's sockets is an OwnedSocket: what module Socket is  *)
(* proved to be for its owner.                                               *)
THEOREM ClientSockets == Spec => \A e \in Connections : Owned(e)!Spec
<1>1. ASSUME NEW e \in Connections PROVE Spec => Owned(e)!Spec
  BY ClientUsesSockets, SocketOf, PTL
<1>2. QED
  BY <1>1

-----------------------------------------------------------------------------
(* What a socket tells the client.                                           *)
LEMMA InformedStep ==
    ASSUME NEW e \in Connections, Owned(e)!OwnerInformed, [Owned(e)!Next]_(Owned(e)!vars)
    PROVE  Owned(e)!OwnerInformed'
<1> DEFINE held == e > conn \/ Held(e)
<1> USE DEF Owned!OwnerInformed, Owned!sinkVars, Owned!heldVars, Owned!ownerVars
<1>1. ASSUME NEW m \in Messages, Owned(e)!Submit(m) PROVE Owned(e)!OwnerInformed'
  <2>1. Owned(e)!LetGo /\ held /\ ((e > conn' \/ e \in sink_open') <=> (e > conn \/ e \in sink_open))
    BY <1>1 DEF Owned!Submit
  <2>2. QED
    BY <2>1 DEF Owned!LetGo
<1>2. CASE Owned(e)!Leave
  <2>1. Owned(e)!LetGo /\ ((e > conn' \/ e \in sink_open') <=> (e > conn \/ e \in sink_open))
    BY <1>2 DEF Owned!Leave
  <2>2. held' \in {held, FALSE}
    BY <2>1 DEF Owned!LetGo
  <2>3. held' => held
    BY <2>2
  <2>4. QED
    BY <2>1, <2>3 DEF Owned!LetGo
<1>3. CASE Owned(e)!Take \/ Owned(e)!Tell
  BY <1>3 DEF Owned!Take, Owned!Tell
<1>4. CASE Owned(e)!Deliver \/ Owned(e)!DropRest \/ Owned(e)!End
  BY <1>4 DEF Owned!Deliver, Owned!DropRest, Owned!End
<1>5. ASSUME NEW res \in {"ok", "failed"}, Owned(e)!Stop(res)
      PROVE  Owned(e)!OwnerInformed'
  BY <1>5 DEF Owned!Stop, Owned!Held
<1>6. ASSUME NEW item \in {"data", "close", "error"}, Owned(e)!Yield(item)
      PROVE  Owned(e)!OwnerInformed'
  BY <1>6 DEF Owned!Yield
<1>7. CASE UNCHANGED Owned(e)!vars
  BY <1>7 DEF Owned!vars
<1>8. QED
  BY <1>1, <1>2, <1>3, <1>4, <1>5, <1>6, <1>7
     DEF Owned!Next, Owned!OwnerStep, Owned!SocketStep

Informed == \A e \in Connections : Owned(e)!OwnerInformed

(* The sink of the socket the client holds is closed when there is a result  *)
(* of it, and the result is "ok" after the end of the stream only.           *)
SinkResultKnown ==
    \A e \in Connections :
        Held(e) => /\ sink_result = "none" <=> e \in sink_open
                   /\ sink_result = "ok" => stream_over

(* So what the client asks await_sink_close for is there when it is answered,*)
(* and a client that goes on after a well-ended sink finds its stream's end. *)
THEOREM ClientInformed == Spec => []SinkResultKnown
<1>1. SocketsFresh => Informed
  BY DEF SocketsFresh, Informed, Owned!Init, Owned!OwnerInformed
<1>2. Informed /\ [SocketsStep]_vars => Informed'
  <2> SUFFICES ASSUME Informed, [SocketsStep]_vars, NEW e \in Connections
               PROVE  Owned(e)!OwnerInformed'
    BY DEF Informed
  <2>1. [Owned(e)!Next]_(Owned(e)!vars)
    <3>1. CASE SocketsStep
      BY <3>1 DEF SocketsStep
    <3>2. CASE UNCHANGED vars
      <4>1. Held(e)' <=> Held(e)
        BY <3>2 DEF vars, socketVars, sinkVars, Held, Up
      <4>2. QED
        BY <3>2, <4>1, MovesOn DEF vars, socketVars, sinkVars, history
    <3>3. QED
      BY <3>1, <3>2
  <2>2. Owned(e)!OwnerInformed
    BY DEF Informed
  <2>3. QED
    BY <2>1, <2>2, InformedStep
<1>3. ClientInv /\ Informed => SinkResultKnown
  <2> SUFFICES ASSUME ClientInv, Informed, NEW e \in Connections, Held(e)
               PROVE  /\ sink_result = "none" <=> e \in sink_open
                      /\ sink_result = "ok" => stream_over
    BY DEF SinkResultKnown
  <2>1. Owned(e)!OwnerInformed /\ ~(e > conn)
    BY DEF Informed, Held, Connections
  <2>2. sink_result \in {"none", "ok", "lost", "other"}
    BY DEF ClientInv, ClientTypeOK, ClientTypes
  <2>3. QED
    BY <2>1, <2>2 DEF Owned!OwnerInformed
<1>4. QED
  BY <1>1, <1>2, <1>3, ClientInvariant, ClientUsesSockets, PTL DEF UsesSockets

-----------------------------------------------------------------------------
(* The other direction: the sockets of a client may do all that an owner of  *)
(* a Socket has to expect.                                                   *)

(* Only the socket of e has moved: its queue, perhaps its signals and, if it *)
(* is the one that is held, its stream and its result, once.                 *)
OnlySocket(e) ==
    /\ UNCHANGED <<actor, connected, attempts, closed_self, handleVars, conn,
                   result_taken, history>>
    /\ \A f \in Connections : f # e => sink'[f] = sink[f]
    /\ \A f \in Connections : f # e => (f \in sink_open' <=> f \in sink_open)
    /\ \A m \in Messages : delivered[m] # e => signal'[m] = signal[m]
    /\ \/ sink'[e] = sink[e] \/ sink'[e] = <<>>
       \/ sink[e] # <<>> /\ sink'[e] = Tail(sink[e])
    /\ ~Held(e) => UNCHANGED <<sink_result, stream, stream_over>>
    /\ sink_result # "none" => sink_result' = sink_result
    /\ Len(stream') <= MaxInbound

(* The queues say which messages of a connection are Sending.                *)
LEMMA QueueTells ==
    ASSUME NEW q, NEW s, NEW g, NEW d, Agree(q, s, g), NEW e \in Connections,
           \A m \in Contents(q) : d[m] = 0,
           \A f \in Connections : \A m \in Contents(s[f]) : d[m] = f
    PROVE  \A m \in Messages : m \in Contents(s[e]) <=> d[m] = e /\ g[m] = "Sending"
<1> SUFFICES ASSUME NEW m \in Messages
             PROVE  m \in Contents(s[e]) <=> d[m] = e /\ g[m] = "Sending"
  OBVIOUS
<1>1. g[m] = "Sending" <=> m \in Contents(q) \/ \E f \in Connections : m \in Contents(s[f])
  BY DEF Agree
<1>2. d[m] = e => m \notin Contents(q)
  BY DEF Connections
<1>3. QED
  BY <1>1, <1>2

(* A queue that is not empty contains a message.                             *)
LEMMA NonEmpty ==
    ASSUME NEW q \in Seq(Messages), q # <<>>
    PROVE  Contents(q) # {}
<1>1. 1 \in 1..Len(q)
  BY TakeHead
<1>2. q[1] \in Contents(q)
  BY <1>1 DEF Contents
<1>3. QED
  BY <1>2

(* How the queue of e follows its signals.                                   *)
LEMMA QueueFollows ==
    ASSUME NEW e \in Connections, ClientTypes, AgreeInv, PlaceInv, ClientTypes',
           AgreeInv', OnlySocket(e)
    PROVE  /\ SignalsOn(e)' = SignalsOn(e) => signal' = signal /\ sink' = sink
           /\ Owned(e)!Fails(Owned(e)!Sending) =>
                /\ signal' = Dropped(Contents(sink[e]))
                /\ sink' = [sink EXCEPT ![e] = <<>>]
           /\ sink[e] # <<>> /\ Owned(e)!Fails({Head(sink[e])}) =>
                /\ signal' = Dropped({Head(sink[e])})
                /\ sink' = [sink EXCEPT ![e] = Tail(@)]
<1>1. /\ to_socket' = to_socket /\ delivered' = delivered
      /\ \A f \in Connections : f # e => sink'[f] = sink[f]
      /\ \A m \in Messages : delivered[m] # e => signal'[m] = signal[m]
      /\ \/ sink'[e] = sink[e] \/ sink'[e] = <<>>
         \/ sink[e] # <<>> /\ sink'[e] = Tail(sink[e])
  BY DEF OnlySocket, handleVars, history
<1>2. /\ sink[e] \in Seq(Messages) /\ sink \in Queues /\ sink' \in Queues
      /\ signal \in [Messages -> Statuses] /\ signal' \in [Messages -> Statuses]
  BY DEF ClientTypes, Queues
<1>3. sink[e] # <<>> => /\ Head(sink[e]) \in Contents(sink[e])
                        /\ Contents(Tail(sink[e])) = Contents(sink[e]) \ {Head(sink[e])}
  BY <1>2, TakenHead DEF AgreeInv, Agree
<1>4. Contents(<<>>) = {} /\ Contents(sink[e]) \subseteq Messages
  BY <1>2, EmptyQueue DEF Contents
<1>5. Contents(sink'[e]) \subseteq Contents(sink[e])
  BY <1>1, <1>3, <1>4
<1>6. \A m \in Messages :
        m \in Contents(sink[e]) <=> delivered[m] = e /\ signal[m] = "Sending"
  BY QueueTells DEF AgreeInv, PlaceInv
<1>7. \A m \in Messages :
        m \in Contents(sink'[e]) <=> delivered[m] = e /\ signal'[m] = "Sending"
  <2>1. Agree(to_socket, sink', signal')
    BY <1>1 DEF AgreeInv
  <2>2. \A f \in Connections : \A m \in Contents(sink'[f]) : delivered[m] = f
    BY <1>1, <1>5 DEF PlaceInv
  <2>3. \A m \in Contents(to_socket) : delivered[m] = 0
    BY DEF PlaceInv
  <2>4. QED
    BY <2>1, <2>2, <2>3, QueueTells
<1>8. \A m \in Messages : delivered[m] = e =>
        SignalsOn(e)[m] = signal[m] /\ SignalsOn(e)'[m] = signal'[m]
  BY <1>1 DEF SignalsOn
<1>9. ASSUME NEW q, sink'[e] = q PROVE sink' = [sink EXCEPT ![e] = q]
  BY <1>1, <1>2, <1>9 DEF Queues
<1>10. ASSUME Contents(sink'[e]) = Contents(sink[e]) PROVE sink'[e] = sink[e]
  BY <1>1, <1>3, <1>4, <1>10
<1>11. ASSUME SignalsOn(e)' = SignalsOn(e) PROVE signal' = signal /\ sink' = sink
  <2>1. \A m \in Messages : signal'[m] = signal[m]
    BY <1>1, <1>8, <1>11
  <2>2. Contents(sink'[e]) = Contents(sink[e])
    BY <1>4, <1>5, <1>6, <1>7, <2>1
  <2>3. sink' = [sink EXCEPT ![e] = sink[e]]
    BY <1>9, <1>10, <2>2
  <2>4. QED
    BY <1>2, <2>1, <2>3 DEF Queues
<1>12. ASSUME NEW lost, lost \subseteq Contents(sink[e]), Owned(e)!Fails(lost)
       PROVE  signal' = Dropped(lost) /\ Contents(sink'[e]) = Contents(sink[e]) \ lost
  <2>1. \A m \in Messages :
          SignalsOn(e)'[m] = IF m \in lost THEN "Failed" ELSE SignalsOn(e)[m]
    BY <1>12 DEF Owned!Fails
  <2>2. \A m \in lost : delivered[m] = e
    BY <1>12 DEF PlaceInv
  <2>3. \A m \in Messages : signal'[m] = IF m \in lost THEN "Failed" ELSE signal[m]
    BY <1>1, <1>8, <2>1, <2>2
  <2>4. signal' = Dropped(lost)
    BY <1>2, <2>3 DEF Dropped
  <2>5. \A m \in Messages : m \in Contents(sink'[e]) <=> m \in Contents(sink[e]) /\ m \notin lost
    BY <1>6, <1>7, <2>3
  <2>6. QED
    BY <1>4, <1>5, <2>4, <2>5
<1>13. ASSUME Owned(e)!Fails(Owned(e)!Sending)
       PROVE  /\ signal' = Dropped(Contents(sink[e]))
              /\ sink' = [sink EXCEPT ![e] = <<>>]
  <2>1. signal' = Dropped(Contents(sink[e])) /\ Contents(sink'[e]) = {}
    BY <1>12, <1>13, SendingOn
  <2>2. sink'[e] = <<>>
    <3>1. sink'[e] \in Seq(Messages)
      BY <1>2 DEF Queues
    <3>2. CASE sink'[e] # <<>>
      BY <2>1, <3>1, <3>2, NonEmpty
    <3>3. QED
      BY <3>2
  <2>3. QED
    BY <1>9, <2>1, <2>2
<1>14. ASSUME sink[e] # <<>>, Owned(e)!Fails({Head(sink[e])})
       PROVE  /\ signal' = Dropped({Head(sink[e])})
              /\ sink' = [sink EXCEPT ![e] = Tail(@)]
  <2>1. /\ signal' = Dropped({Head(sink[e])})
        /\ Contents(sink'[e]) = Contents(sink[e]) \ {Head(sink[e])}
    BY <1>3, <1>12, <1>14
  <2>2. sink'[e] = Tail(sink[e])
    <3>1. CASE sink'[e] = <<>>
      <4>1. Contents(Tail(sink[e])) = {} /\ Tail(sink[e]) \in Seq(Messages)
        BY <1>2, <1>3, <1>4, <1>14, <2>1, <3>1, TakeHead
      <4>2. CASE Tail(sink[e]) # <<>>
        BY <4>1, <4>2, NonEmpty
      <4>3. QED
        BY <3>1, <4>2
    <3>2. CASE sink'[e] = sink[e]
      BY <1>3, <1>14, <2>1, <3>2
    <3>3. QED
      BY <1>1, <3>1, <3>2
  <2>3. QED
    BY <1>2, <1>9, <2>1, <2>2
<1>15. QED
  BY <1>11, <1>13, <1>14

(* What the owner does not see changed has not.                              *)
LEMMA UnseenSame ==
    ASSUME NEW e \in Connections, ClientTypeOK, ClientTypeOK', OnlySocket(e), ~(e > conn)
    PROVE  /\ Held(e)' <=> Held(e)
           /\ UNCHANGED (IF ~Held(e) THEN "none"
                         ELSE IF sink_result \in {"lost", "other"} THEN "failed"
                         ELSE sink_result) => sink_result' = sink_result
           /\ UNCHANGED (IF Held(e) THEN stream ELSE <<>>) => stream' = stream
           /\ UNCHANGED (Held(e) /\ stream_over) => stream_over' = stream_over
           /\ UNCHANGED (e > conn \/ e \in sink_open) => sink_open' = sink_open
           /\ (~(e > conn \/ e \in sink_open))' => sink_open' = sink_open \ {e}
<1>1. /\ actor' = actor /\ conn' = conn
      /\ ~Held(e) => UNCHANGED <<sink_result, stream, stream_over>>
      /\ sink_result # "none" => sink_result' = sink_result
      /\ \A f \in Connections : f # e => (f \in sink_open' <=> f \in sink_open)
  BY DEF OnlySocket
<1>2. /\ sink_open \in SUBSET Connections /\ sink_open' \in SUBSET Connections
      /\ sink_result \in {"none", "ok", "lost", "other"}
      /\ sink_result' \in {"none", "ok", "lost", "other"}
      /\ stream_over \in BOOLEAN /\ stream_over' \in BOOLEAN
  BY DEF ClientTypeOK, ClientTypes, ClientFlags
<1>3. Held(e)' <=> Held(e)
  BY <1>1 DEF Held, Up
<1>4. UNCHANGED (IF ~Held(e) THEN "none"
                 ELSE IF sink_result \in {"lost", "other"} THEN "failed"
                 ELSE sink_result) => sink_result' = sink_result
  BY <1>1, <1>2, <1>3
<1>5. UNCHANGED (IF Held(e) THEN stream ELSE <<>>) => stream' = stream
  BY <1>1, <1>3
<1>6. UNCHANGED (Held(e) /\ stream_over) => stream_over' = stream_over
  BY <1>1, <1>2, <1>3
<1>7. UNCHANGED (e > conn \/ e \in sink_open) => sink_open' = sink_open
  BY <1>1, <1>2
<1>8. (~(e > conn \/ e \in sink_open))' => sink_open' = sink_open \ {e}
  BY <1>1, <1>2
<1>9. QED
  BY <1>3, <1>4, <1>5, <1>6, <1>7, <1>8

(* The sink sends.                                                           *)
LEMMA DeliverAllowed ==
    ASSUME NEW e \in Connections, ClientTypeOK, ClientTypeOK', PlaceInv, AgreeInv,
           OnlySocket(e), ~(e > conn), Owned(e)!Deliver
    PROVE  SinkSends(e)
<1>1. /\ e \in sink_open /\ sink[e] # <<>> /\ e \in sink_open'
      /\ sink'[e] = Tail(sink[e])
      /\ SignalsOn(e)' = [SignalsOn(e) EXCEPT ![Head(sink[e])] = "Sent"]
  <2>1. e \in sink_open /\ QueueOn(e) # <<>>
    BY DEF Owned!Deliver
  <2>2. e \in sink_open'
    BY <2>1, UnseenSame DEF Owned!Deliver
  <2>3. /\ QueueOn(e)' = Tail(QueueOn(e))
        /\ SignalsOn(e)' = [SignalsOn(e) EXCEPT ![Head(QueueOn(e))] = "Sent"]
    BY DEF Owned!Deliver
  <2>4. QueueOn(e) = sink[e] /\ QueueOn(e)' = sink'[e]
    BY <2>1, <2>2 DEF QueueOn
  <2>5. QED
    BY <2>1, <2>2, <2>3, <2>4
<1>2. UNCHANGED <<sink_open, sink_result, stream, stream_over>>
  BY UnseenSame DEF Owned!Deliver, Owned!ownerVars
<1>3. /\ signal \in [Messages -> Statuses] /\ signal' \in [Messages -> Statuses]
      /\ sink \in Queues /\ sink' \in Queues /\ sink[e] \in Seq(Messages)
  BY DEF ClientTypeOK, ClientTypes, Queues
<1>4. /\ delivered' = delivered
      /\ \A f \in Connections : f # e => sink'[f] = sink[f]
      /\ \A m \in Messages : delivered[m] # e => signal'[m] = signal[m]
      /\ UNCHANGED <<actor, connected, attempts, closed_self, handleVars, conn,
                     result_taken, history>>
  BY DEF OnlySocket, history
<1>5. sink' = [sink EXCEPT ![e] = Tail(@)]
  BY <1>1, <1>3, <1>4 DEF Queues
<1>6. Head(sink[e]) \in Messages /\ delivered[Head(sink[e])] = e
  <2>1. Head(sink[e]) \in Contents(sink[e])
    BY <1>1, <1>3, TakenHead DEF AgreeInv, Agree
  <2>2. Head(sink[e]) \in Messages
    BY <1>1, <1>3, TakeHead
  <2>3. QED
    BY <2>1, <2>2 DEF PlaceInv
<1>7. \A m \in Messages : delivered[m] = e =>
        /\ SignalsOn(e)[m] = signal[m]
        /\ SignalsOn(e)'[m] = signal'[m]
  BY <1>4 DEF SignalsOn
<1>8. \A m \in Messages :
        SignalsOn(e)'[m] = IF m = Head(sink[e]) THEN "Sent" ELSE SignalsOn(e)[m]
  <2>1. SignalsOn(e) = [m \in Messages |-> SignalsOn(e)[m]]
    BY DEF SignalsOn
  <2>2. QED
    BY <1>1, <2>1
<1>9. signal' = [signal EXCEPT ![Head(sink[e])] = "Sent"]
  <2>1. \A m \in Messages :
          signal'[m] = IF m = Head(sink[e]) THEN "Sent" ELSE signal[m]
    BY <1>4, <1>6, <1>7, <1>8
  <2>2. QED
    BY <1>3, <2>1
<1>10. QED
  BY <1>1, <1>2, <1>4, <1>5, <1>9 DEF SinkSends

(* The sink closes, and may lose messages.                                   *)
LEMMA StopAllowed ==
    ASSUME NEW e \in Connections, ClientTypeOK, ClientTypeOK', PlaceInv, AgreeInv,
           AgreeInv', OnlySocket(e), ~(e > conn),
           NEW res \in {"ok", "failed"}, Owned(e)!Stop(res)
    PROVE  SinkFails(e) \/ SinkStops(e)
<1>1. /\ e \in sink_open
      /\ sink_open' = sink_open \ {e}
      /\ stream' = stream /\ stream_over' = stream_over
      /\ res = "ok" /\ Held(e) => stream_over
  BY UnseenSame DEF Owned!Stop
<1>2. /\ QueueOn(e) = sink[e]
      /\ ClientTypes /\ ClientTypes'
  BY <1>1 DEF QueueOn, ClientTypeOK
<1>3. \/ SinkKeeps(e)
      \/ res = "failed" /\ sink[e] # <<>> /\ SinkLoses(e, {Head(sink[e])}, Tail(sink[e]))
  <2>1. \/ SignalsOn(e)' = SignalsOn(e)
        \/ res = "failed" /\ sink[e] # <<>> /\ Owned(e)!Fails({Head(sink[e])})
        \/ ~Held(e) /\ Owned(e)!Fails(Owned(e)!Sending)
    BY <1>2 DEF Owned!Stop
  <2>2. QED
    BY <1>2, <2>1, QueueFollows DEF SinkKeeps, SinkLoses
<1>4. UNCHANGED <<actor, connected, attempts, closed_self, handleVars, conn,
                  result_taken, stream, stream_over, history>>
  BY <1>1 DEF OnlySocket
<1>5. /\ Held(e)' <=> Held(e)
      /\ ~Held(e) => sink_result' = sink_result
      /\ sink_result' \in {"none", "ok", "lost", "other"}
  BY UnseenSame DEF OnlySocket, ClientTypeOK, ClientTypes
<1>6. Held(e) => (IF sink_result' \in {"lost", "other"} THEN "failed" ELSE sink_result') = res
  BY <1>5 DEF Owned!Stop, Owned!Held
<1>7. CASE res = "failed"
  <2>1. IF Held(e) THEN \E r \in {"lost", "other"} : sink_result' = r
                   ELSE UNCHANGED sink_result
    BY <1>5, <1>6, <1>7
  <2>2. QED
    BY <1>1, <1>3, <1>4, <2>1 DEF SinkFails
<1>8. CASE res = "ok"
  <2>1. sink_result' = IF Held(e) THEN "ok" ELSE sink_result
    BY <1>5, <1>6, <1>8
  <2>2. QED
    BY <1>1, <1>3, <1>4, <1>8, <2>1 DEF SinkStops
<1>9. QED
  BY <1>7, <1>8

(* A closed sink drops what it held, if it held anything.                    *)
LEMMA DropAllowed ==
    ASSUME NEW e \in Connections, ClientTypeOK, ClientTypeOK', PlaceInv, AgreeInv,
           AgreeInv', OnlySocket(e), ~(e > conn), Owned(e)!DropRest
    PROVE  SinkDrops(e) \/ UNCHANGED vars
<1>1. e \notin sink_open /\ ~Held(e) /\ Owned(e)!Fails(Owned(e)!Sending)
  BY DEF Owned!DropRest
<1>2. UNCHANGED <<sink_open, sink_result, stream, stream_over>>
  BY UnseenSame DEF Owned!DropRest, Owned!ownerVars
<1>3. UNCHANGED <<actor, connected, attempts, closed_self, handleVars, conn,
                  result_taken, history>>
  BY DEF OnlySocket
<1>4. SinkLoses(e, Contents(sink[e]), <<>>)
  BY <1>1, QueueFollows DEF SinkLoses, ClientTypeOK
<1>5. CASE sink[e] # <<>>
  BY <1>1, <1>2, <1>3, <1>4, <1>5 DEF SinkDrops
<1>6. CASE sink[e] = <<>>
  <2>1. signal' = signal
    BY <1>4, <1>6, EmptyQueue DEF SinkLoses, Dropped, ClientTypeOK, ClientTypes
  <2>2. sink' = sink
    BY <1>4, <1>6 DEF SinkLoses, ClientTypeOK, ClientTypes
  <2>3. QED
    BY <1>2, <1>3, <2>1, <2>2 DEF vars, socketVars, sinkVars, streamVars
<1>7. QED
  BY <1>5, <1>6

(* The stream of the socket that is held yields an item or ends.             *)
LEMMA StreamAllowed ==
    ASSUME NEW e \in Connections, ClientTypeOK, ClientTypeOK', PlaceInv, AgreeInv,
           AgreeInv', OnlySocket(e), ~(e > conn),
           Owned(e)!End \/ \E item \in {"data", "close", "error"} : Owned(e)!Yield(item)
    PROVE  StreamEnds \/ \E item \in {"data", "close", "error"} : StreamYields(item)
<1>1. Held(e) /\ ~stream_over
  BY DEF Owned!End, Owned!Yield, Owned!Held
<1>2. UNCHANGED Owned(e)!sinkVars /\ UNCHANGED <<sink_open, sink_result>>
  BY UnseenSame DEF Owned!End, Owned!Yield, Owned!sinkVars
<1>3. signal' = signal /\ sink' = sink
  BY <1>2, QueueFollows DEF Owned!sinkVars, ClientTypeOK
<1>4. UNCHANGED <<actor, connected, attempts, closed_self, handleVars, conn,
                  sink, sink_open, sink_result, result_taken, signal, history>>
  BY <1>2, <1>3 DEF OnlySocket
<1>5. Held(e)' /\ conn = e /\ Held(conn)
  BY <1>1, UnseenSame DEF Held
<1>6. CASE Owned(e)!End
  <2>1. stream_over' = TRUE /\ stream' = stream
    BY <1>1, <1>5, <1>6, UnseenSame DEF Owned!End, ClientTypeOK, ClientFlags
  <2>2. QED
    BY <1>1, <1>4, <1>5, <2>1 DEF StreamEnds
<1>7. ASSUME NEW item \in {"data", "close", "error"}, Owned(e)!Yield(item)
      PROVE  StreamYields(item)
  <2>1. stream' = Append(stream, item) /\ stream_over' = stream_over
    BY <1>1, <1>5, <1>7, UnseenSame DEF Owned!Yield
  <2>2. Len(stream) < MaxInbound
    <3>1. Len(stream') = Len(stream) + 1 /\ Len(stream) \in Nat
      BY <2>1 DEF ClientTypeOK, ClientTypes
    <3>2. QED
      BY <3>1, ClientAssumption DEF OnlySocket
  <2>3. QED
    BY <1>1, <1>4, <1>5, <2>1, <2>2 DEF StreamYields
<1>8. QED
  BY <1>6, <1>7

(* Whatever the socket of a connection may do by itself is a step of the     *)
(* client's model, or changes nothing in it: no behaviour of a Socket is     *)
(* left out there.  The queue holds at most MaxInbound items; a result that  *)
(* is known stays.                                                           *)
THEOREM SocketsAllow ==
    ASSUME ClientInv, ClientTypeOK', AgreeInv', NEW e \in Connections, ~(e > conn),
           OnlySocket(e), Owned(e)!SocketStep
    PROVE  Sockets \/ UNCHANGED vars
<1>1. ClientTypeOK /\ PlaceInv /\ AgreeInv
  BY DEF ClientInv, SocketsInv
<1>2. CASE Owned(e)!Deliver
  BY <1>1, <1>2, DeliverAllowed DEF Sockets
<1>3. CASE Owned(e)!DropRest
  BY <1>1, <1>3, DropAllowed DEF Sockets
<1>4. CASE Owned(e)!End \/ \E item \in {"data", "close", "error"} : Owned(e)!Yield(item)
  BY <1>1, <1>4, StreamAllowed DEF Sockets
<1>5. ASSUME NEW res \in {"ok", "failed"}, Owned(e)!Stop(res) PROVE Sockets
  BY <1>1, <1>5, StopAllowed DEF Sockets
<1>6. QED
  BY <1>2, <1>3, <1>4, <1>5 DEF Owned!SocketStep

=============================================================================
