---------------------------- MODULE ServerProofs ----------------------------
(* Safety of the server actor for any finite set of connections and any sets *)
(* of shutdown callers and call users.                                       *)
EXTENDS Server, FiniteSetTheorems, TLAPS

(* What receiving from a channel does to its queue.                          *)
LEMMA RecvQueue ==
    ASSUME NEW S, NEW q \in Seq(S), q # <<>>
    PROVE  /\ Head(q) \in S
           /\ Tail(q) \in Seq(S)
           /\ Len(q) \in Nat /\ Len(q) > 0
           /\ Len(Tail(q)) = Len(q) - 1
           /\ Head(q) = q[1]
           /\ \A i \in 1..Len(Tail(q)) : Tail(q)[i] = q[i + 1]
  OBVIOUS

(* What sending to a channel does to its queue.                              *)
LEMMA SendQueue ==
    ASSUME NEW S, NEW q \in Seq(S), NEW x \in S
    PROVE  /\ Append(q, x) \in Seq(S)
           /\ Len(q) \in Nat
           /\ Len(Append(q, x)) = Len(q) + 1
           /\ \A i \in 1..Len(q) : Append(q, x)[i] = q[i] /\ q[i] \in S
           /\ Append(q, x)[Len(q) + 1] = x
  OBVIOUS

(* A queue without repetitions stays so when a new element is sent to it.    *)
LEMMA SendNoRepeat ==
    ASSUME NEW S, NEW q \in Seq(S), NEW x \in S, NoRepeat(q),
           \A i \in 1..Len(q) : q[i] # x
    PROVE  NoRepeat(Append(q, x))
  BY SendQueue DEF NoRepeat

-----------------------------------------------------------------------------
(* Every variable of the server keeps its type: Init, then each step.        *)
LEMMA TypeInit == Init => TypeOK
<1> SUFFICES ASSUME Init PROVE StateTypes
  BY DEF Init, TypeOK
<1>1. QED
  BY DEF Init, StateTypes, ActorStates, SocketStates, SessionStates,
     CallerStates

(* The two flags are only ever set to TRUE.                                  *)
LEMMA FlagsStep ==
    TypeOK /\ [Next]_vars =>
        shutting_down' \in BOOLEAN /\ shutdown_signal' \in BOOLEAN
<1> SUFFICES ASSUME TypeOK, [Next]_vars
             PROVE  shutting_down' \in BOOLEAN /\ shutdown_signal' \in BOOLEAN
  OBVIOUS
<1>1. CASE RecvShutdown
  BY <1>1 DEF RecvShutdown, Broadcast, TypeOK
<1>2. CASE UNCHANGED <<shutting_down, shutdown_signal>>
  BY <1>2 DEF TypeOK
<1>3. ASSUME NEW c \in Conns, SessionStep(c) \/ TaskStep(c)
      PROVE  UNCHANGED shutdown
  BY <1>3 DEF SessionStep, LookForClose, StartHandler, Park,
     SessionCallWith, EndHandler, EndSession, TakeClose, CloseSession,
     TaskStep, CloseTask, CloseTaskQuit, Watcher
<1>4. ASSUME Callback \/ Handle PROVE UNCHANGED shutdown
  BY <1>4 DEF Callback, CreateSession, OnConnectOk, OnConnectErr,
     OnDisconnectDone, OnCallDone, Handle, Accept, CallShutdown,
     CancelShutdown, UserCall
<1>5. ASSUME RejectConnection \/ RecvConnection \/ RecvDisconnected \/ RecvCall
             \/ UNCHANGED vars
      PROVE  UNCHANGED shutdown
  BY <1>5 DEF RejectConnection, RecvConnection, RecvDisconnected, RecvCall, vars
<1>6. ASSUME Exit \/ AbortActor
      PROVE  UNCHANGED <<shutting_down, shutdown_signal>>
  BY <1>6 DEF Exit, AbortActor, DropActor
<1>7. QED
  BY <1>1, <1>2, <1>3, <1>4, <1>5, <1>6 DEF Next, ActorStep, shutdown

LEMMA StateTypesStep == StateTypes /\ [Next]_vars => StateTypes'
<1> SUFFICES ASSUME StateTypes, [Next]_vars PROVE StateTypes'
  OBVIOUS
<1> USE DEF StateTypes, queues, shutdown, sessions
<1>1. CASE RecvShutdown
  BY <1>1, RecvQueue DEF RecvShutdown
<1>2. CASE RejectConnection
  BY <1>2, RecvQueue DEF RejectConnection, SocketStates
<1>3. CASE RecvConnection
  BY <1>3, RecvQueue DEF RecvConnection, Requesters, ActorStates, SocketStates
<1>4. CASE RecvDisconnected
  BY <1>4, RecvQueue DEF RecvDisconnected, Decremented, Requesters, ActorStates
<1>5. CASE RecvCall
  BY <1>5, RecvQueue DEF RecvCall, ActorStates
<1>6. CASE Exit
  BY <1>6 DEF Exit, DropActor, Resolve, CallsDropped, ActorStates, SocketStates,
     SessionStates, CallerStates
<1>7. ASSUME NEW c \in Conns, CreateSession(c) PROVE StateTypes'
  BY <1>7 DEF CreateSession, SocketStates, SessionStates
<1>8. ASSUME NEW c \in Conns, OnConnectOk(c) PROVE StateTypes'
  BY <1>8 DEF OnConnectOk, ActorStates
<1>9. ASSUME NEW c \in Conns, OnConnectErr(c) PROVE StateTypes'
  BY <1>9 DEF OnConnectErr, ActorStates, SocketStates
<1>10. CASE OnDisconnectDone
  BY <1>10 DEF OnDisconnectDone, ActorStates
<1>11. CASE OnCallDone
  BY <1>11 DEF OnCallDone, Resolve, ActorStates, SessionStates
<1>12. CASE AbortActor
  BY <1>12 DEF AbortActor, DropActor, Resolve, CallsDropped, ActorStates, SocketStates,
     SessionStates, CallerStates
<1>13. ASSUME NEW c \in Conns, Accept(c) PROVE StateTypes'
  <2>1. Append(connection_receiver, c) \in Seq(Conns)
    OBVIOUS
  <2>2. QED
    BY <1>13, <2>1 DEF Accept, SocketStates
<1>14. ASSUME NEW k \in Callers, CallShutdown(k) PROVE StateTypes'
  <2>1. Append(shutdown_receiver, k) \in Seq(Callers)
    OBVIOUS
  <2>2. QED
    BY <1>14, <2>1 DEF CallShutdown, CallerStates
<1>15. ASSUME NEW k \in Callers, CancelShutdown(k) PROVE StateTypes'
  BY <1>15 DEF CancelShutdown, CallerStates
<1>16. ASSUME NEW u \in Users, UserCall(u) PROVE StateTypes'
  <2>1. Append(server_call_receiver, u) \in Seq(Requesters)
    BY DEF Requesters
  <2>2. QED
    BY <1>16, <2>1 DEF UserCall
<1>17. ASSUME NEW c \in Conns, SessionStep(c) PROVE StateTypes'
  <2>1. Append(server_call_receiver, c) \in Seq(Requesters)
    BY DEF Requesters
  <2>2. CASE SessionCallWith(c)
    BY <2>1, <2>2 DEF SessionCallWith, SessionStates
  <2>3. CASE LookForClose(c) \/ StartHandler(c) \/ Park(c)
    BY <2>3 DEF LookForClose, StartHandler, Park, SessionStates
  <2>4. CASE EndHandler(c)
    BY <2>4 DEF EndHandler, SessionStates
  <2>5. CASE EndSession(c)
    BY <2>5 DEF EndSession, SessionStates
  <2>6. CASE TakeClose(c)
    BY <2>6 DEF TakeClose, SessionStates
  <2>7. CASE CloseSession(c)
    BY <2>7 DEF CloseSession
  <2>8. QED
    BY <1>17, <2>2, <2>3, <2>4, <2>5, <2>6, <2>7 DEF SessionStep
<1>18. ASSUME NEW c \in Conns, TaskStep(c) PROVE StateTypes'
  <2>1. CASE CloseTask(c) \/ CloseTaskQuit(c)
    BY <2>1 DEF CloseTask, CloseTaskQuit
  <2>2. CASE Watcher(c)
    <3>1. Append(disconnection_receiver, c) \in Seq(Conns)
      OBVIOUS
    <3>2. QED
      BY <2>2, <3>1 DEF Watcher, NotifyServer
  <2>3. QED
    BY <1>18, <2>1, <2>2 DEF TaskStep
<1>19. CASE UNCHANGED vars
  BY <1>19 DEF vars
<1> HIDE DEF StateTypes, queues, shutdown, sessions
<1>20. QED
  BY <1>1, <1>2, <1>3, <1>4, <1>5, <1>6, <1>7, <1>8, <1>9, <1>10, <1>11,
     <1>12, <1>13, <1>14, <1>15, <1>16, <1>17, <1>18, <1>19
     DEF Next, ActorStep, Callback, Handle

LEMMA TypeStep == TypeOK /\ [Next]_vars => TypeOK'
  BY FlagsStep, StateTypesStep DEF TypeOK

(* The type invariant of the server holds in every reachable state.          *)
THEOREM ServerType == Spec => []TypeOK
  BY TypeInit, TypeStep, PTL DEF Spec

-----------------------------------------------------------------------------
(* The actor's counter and the set it counts.                                *)
Pending == {c \in Accepted : disconnect[c] = "none"}

(* A session that on_connect just returned is one more to wait for.          *)
LEMMA PendingGrows ==
    ASSUME StateTypes, ServerInv, NEW c \in Conns, OnConnectOk(c)
    PROVE  Cardinality(Pending') = Cardinality(Pending) + 1
<1>1. watcher[c] = "none" /\ disconnect[c] = "none"
  BY DEF StateTypes, ServerInv, ConnectionsInv, DisconnectsInv, OnConnectOk
<1>2. Pending' = Pending \cup {c} /\ c \notin Pending
  BY <1>1 DEF StateTypes, OnConnectOk, Pending, Accepted
<1>3. IsFiniteSet(Pending)
  <2>1. Pending \in SUBSET Conns
    BY DEF Pending, Accepted
  <2>2. QED
    BY <2>1, ServerAssumption, FS_Subset
<1>4. QED
  BY <1>2, <1>3, FS_AddElement

(* A disconnect the actor receives is one of the sessions it waits for, so   *)
(* saturating_sub takes exactly one.                                         *)
LEMMA PendingShrinks ==
    ASSUME StateTypes, ServerInv, RecvDisconnected
    PROVE  /\ Cardinality(Pending) \in Nat \ {0}
           /\ Cardinality(Pending') = Cardinality(Pending) - 1
<1> DEFINE c == Head(disconnection_receiver)
<1>1. c \in Conns /\ watcher[c] = "done" /\ disconnect[c] = "none"
  BY RecvQueue DEF StateTypes, ServerInv, DisconnectsInv, RecvDisconnected
<1>2. Pending' = Pending \ {c} /\ c \in Pending
  BY <1>1 DEF StateTypes, RecvDisconnected, Pending, Accepted, sessions
<1>3. IsFiniteSet(Pending)
  <2>1. Pending \in SUBSET Conns
    BY DEF Pending, Accepted
  <2>2. QED
    BY <2>1, ServerAssumption, FS_Subset
<1>4. Cardinality(Pending) \in Nat /\ Cardinality(Pending) # 0
  BY <1>2, <1>3, FS_CardinalityType, FS_EmptySet
<1>5. QED
  BY <1>2, <1>3, <1>4, FS_RemoveElement

LEMMA InvInit == Init => ServerInv
<1> SUFFICES ASSUME Init PROVE ServerInv
  OBVIOUS
<1>1. {c \in Accepted : disconnect[c] = "none"} = {}
  BY DEF Init, Accepted
<1>2. ActiveSessionsCount
  BY <1>1, FS_EmptySet DEF Init, ActiveSessionsCount
<1>3. QED
  BY <1>2 DEF Init, ServerInv, ConnectionsInv, DisconnectsInv, ShutdownInv,
     ShutdownStopsDispatch, NoRepeat

(* Each step keeps the order in which a connection's life is told, part by   *)
(* part of the invariant: the connection queue first.                        *)
LEMMA ConnectionsStep ==
    TypeOK /\ ServerInv /\ [Next]_vars => ConnectionsInv'
<1> SUFFICES ASSUME StateTypes, ConnectionsInv, DisconnectsInv, [Next]_vars
             PROVE  ConnectionsInv'
  BY DEF ServerInv, TypeOK
<1> USE DEF StateTypes, ConnectionsInv, NoRepeat, queues, shutdown, sessions
<1>1. CASE RecvShutdown
  BY <1>1 DEF RecvShutdown, Selecting
<1>2. CASE RejectConnection
  BY <1>2, RecvQueue DEF RejectConnection, Selecting
<1>3. CASE RecvConnection
  BY <1>3, RecvQueue DEF RecvConnection, Selecting
<1>4. CASE RecvDisconnected
  BY <1>4 DEF RecvDisconnected
<1>5. CASE RecvCall
  BY <1>5 DEF RecvCall
<1>6. CASE Exit
  BY <1>6 DEF Exit, DropActor
<1>7. ASSUME NEW c \in Conns, CreateSession(c) PROVE ConnectionsInv'
  BY <1>7 DEF CreateSession
<1>8. ASSUME NEW c \in Conns, OnConnectOk(c) PROVE ConnectionsInv'
  BY <1>8 DEF OnConnectOk
<1>9. ASSUME NEW c \in Conns, OnConnectErr(c) PROVE ConnectionsInv'
  BY <1>9 DEF OnConnectErr
<1>10. CASE OnDisconnectDone
  BY <1>10 DEF OnDisconnectDone
<1>11. CASE OnCallDone
  BY <1>11 DEF OnCallDone, Resolve
<1>12. CASE AbortActor
  BY <1>12 DEF AbortActor, DropActor
<1>13. ASSUME NEW c \in Conns, Accept(c) PROVE ConnectionsInv'
  <2>1. CASE Alive
    <3>1. /\ connection_receiver' = Append(connection_receiver, c)
          /\ socket' = [socket EXCEPT ![c] = "queued"]
          /\ UNCHANGED <<watcher, actor, handling>>
          /\ socket[c] = "upgraded"
      BY <1>13, <2>1 DEF Accept
    <3>2. \A i \in 1..Len(connection_receiver) : connection_receiver[i] # c
      BY <3>1
    <3>3. NoRepeat(connection_receiver)'
      BY <3>1, <3>2, SendNoRepeat
    <3>4. \A i \in 1..Len(connection_receiver') :
              socket'[connection_receiver'[i]] = "queued"
      BY <3>1, SendQueue
    <3>5. \A d \in Conns : watcher'[d] # "none" => socket'[d] = "session"
      BY <3>1
    <3>6. actor' = "on_connect" =>
              /\ handling' \in Conns
              /\ socket'[handling'] \in {"extension", "session"}
              /\ watcher'[handling'] = "none"
      BY <3>1
    <3>7. QED
      BY <3>3, <3>4, <3>5, <3>6
  <2>2. CASE ~Alive
    BY <1>13, <2>2 DEF Accept
  <2>3. QED
    BY <2>1, <2>2
<1>14. ASSUME NEW k \in Callers, CallShutdown(k) \/ CancelShutdown(k)
       PROVE ConnectionsInv'
  BY <1>14 DEF CallShutdown, CancelShutdown
<1>15. ASSUME NEW u \in Users, UserCall(u) PROVE ConnectionsInv'
  BY <1>15 DEF UserCall, Alive
<1>16. ASSUME NEW c \in Conns, SessionStep(c) PROVE ConnectionsInv'
  BY <1>16 DEF SessionStep, LookForClose, StartHandler, Park,
     SessionCallWith, EndHandler, EndSession, TakeClose, CloseSession, Alive
<1>17. ASSUME NEW c \in Conns, TaskStep(c) PROVE ConnectionsInv'
  BY <1>17 DEF TaskStep, CloseTask, CloseTaskQuit, Watcher
<1>18. CASE UNCHANGED vars
  BY <1>18 DEF vars
<1> HIDE DEF StateTypes, ConnectionsInv, NoRepeat, queues, shutdown, sessions
<1>19. QED
  BY <1>1, <1>2, <1>3, <1>4, <1>5, <1>6, <1>7, <1>8, <1>9, <1>10, <1>11,
     <1>12, <1>13, <1>14, <1>15, <1>16, <1>17, <1>18
     DEF Next, ActorStep, Callback, Handle

(* Then the life of a session after its task is over.                        *)
LEMMA DisconnectsStep ==
    TypeOK /\ ServerInv /\ [Next]_vars => DisconnectsInv'
<1> SUFFICES ASSUME StateTypes, ConnectionsInv, DisconnectsInv, [Next]_vars
             PROVE  DisconnectsInv'
  BY DEF ServerInv, TypeOK
<1> USE DEF StateTypes, DisconnectsInv, NoRepeat, queues, shutdown, sessions
<1>1. CASE RecvShutdown
  BY <1>1 DEF RecvShutdown, Alive, Selecting
<1>2. CASE RejectConnection
  BY <1>2 DEF RejectConnection, Alive
<1>3. CASE RecvConnection
  BY <1>3 DEF RecvConnection, Alive, Selecting
<1>4. CASE RecvDisconnected
  <2> DEFINE c == Head(disconnection_receiver)
  <2>1. /\ c \in Conns
        /\ actor = "select"
        /\ actor' = "on_disconnect"
        /\ handling' = c
        /\ disconnection_receiver' = Tail(disconnection_receiver)
        /\ disconnect' = [disconnect EXCEPT ![c] = "running"]
        /\ UNCHANGED <<watcher, session>>
    BY <1>4, RecvQueue DEF RecvDisconnected, Selecting
  <2>2. watcher[c] = "done" /\ disconnect[c] = "none"
    BY <1>4, RecvQueue DEF RecvDisconnected
  <2>3. NoRepeat(disconnection_receiver)'
    BY <1>4, <2>1, RecvQueue DEF RecvDisconnected
  <2>4. \A i \in 1..Len(disconnection_receiver') :
            /\ watcher'[disconnection_receiver'[i]] = "done"
            /\ disconnect'[disconnection_receiver'[i]] = "none"
    BY <1>4, <2>1, RecvQueue DEF RecvDisconnected
  <2> HIDE DEF c
  <2>5. \A d \in Conns : /\ watcher'[d] = "done" => session'[d] = "ended"
                        /\ disconnect'[d] # "none" => watcher'[d] = "done"
    BY <2>1, <2>2
  <2>6. \A d \in Conns : disconnect[d] # "running"
    BY <2>1 DEF Alive
  <2>7. /\ disconnect'[c] = "running"
        /\ \A d \in Conns : disconnect'[d] = "running" => d = c
    BY <2>1, <2>6
  <2>8. QED
    BY <2>1, <2>3, <2>4, <2>5, <2>7
<1>5. CASE RecvCall
  BY <1>5 DEF RecvCall, Alive, Selecting
<1>6. CASE Exit
  BY <1>6 DEF Exit, DropActor, Resolve, CallsDropped, Alive
<1>7. ASSUME NEW c \in Conns, CreateSession(c) PROVE DisconnectsInv'
  BY <1>7 DEF CreateSession, Alive, ConnectionsInv
<1>8. ASSUME NEW c \in Conns, OnConnectOk(c) PROVE DisconnectsInv'
  BY <1>8 DEF OnConnectOk, Alive, ConnectionsInv
<1>9. ASSUME NEW c \in Conns, OnConnectErr(c) PROVE DisconnectsInv'
  BY <1>9 DEF OnConnectErr, Alive
<1>10. CASE OnDisconnectDone
  BY <1>10 DEF OnDisconnectDone, Alive
<1>11. CASE OnCallDone
  BY <1>11 DEF OnCallDone, Resolve, Alive
<1>12. CASE AbortActor
  BY <1>12 DEF AbortActor, DropActor, Resolve, CallsDropped, Alive
<1>13. ASSUME NEW c \in Conns, Accept(c) PROVE DisconnectsInv'
  BY <1>13 DEF Accept, Alive
<1>14. ASSUME NEW k \in Callers, CallShutdown(k) \/ CancelShutdown(k)
       PROVE DisconnectsInv'
  BY <1>14 DEF CallShutdown, CancelShutdown, Alive
<1>15. ASSUME NEW u \in Users, UserCall(u) PROVE DisconnectsInv'
  BY <1>15 DEF UserCall, Alive
<1>16. ASSUME NEW c \in Conns, SessionStep(c) PROVE DisconnectsInv'
  BY <1>16 DEF SessionStep, LookForClose, StartHandler, Park,
     SessionCallWith, EndHandler, EndSession, TakeClose, CloseSession, Alive
<1>17. ASSUME NEW c \in Conns, TaskStep(c) PROVE DisconnectsInv'
  <2>1. CASE CloseTask(c) \/ CloseTaskQuit(c)
    BY <2>1 DEF CloseTask, CloseTaskQuit, Alive
  <2>2. CASE Watcher(c)
    <3>1. /\ watcher[c] = "await_close"
          /\ session[c] = "ended"
          /\ watcher' = [watcher EXCEPT ![c] = "done"]
          /\ UNCHANGED <<actor, handling, session, disconnect>>
          /\ disconnect[c] = "none"
      BY <2>2 DEF Watcher, SessionOver
    <3>2. CASE ~Alive
      BY <2>2, <3>1, <3>2 DEF Watcher, NotifyServer, Alive
    <3>3. CASE Alive
      <4>1. disconnection_receiver' = Append(disconnection_receiver, c)
        BY <2>2, <3>3 DEF Watcher, NotifyServer
      <4>2. \A i \in 1..Len(disconnection_receiver) :
                disconnection_receiver[i] # c
        BY <3>1
      <4>3. NoRepeat(disconnection_receiver)'
        <5> HIDE DEF NoRepeat
        <5>1. NoRepeat(disconnection_receiver)
              /\ disconnection_receiver \in Seq(Conns)
          OBVIOUS
        <5>2. NoRepeat(Append(disconnection_receiver, c))
          BY <4>2, <5>1, SendNoRepeat
        <5>3. QED
          BY <4>1, <5>2
      <4>4. \A i \in 1..Len(disconnection_receiver') :
                /\ watcher'[disconnection_receiver'[i]] = "done"
                /\ disconnect'[disconnection_receiver'[i]] = "none"
        BY <3>1, <4>1, SendQueue
      <4>5. /\ \A d \in Conns : watcher'[d] = "done" => session'[d] = "ended"
            /\ \A d \in Conns : disconnect'[d] # "none" => watcher'[d] = "done"
        BY <3>1
      <4>6. /\ actor' = "on_disconnect" =>
                  handling' \in Conns /\ disconnect'[handling'] = "running"
            /\ \A d \in Conns : Alive' /\ disconnect'[d] = "running" =>
                  actor' = "on_disconnect" /\ handling' = d
        BY <3>1 DEF Alive
      <4>7. QED
        BY <4>3, <4>4, <4>5, <4>6
    <3>4. QED
      BY <3>2, <3>3
  <2>3. QED
    BY <1>17, <2>1, <2>2 DEF TaskStep
<1>18. CASE UNCHANGED vars
  BY <1>18 DEF vars, Alive
<1> HIDE DEF StateTypes, DisconnectsInv, NoRepeat, queues, shutdown, sessions
<1>19. QED
  BY <1>1, <1>2, <1>3, <1>4, <1>5, <1>6, <1>7, <1>8, <1>9, <1>10, <1>11,
     <1>12, <1>13, <1>14, <1>15, <1>16, <1>17, <1>18
     DEF Next, ActorStep, Callback, Handle

(* Then the callers, and what the exit of the actor leaves behind.           *)
LEMMA ShutdownStep ==
    TypeOK /\ ServerInv /\ [Next]_vars => ShutdownInv'
<1> SUFFICES ASSUME StateTypes, ServerInv, [Next]_vars
             PROVE  ShutdownInv'
  BY DEF TypeOK
<1>0. ShutdownInv
  BY DEF ServerInv
<1> USE DEF StateTypes, ShutdownInv, queues, shutdown, sessions
<1>1. CASE RecvShutdown
  BY <1>0, <1>1, RecvQueue DEF RecvShutdown, Selecting
<1>2. CASE RejectConnection
  BY <1>0, <1>2 DEF RejectConnection, Selecting
<1>3. CASE RecvConnection
  BY <1>0, <1>3 DEF RecvConnection, Selecting
<1>4. CASE RecvDisconnected
  BY <1>0, <1>4 DEF RecvDisconnected, Selecting
<1>5. CASE RecvCall
  BY <1>0, <1>5 DEF RecvCall, Selecting
<1>6. CASE Exit
  <2>1. actor = "select" /\ Alive /\ active_sessions = 0
    BY <1>6 DEF Exit, DrainComplete, Alive
  <2>2. Pending = {}
    <3>1. Cardinality(Pending) = 0
      BY <2>1 DEF ServerInv, ActiveSessionsCount, Pending
    <3>2. Pending \in SUBSET Conns
      BY DEF Pending, Accepted
    <3>3. QED
      BY <3>1, <3>2, ServerAssumption, FS_Subset, FS_EmptySet
  <2>3. \A c \in Conns : watcher[c] # "none" => disconnect[c] = "done"
    BY <2>1, <2>2 DEF Pending, Accepted, ServerInv, DisconnectsInv
  <2>4. QED
    BY <1>0, <1>6, <2>3 DEF Exit, DropActor
<1>7. ASSUME NEW c \in Conns,
             CreateSession(c) \/ OnConnectOk(c) \/ OnConnectErr(c)
      PROVE  ShutdownInv'
  BY <1>0, <1>7 DEF CreateSession, OnConnectOk, OnConnectErr
<1>8. CASE OnDisconnectDone
  BY <1>0, <1>8 DEF OnDisconnectDone
<1>9. CASE OnCallDone
  BY <1>0, <1>9 DEF OnCallDone, Resolve
<1>10. CASE AbortActor
  BY <1>0, <1>10 DEF AbortActor, DropActor, Alive
<1>11. ASSUME NEW c \in Conns, Accept(c) PROVE ShutdownInv'
  BY <1>0, <1>11 DEF Accept, Alive
<1>12. ASSUME NEW k \in Callers, CallShutdown(k) PROVE ShutdownInv'
  <2>1. /\ caller[k] = "idle"
        /\ \E st \in {"waiting", "refused"} :
              caller' = [caller EXCEPT ![k] = st]
        /\ UNCHANGED <<actor, watcher, disconnect>>
    BY <1>12 DEF CallShutdown
  <2>2. \A i \in 1..Len(shutdown_receiver') :
            caller'[shutdown_receiver'[i]] \in {"waiting", "cancelled"}
    <3>1. CASE Alive
      <4>1. /\ shutdown_receiver' = Append(shutdown_receiver, k)
            /\ caller' = [caller EXCEPT ![k] = "waiting"]
        BY <1>12, <3>1 DEF CallShutdown
      <4>2. QED
        BY <1>0, <4>1, SendQueue
    <3>2. CASE ~Alive
      BY <1>0, <1>12, <2>1, <3>2 DEF CallShutdown
    <3>3. QED
      BY <3>1, <3>2
  <2>3. /\ \A j \in Callers : caller'[j] = "acked" => actor' = "exited"
        /\ actor' = "exited" =>
              \A c \in Conns : watcher'[c] # "none" => disconnect'[c] = "done"
    BY <1>0, <2>1
  <2>4. QED
    BY <2>2, <2>3
<1>13. ASSUME NEW k \in Callers, CancelShutdown(k) PROVE ShutdownInv'
  BY <1>0, <1>13 DEF CancelShutdown
<1>14. ASSUME NEW u \in Users, UserCall(u) PROVE ShutdownInv'
  BY <1>0, <1>14 DEF UserCall, Alive
<1>15. ASSUME NEW c \in Conns, SessionStep(c) PROVE ShutdownInv'
  BY <1>0, <1>15 DEF SessionStep, LookForClose, StartHandler, Park,
     SessionCallWith, EndHandler, EndSession, TakeClose, CloseSession, Alive
<1>16. ASSUME NEW c \in Conns, TaskStep(c) PROVE ShutdownInv'
  BY <1>0, <1>16 DEF TaskStep, CloseTask, CloseTaskQuit, Watcher
<1>17. CASE UNCHANGED vars
  BY <1>0, <1>17 DEF vars
<1> HIDE DEF StateTypes, ShutdownInv, queues, shutdown, sessions
<1>18. QED
  BY <1>1, <1>2, <1>3, <1>4, <1>5, <1>6, <1>7, <1>8, <1>9, <1>10, <1>11,
     <1>12, <1>13, <1>14, <1>15, <1>16, <1>17
     DEF Next, ActorStep, Callback, Handle

(* Then the counter: it changes with Pending, and Pending only with it.      *)
LEMMA CountStep ==
    TypeOK /\ ServerInv /\ [Next]_vars => ActiveSessionsCount'
<1> SUFFICES ASSUME StateTypes, ServerInv, [Next]_vars, Alive'
             PROVE  active_sessions' = Cardinality(Pending')
  BY DEF TypeOK, ActiveSessionsCount, Pending
<1>0. Alive => active_sessions = Cardinality(Pending)
  BY DEF ServerInv, ActiveSessionsCount, Pending
<1>1. ASSUME Alive, active_sessions' = active_sessions, Pending' = Pending
      PROVE  active_sessions' = Cardinality(Pending')
  BY <1>0, <1>1
<1>2. ASSUME NEW c \in Conns, OnConnectOk(c)
      PROVE  active_sessions' = Cardinality(Pending')
  <2>1. Alive /\ active_sessions' = active_sessions + 1
    BY <1>2 DEF OnConnectOk, Alive
  <2>2. QED
    BY <1>0, <1>2, <2>1, PendingGrows
<1>3. CASE RecvDisconnected
  <2>1. Alive /\ active_sessions' = Decremented(active_sessions)
    BY <1>3 DEF RecvDisconnected, Selecting, Alive
  <2>2. Cardinality(Pending) \in Nat \ {0}
        /\ Cardinality(Pending') = Cardinality(Pending) - 1
    BY <1>3, PendingShrinks
  <2>3. QED
    BY <1>0, <2>1, <2>2 DEF Decremented
<1>4. CASE OnDisconnectDone
  <2>1. Alive /\ UNCHANGED <<active_sessions, watcher>>
    BY <1>4 DEF OnDisconnectDone, Alive, sessions
  <2>2. disconnect[handling] = "running" /\ disconnect' = [disconnect EXCEPT ![handling] = "done"]
        /\ handling \in Conns
    BY <1>4 DEF OnDisconnectDone, ServerInv, DisconnectsInv
  <2>3. Pending' = Pending
    BY <2>1, <2>2 DEF StateTypes, Pending, Accepted
  <2>4. QED
    BY <1>1, <2>1, <2>3
<1>5. ASSUME NEW c \in Conns, TaskStep(c)
      PROVE  active_sessions' = Cardinality(Pending')
  <2>1. Alive /\ UNCHANGED <<active_sessions, disconnect>>
    BY <1>5 DEF TaskStep, CloseTask, CloseTaskQuit, Watcher, Alive
  <2>2. Accepted' = Accepted
    BY <1>5 DEF StateTypes, TaskStep, CloseTask, CloseTaskQuit, Watcher, Accepted
  <2>3. QED
    BY <1>1, <2>1, <2>2 DEF Pending
<1>6. ASSUME UNCHANGED <<active_sessions, watcher, disconnect>>, Alive
      PROVE  active_sessions' = Cardinality(Pending')
  BY <1>1, <1>6 DEF Pending, Accepted
<1>7. ASSUME NEW c \in Conns, CreateSession(c) \/ OnConnectErr(c) \/ Accept(c)
      PROVE  Alive /\ UNCHANGED <<active_sessions, watcher, disconnect>>
  BY <1>7 DEF CreateSession, OnConnectErr, Accept, Alive, sessions
<1>8. ASSUME NEW k \in Callers, CallShutdown(k) \/ CancelShutdown(k)
      PROVE  Alive /\ UNCHANGED <<active_sessions, watcher, disconnect>>
  BY <1>8 DEF CallShutdown, CancelShutdown, Alive, sessions
<1>9. ASSUME NEW u \in Users, UserCall(u)
      PROVE  Alive /\ UNCHANGED <<active_sessions, watcher, disconnect>>
  BY <1>9 DEF UserCall, Alive, sessions
<1>10. ASSUME NEW c \in Conns, SessionStep(c)
       PROVE  Alive /\ UNCHANGED <<active_sessions, watcher, disconnect>>
  BY <1>10 DEF SessionStep, LookForClose, StartHandler, Park,
     SessionCallWith, EndHandler, EndSession, TakeClose, CloseSession, Alive
<1>11. ASSUME RecvShutdown \/ RejectConnection \/ RecvConnection \/ RecvCall
              \/ OnCallDone
       PROVE  Alive /\ UNCHANGED <<active_sessions, watcher, disconnect>>
  BY <1>11 DEF RecvShutdown, RejectConnection, RecvConnection, RecvCall,
     OnCallDone, Selecting, Alive, sessions
<1>12. ASSUME Exit \/ AbortActor PROVE FALSE
  BY <1>12 DEF Exit, AbortActor, Alive
<1>13. CASE UNCHANGED vars
  BY <1>6, <1>13 DEF vars, Alive, sessions
<1>14. QED
  BY <1>2, <1>3, <1>4, <1>5, <1>6, <1>7, <1>8, <1>9, <1>10, <1>11, <1>12,
     <1>13 DEF Next, ActorStep, Callback, Handle

(* And the dispatch: while on_connect or on_call runs, the actor reads no    *)
(* shutdown request, and after one it starts neither.                        *)
LEMMA DispatchStep ==
    TypeOK /\ ServerInv /\ [Next]_vars => ShutdownStopsDispatch'
<1> SUFFICES ASSUME StateTypes, ShutdownStopsDispatch, [Next]_vars
             PROVE  ShutdownStopsDispatch'
  BY DEF ServerInv, TypeOK
<1> USE DEF ShutdownStopsDispatch, queues, shutdown, sessions
<1>1. CASE ActorStep
  BY <1>1 DEF ActorStep, RecvShutdown, RejectConnection, RecvConnection,
     RecvDisconnected, RecvCall, Exit, DropActor, Selecting, Rejecting,
     CallBranch
<1>2. CASE Callback
  BY <1>2 DEF Callback, CreateSession, OnConnectOk, OnConnectErr,
     OnDisconnectDone, OnCallDone
<1>3. CASE AbortActor
  BY <1>3 DEF AbortActor, DropActor
<1>4. CASE Handle
  BY <1>4 DEF Handle, Accept, CallShutdown, CancelShutdown, UserCall
<1>5. ASSUME NEW c \in Conns, SessionStep(c) \/ TaskStep(c)
      PROVE  ShutdownStopsDispatch'
  BY <1>5 DEF SessionStep, LookForClose, StartHandler, Park,
     SessionCallWith, EndHandler, EndSession, TakeClose, CloseSession,
     TaskStep, CloseTask, CloseTaskQuit, Watcher
<1>6. CASE UNCHANGED vars
  BY <1>6 DEF vars
<1> HIDE DEF ShutdownStopsDispatch, queues, shutdown, sessions
<1>7. QED
  BY <1>1, <1>2, <1>3, <1>4, <1>5, <1>6 DEF Next

(* The inductive invariant holds in every reachable state.                   *)
THEOREM ServerInvariant == Spec => [](TypeOK /\ ServerInv)
<1>1. Init => TypeOK /\ ServerInv
  BY TypeInit, InvInit
<1>2. TypeOK /\ ServerInv /\ [Next]_vars => (TypeOK /\ ServerInv)'
  BY TypeStep, ConnectionsStep, DisconnectsStep, ShutdownStep, CountStep,
     DispatchStep DEF ServerInv
<1>3. QED
  BY <1>1, <1>2, PTL DEF Spec

(* The drain is counted right: active_sessions never drifts from the number  *)
(* of accepted sessions whose disconnect the actor has still to receive.     *)
THEOREM CountCorrect == Spec => []ActiveSessionsCount
  BY ServerInvariant, PTL DEF ServerInv

(* After the actor has seen a shutdown request, no connection reaches        *)
(* on_connect and no call reaches on_call.                                   *)
THEOREM DispatchStops == Spec => []ShutdownStopsDispatch
  BY ServerInvariant, PTL DEF ServerInv

(* Ok from graceful_shutdown means that every accepted session is over and   *)
(* that its on_disconnect has completed.                                     *)
THEOREM AckCorrect == Spec => []AckMeansDrained
<1>1. TypeOK /\ ServerInv => AckMeansDrained
  BY DEF ServerInv, ShutdownInv, DisconnectsInv, AckMeansDrained, Accepted,
     TypeOK, StateTypes
<1>2. QED
  BY <1>1, ServerInvariant, PTL

(* on_disconnect starts once per session, and after the session's task.      *)
THEOREM DisconnectOnce == Spec => DisconnectOnceAfterEnd
<1>1. TypeOK /\ ServerInv /\ [Next]_vars =>
        [\A c \in Conns :
            disconnect'[c] = "running" /\ disconnect[c] # "running" =>
                disconnect[c] = "none" /\ c \in Accepted /\ session[c] = "ended"]_vars
  <2> SUFFICES ASSUME StateTypes, DisconnectsInv, [Next]_vars,
                      NEW c \in Conns,
                      disconnect'[c] = "running", disconnect[c] # "running"
               PROVE  disconnect[c] = "none" /\ c \in Accepted
                      /\ session[c] = "ended"
    BY DEF TypeOK, ServerInv
  <2>1. CASE RecvDisconnected
    BY <2>1, RecvQueue DEF RecvDisconnected, StateTypes, DisconnectsInv, Accepted
  <2>2. CASE OnDisconnectDone
    BY <2>2 DEF OnDisconnectDone, StateTypes, DisconnectsInv
  <2>3. CASE UNCHANGED disconnect
    BY <2>3
  <2>4. ASSUME ~RecvDisconnected, ~OnDisconnectDone
        PROVE  UNCHANGED disconnect
    <3>1. CASE ActorStep
      BY <2>4, <3>1 DEF ActorStep, RecvShutdown, RejectConnection,
         RecvConnection, RecvCall, Exit, DropActor
    <3>2. CASE Callback
      BY <2>4, <3>2 DEF Callback, CreateSession, OnConnectOk, OnConnectErr,
         OnCallDone
    <3>3. CASE Handle
      BY <3>3 DEF Handle, Accept, CallShutdown, CancelShutdown, UserCall
    <3>4. CASE AbortActor
      BY <3>4 DEF AbortActor, DropActor
    <3>5. ASSUME NEW d \in Conns, SessionStep(d) \/ TaskStep(d)
          PROVE  UNCHANGED disconnect
      BY <3>5 DEF SessionStep, LookForClose, StartHandler, Park,
         SessionCallWith, EndHandler, EndSession, TakeClose, CloseSession,
         TaskStep, CloseTask, CloseTaskQuit, Watcher
    <3>6. QED
      BY <3>1, <3>2, <3>3, <3>4, <3>5 DEF Next, vars
  <2>5. QED
    BY <2>1, <2>2, <2>3, <2>4
<1>2. QED
  BY <1>1, ServerInvariant, PTL DEF Spec, DisconnectOnceAfterEnd

-----------------------------------------------------------------------------
(* The refinement of GracefulShutdown.  The abstract state depends on few    *)
(* variables; a step that leaves them alone, or moves the actor between its  *)
(* branches, is a stutter.                                                   *)
Live == {c \in Accepted : disconnect[c] # "done"}
Gone == {c \in Conns : disconnect[c] = "done"}
abstract == <<Phase, Live, Gone, Answer>>

LEMMA AbstractStutter ==
    ASSUME UNCHANGED <<shutting_down, caller>>, Live' = Live, Gone' = Gone,
           Alive = Alive', Alive \/ actor' = actor
    PROVE  UNCHANGED abstract
  BY DEF abstract, Phase, Answer, Alive

(* Server's initial state is an initial state of GracefulShutdown.           *)
LEMMA AbstractInit == Init => Shutdown!Init
<1> SUFFICES ASSUME Init PROVE Shutdown!Init
  OBVIOUS
<1>1. Phase = "serving" /\ Live = {} /\ Gone = {}
  BY DEF Init, Phase, Live, Gone, Accepted
<1>2. Answer = [k \in Callers |-> "idle"]
  BY DEF Init, Answer
<1>3. QED
  BY <1>1, <1>2 DEF Shutdown!Init, Live, Gone

(* The request that starts the drain.                                        *)
LEMMA AbstractBegin ==
    ASSUME TypeOK, ServerInv, RecvShutdown
    PROVE  Shutdown!Begin \/ UNCHANGED abstract
<1>1. /\ actor = "select" /\ actor' = "select"
      /\ shutting_down'
      /\ UNCHANGED <<caller, watcher, disconnect>>
  BY DEF RecvShutdown, Selecting, sessions
<1>2. UNCHANGED <<Live, Gone, Answer>>
  BY <1>1 DEF Live, Gone, Accepted, Answer
<1>3. CASE shutting_down
  BY <1>1, <1>2, <1>3 DEF abstract, Phase
<1>4. CASE ~shutting_down
  <2>1. Phase = "serving" /\ Phase' = "draining"
    BY <1>1, <1>4 DEF Phase
  <2>2. PICK k \in Callers : caller[k] \in {"waiting", "cancelled"}
    <3>1. /\ Head(shutdown_receiver) \in Callers
          /\ caller[Head(shutdown_receiver)] \in {"waiting", "cancelled"}
      BY RecvQueue DEF TypeOK, StateTypes, ServerInv, ShutdownInv, RecvShutdown
    <3>2. QED
      BY <3>1
  <2>3. Answer[k] \in {"waiting", "cancelled"}
    BY <2>2 DEF Answer
  <2>4. QED
    BY <1>2, <2>1, <2>3 DEF Shutdown!Begin, Live, Gone
<1>5. QED
  BY <1>3, <1>4

(* A session that on_connect returns is admitted, and the server still       *)
(* serves: no shutdown request can be read while on_connect runs.            *)
LEMMA AbstractAdmit ==
    ASSUME TypeOK, ServerInv, NEW c \in Conns, OnConnectOk(c)
    PROVE  Shutdown!Admit(c)
<1>1. watcher[c] = "none" /\ disconnect[c] = "none" /\ ~shutting_down
  BY DEF TypeOK, StateTypes, ServerInv, ConnectionsInv, DisconnectsInv,
     ShutdownStopsDispatch, OnConnectOk
<1>2. Phase = "serving" /\ Phase' = Phase
  BY <1>1 DEF OnConnectOk, Phase, shutdown
<1>3. c \notin Live \cup Gone /\ Live' = Live \cup {c} /\ Gone' = Gone
  BY <1>1 DEF OnConnectOk, Live, Gone, Accepted, TypeOK, StateTypes
<1>4. Answer' = Answer
  BY DEF OnConnectOk, Answer
<1>5. QED
  BY <1>2, <1>3, <1>4 DEF Shutdown!Admit, Live, Gone

(* A session leaves when its on_disconnect completes.                        *)
LEMMA AbstractLeave ==
    ASSUME TypeOK, ServerInv, OnDisconnectDone
    PROVE  \E c \in Conns : Shutdown!Leave(c)
<1>1. /\ handling \in Conns
      /\ disconnect[handling] = "running"
      /\ watcher[handling] = "done"
  BY DEF ServerInv, DisconnectsInv, OnDisconnectDone
<1>2. Phase \in {"serving", "draining"} /\ Phase' = Phase
  BY DEF OnDisconnectDone, Phase, shutdown
<1>3. /\ handling \in Live
      /\ Live' = Live \ {handling}
      /\ Gone' = Gone \cup {handling}
  BY <1>1 DEF OnDisconnectDone, Live, Gone, Accepted, TypeOK, StateTypes,
     sessions
<1>4. Answer' = Answer
  BY DEF OnDisconnectDone, Answer
<1>5. PICK c \in Conns : c = handling
  BY <1>1
<1>6. Shutdown!Leave(c)
  BY <1>2, <1>3, <1>4, <1>5 DEF Shutdown!Leave, Shutdown!Running, Live, Gone
<1>7. QED
  BY <1>6

(* The exit of the actor is the abstract Finish: no session is left, and the *)
(* callers whose acks were collected are told Ok.                            *)
LEMMA AbstractFinish ==
    ASSUME TypeOK, ServerInv, ShutdownInv', Exit
    PROVE  Shutdown!Finish
<1>1. /\ actor = "select" /\ actor' = "exited" /\ shutting_down
      /\ UNCHANGED <<watcher, disconnect>>
  BY DEF Exit, DrainComplete, DropActor
<1>2. Phase = "draining" /\ Phase' = "stopped"
  BY <1>1 DEF Phase
<1>3. Live = {} /\ UNCHANGED <<Live, Gone>>
  BY <1>1 DEF ShutdownInv, Live, Gone, Accepted
<1>4. shutdown_acks \in SUBSET Callers
  BY DEF TypeOK, StateTypes
<1>5. ASSUME NEW k \in Callers
      PROVE  Answer'[k] = IF Answer[k] # "waiting" THEN Answer[k]
                          ELSE IF k \in shutdown_acks THEN "ok" ELSE "stopped"
  BY DEF Exit, Answer, TypeOK, StateTypes, CallerStates
<1>6. Answer' = [k \in Callers |->
                    IF Answer[k] # "waiting" THEN Answer[k]
                    ELSE IF k \in shutdown_acks THEN "ok" ELSE "stopped"]
  BY <1>5 DEF Answer
<1>7. QED
  BY <1>2, <1>3, <1>4, <1>6 DEF Shutdown!Finish, Live, Gone

LEMMA AbstractAbort ==
    ASSUME TypeOK, AbortActor
    PROVE  Shutdown!Abort
<1>1. /\ Alive /\ actor' = "aborted"
      /\ UNCHANGED <<watcher, disconnect>>
  BY DEF AbortActor, DropActor
<1>2. Phase \in {"serving", "draining"} /\ Phase' = "aborted"
  BY <1>1 DEF Phase, Alive
<1>3. UNCHANGED <<Live, Gone>>
  BY <1>1 DEF Live, Gone, Accepted
<1>4. ASSUME NEW k \in Callers
      PROVE  Answer'[k] = IF Answer[k] = "waiting" THEN "stopped" ELSE Answer[k]
  BY DEF AbortActor, Answer, TypeOK, StateTypes, CallerStates
<1>5. Answer' = [k \in Callers |->
                    IF Answer[k] = "waiting" THEN "stopped" ELSE Answer[k]]
  BY <1>4 DEF Answer
<1>6. QED
  BY <1>2, <1>3, <1>5 DEF Shutdown!Abort, Shutdown!Running, Live, Gone

(* A caller asks, or gives up.                                               *)
LEMMA AbstractCaller ==
    ASSUME TypeOK, NEW k \in Callers, CallShutdown(k) \/ CancelShutdown(k)
    PROVE  Shutdown!Request(k) \/ Shutdown!Cancel(k)
<1>1. UNCHANGED <<Phase, Live, Gone>>
  BY DEF CallShutdown, CancelShutdown, Phase, Live, Gone, Accepted, shutdown,
     sessions
<1>2. CASE CallShutdown(k)
  <2>1. Alive <=> Phase \in {"serving", "draining"}
    BY DEF Alive, Phase, TypeOK, StateTypes
  <2>2. Answer[k] = "idle"
    BY <1>2 DEF CallShutdown, Answer
  <2>3. caller' = [caller EXCEPT ![k] = IF Alive THEN "waiting" ELSE "refused"]
    BY <1>2 DEF CallShutdown
  <2>4. Answer' = [Answer EXCEPT ![k] = IF Alive THEN "waiting" ELSE "stopped"]
    BY <2>3 DEF Answer, TypeOK, StateTypes
  <2>5. QED
    BY <1>1, <2>1, <2>2, <2>4 DEF Shutdown!Request, Shutdown!Running, Live, Gone
<1>3. CASE CancelShutdown(k)
  <2>1. Answer[k] = "waiting"
    BY <1>3 DEF CancelShutdown, Answer
  <2>2. Answer' = [Answer EXCEPT ![k] = "cancelled"]
    BY <1>3 DEF CancelShutdown, Answer, TypeOK, StateTypes
  <2>3. QED
    BY <1>1, <2>1, <2>2 DEF Shutdown!Cancel, Live, Gone
<1>4. QED
  BY <1>2, <1>3

(* Every other step of the server is invisible to the abstract view.         *)
LEMMA AbstractSilent ==
    ASSUME TypeOK, ServerInv, [Next]_vars,
           ~RecvShutdown, ~Exit, ~AbortActor, ~OnDisconnectDone,
           \A c \in Conns : ~OnConnectOk(c),
           \A k \in Callers : ~(CallShutdown(k) \/ CancelShutdown(k))
    PROVE  UNCHANGED abstract
<1>1. ASSUME Alive, Alive', UNCHANGED <<shutting_down, caller, watcher, disconnect>>
      PROVE  UNCHANGED abstract
  BY <1>1, AbstractStutter DEF Live, Gone, Accepted
<1>2. ASSUME UNCHANGED <<actor, shutting_down, caller, watcher, disconnect>>
      PROVE  UNCHANGED abstract
  BY <1>2, AbstractStutter DEF Live, Gone, Accepted, Alive
<1>3. CASE RejectConnection \/ RecvConnection \/ RecvCall \/ OnCallDone
  <2>1. Alive /\ Alive' /\ UNCHANGED <<shutting_down, caller, watcher, disconnect>>
    BY <1>3 DEF RejectConnection, RecvConnection, RecvCall, OnCallDone,
       Selecting, Alive, shutdown, sessions
  <2>2. QED
    BY <1>1, <2>1
<1>4. CASE RecvDisconnected
  <2>1. /\ Alive /\ Alive'
        /\ UNCHANGED <<shutting_down, caller, watcher>>
    BY <1>4 DEF RecvDisconnected, Selecting, Alive, shutdown, sessions
  <2>2. /\ Head(disconnection_receiver) \in Conns
        /\ disconnect[Head(disconnection_receiver)] = "none"
    BY <1>4, RecvQueue DEF RecvDisconnected, TypeOK, StateTypes, ServerInv,
       DisconnectsInv
  <2>3. Live' = Live /\ Gone' = Gone
    BY <1>4, <2>1, <2>2 DEF RecvDisconnected, Live, Gone, Accepted, TypeOK,
       StateTypes
  <2>4. QED
    BY <2>1, <2>3, AbstractStutter
<1>5. ASSUME NEW c \in Conns, CreateSession(c) \/ OnConnectErr(c)
      PROVE  UNCHANGED abstract
  <2>1. Alive /\ Alive' /\ UNCHANGED <<shutting_down, caller, watcher, disconnect>>
    BY <1>5 DEF CreateSession, OnConnectErr, Alive, shutdown, sessions
  <2>2. QED
    BY <1>1, <2>1
<1>6. ASSUME NEW c \in Conns, Accept(c) \/ SessionStep(c)
      PROVE  UNCHANGED abstract
  <2>1. UNCHANGED <<actor, shutting_down, caller, watcher, disconnect>>
    BY <1>6 DEF Accept, SessionStep, LookForClose, StartHandler, Park,
       SessionCallWith, EndHandler, EndSession, TakeClose, CloseSession,
       shutdown, sessions
  <2>2. QED
    BY <1>2, <2>1
<1>7. ASSUME NEW u \in Users, UserCall(u) PROVE UNCHANGED abstract
  <2>1. UNCHANGED <<actor, shutting_down, caller, watcher, disconnect>>
    BY <1>7 DEF UserCall, shutdown, sessions
  <2>2. QED
    BY <1>2, <2>1
<1>8. ASSUME NEW c \in Conns, TaskStep(c) PROVE UNCHANGED abstract
  <2>1. UNCHANGED <<actor, shutting_down, caller, disconnect>>
    BY <1>8 DEF TaskStep, CloseTask, CloseTaskQuit, Watcher, shutdown
  <2>2. Accepted' = Accepted
    BY <1>8 DEF TaskStep, CloseTask, CloseTaskQuit, Watcher, Accepted, TypeOK,
       StateTypes
  <2>3. Live' = Live /\ Gone' = Gone
    BY <2>1, <2>2 DEF Live, Gone
  <2>4. QED
    BY <2>1, <2>3, AbstractStutter DEF Alive
<1>9. CASE UNCHANGED vars
  BY <1>2, <1>9 DEF vars, shutdown, sessions
<1>10. QED
  BY <1>3, <1>4, <1>5, <1>6, <1>7, <1>8, <1>9
     DEF Next, ActorStep, Callback, Handle

(* The server implements GracefulShutdown: it admits only while serving,     *)
(* drains only on request, and answers Ok only with no session left.         *)
THEOREM ServerImplementsShutdown == Spec => ImplementsShutdown
<1>1. TypeOK /\ ServerInv /\ (TypeOK /\ ServerInv)' /\ [Next]_vars
        => [Shutdown!Next]_(Shutdown!vars)
  <2> SUFFICES ASSUME TypeOK, ServerInv, ServerInv', [Next]_vars
               PROVE  Shutdown!Next \/ UNCHANGED abstract
    BY DEF Shutdown!vars, abstract, Live, Gone
  <2>1. CASE RecvShutdown
    BY <2>1, AbstractBegin DEF Shutdown!Next
  <2>2. CASE Exit
    BY <2>2, AbstractFinish DEF Shutdown!Next, ServerInv
  <2>3. CASE AbortActor
    BY <2>3, AbstractAbort DEF Shutdown!Next
  <2>4. CASE OnDisconnectDone
    BY <2>4, AbstractLeave DEF Shutdown!Next
  <2>5. ASSUME NEW c \in Conns, OnConnectOk(c)
        PROVE  Shutdown!Next
    BY <2>5, AbstractAdmit DEF Shutdown!Next
  <2>6. ASSUME NEW k \in Callers, CallShutdown(k) \/ CancelShutdown(k)
        PROVE  Shutdown!Next
    BY <2>6, AbstractCaller DEF Shutdown!Next
  <2>7. QED
    BY <2>1, <2>2, <2>3, <2>4, <2>5, <2>6, AbstractSilent
<1>2. QED
  BY AbstractInit, <1>1, ServerInvariant, PTL
     DEF Spec, ImplementsShutdown, Shutdown!Spec

-----------------------------------------------------------------------------
(* A socket has no session before on_connect makes it one.                   *)
CreatedInv ==
    \A c \in Conns :
        socket[c] \in {"upgraded", "queued", "extension"} => session[c] = "none"

LEMMA CreatedInit == Init => CreatedInv
  BY DEF Init, CreatedInv

LEMMA CreatedStep ==
    ASSUME StateTypes, ConnectionsInv, CreatedInv, [Next]_vars
    PROVE  CreatedInv'
<1> USE DEF StateTypes, CreatedInv, queues, shutdown, sessions
<1>1. CASE ActorStep
  <2>1. CASE RecvConnection
    <3>1. session[Head(connection_receiver)] = "none"
      BY <2>1, RecvQueue DEF RecvConnection, ConnectionsInv
    <3>2. QED
      BY <2>1, <3>1 DEF RecvConnection
  <2>2. CASE RejectConnection
    BY <2>2 DEF RejectConnection
  <2>3. CASE Exit
    BY <2>3 DEF Exit, DropActor, Resolve
  <2>4. CASE RecvShutdown \/ RecvDisconnected \/ RecvCall
    BY <2>4 DEF RecvShutdown, RecvDisconnected, RecvCall
  <2>5. QED
    BY <1>1, <2>1, <2>2, <2>3, <2>4 DEF ActorStep
<1>2. CASE Callback
  <2>1. ASSUME NEW c \in Conns, CreateSession(c) PROVE CreatedInv'
    BY <2>1 DEF CreateSession
  <2>2. ASSUME NEW c \in Conns, OnConnectOk(c) \/ OnConnectErr(c) PROVE CreatedInv'
    BY <2>2 DEF OnConnectOk, OnConnectErr
  <2>3. CASE OnDisconnectDone \/ OnCallDone
    BY <2>3 DEF OnDisconnectDone, OnCallDone, Resolve
  <2>4. QED
    BY <1>2, <2>1, <2>2, <2>3 DEF Callback
<1>3. CASE AbortActor
  BY <1>3 DEF AbortActor, DropActor, Resolve
<1>4. CASE Handle
  BY <1>4 DEF Handle, Accept, CallShutdown, CancelShutdown, UserCall
<1>5. ASSUME NEW c \in Conns, SessionStep(c) PROVE CreatedInv'
  BY <1>5 DEF SessionStep, LookForClose, StartHandler, Park, SessionCallWith,
     EndHandler, EndSession, TakeClose, CloseSession
<1>6. ASSUME NEW c \in Conns, TaskStep(c) PROVE CreatedInv'
  BY <1>6 DEF TaskStep, CloseTask, CloseTaskQuit, Watcher
<1>7. CASE UNCHANGED vars
  BY <1>7 DEF vars
<1> HIDE DEF StateTypes, CreatedInv, queues, shutdown, sessions
<1>8. QED
  BY <1>1, <1>2, <1>3, <1>4, <1>5, <1>6, <1>7 DEF Next

THEOREM SocketsBeforeSessions == Spec => []CreatedInv
<1>1. TypeOK /\ ServerInv /\ CreatedInv /\ [Next]_vars => CreatedInv'
  BY CreatedStep DEF TypeOK, ServerInv
<1>2. QED
  BY CreatedInit, <1>1, ServerInvariant, PTL DEF Spec

(* The life of a session: a step of the server that leaves the task and the queue of *)
(* a session alone is a stutter of its life.                                 *)
LEMMA LifeStutter ==
    ASSUME NEW c \in Conns, session'[c] = session[c],
           c \in to_socket' <=> c \in to_socket
    PROVE  UNCHANGED Life(c)!vars
  BY DEF Life!vars, Seen

(* A step of another session's task is one.                                  *)
LEMMA OtherLife ==
    ASSUME StateTypes, NEW c \in Conns, NEW d \in Conns, c # d,
           SessionStep(d) \/ TaskStep(d)
    PROVE  UNCHANGED Life(c)!vars
<1>1. CASE SessionStep(d)
  <2>1. session'[c] = session[c] /\ (c \in to_socket' <=> c \in to_socket)
    BY <1>1 DEF SessionStep, LookForClose, StartHandler, Park, SessionCallWith,
       EndHandler, EndSession, TakeClose, CloseSession, StateTypes
  <2>2. QED
    BY <2>1, LifeStutter
<1>2. CASE TaskStep(d)
  <2>1. session'[c] = session[c] /\ (c \in to_socket' <=> c \in to_socket)
    BY <1>2 DEF TaskStep, CloseTask, CloseTaskQuit, Watcher, StateTypes
  <2>2. QED
    BY <2>1, LifeStutter
<1>3. QED
  BY <1>1, <1>2

(* A step of its own is what a session's task does.                          *)
LEMMA OwnLife ==
    ASSUME StateTypes, NEW c \in Conns, SessionStep(c) \/ TaskStep(c)
    PROVE  [Life(c)!Next]_(Life(c)!vars)
<1> USE DEF Life!Next, Life!vars, StateTypes
<1>1. CASE LookForClose(c)
  <2>1. Seen(c) = "select" /\ Seen(c)' = "polled"
    BY <1>1 DEF LookForClose, Seen
  <2>2. QED
    BY <1>1, <2>1 DEF LookForClose, Life!Look
<1>2. CASE StartHandler(c)
  <2>1. Seen(c) = "polled" /\ Seen(c)' = "handler"
    BY <1>2 DEF StartHandler, Seen
  <2>2. QED
    BY <1>2, <2>1 DEF StartHandler, Life!Start
<1>3. CASE Park(c)
  <2>1. Seen(c) = "polled" /\ Seen(c)' = "select"
    BY <1>3 DEF Park, Seen
  <2>2. QED
    BY <1>3, <2>1 DEF Park, Life!Park
<1>4. CASE SessionCallWith(c)
  <2>1. Seen(c) = "handler" /\ Seen(c)' = "handler"
    BY <1>4 DEF SessionCallWith, Seen
  <2>2. QED
    BY <1>4, <2>1 DEF SessionCallWith
<1>5. CASE EndHandler(c)
  <2>1. Seen(c) = "handler" /\ Seen(c)' = "select"
    BY <1>5 DEF EndHandler, Seen
  <2>2. QED
    BY <1>5, <2>1 DEF EndHandler, Life!Return
<1>6. CASE EndSession(c) \/ TakeClose(c)
  <2>1. Seen(c) # "over" /\ Seen(c)' = "over" /\ c \notin to_socket'
    BY <1>6 DEF EndSession, TakeClose, Seen
  <2>2. QED
    BY <2>1 DEF Life!Finish
<1>7. ASSUME session[c] # "ended", c \in to_socket', session' = session
      PROVE  Life(c)!Close
  <2>1. Seen(c) # "over" /\ Seen(c)' = Seen(c)
    BY <1>7 DEF Seen, SessionStates
  <2>2. QED
    BY <1>7, <2>1 DEF Life!Close
<1>8. CASE CloseSession(c)
  BY <1>7, <1>8 DEF CloseSession
<1>9. CASE CloseTask(c)
  <2>1. CASE session[c] = "ended"
    BY <1>9, <2>1, LifeStutter DEF CloseTask
  <2>2. CASE session[c] # "ended"
    BY <1>7, <1>9, <2>2 DEF CloseTask
  <2>3. QED
    BY <2>1, <2>2
<1>10. CASE CloseTaskQuit(c) \/ Watcher(c)
  BY <1>10, LifeStutter DEF CloseTaskQuit, Watcher
<1>11. QED
  BY <1>1, <1>2, <1>3, <1>4, <1>5, <1>6, <1>8, <1>9, <1>10 DEF SessionStep, TaskStep

(* The server starts sessions and answers their handlers, no more.           *)
LEMMA ActorLife ==
    ASSUME StateTypes, CreatedInv, NEW c \in Conns,
           ActorStep \/ Callback \/ AbortActor \/ Handle \/ UNCHANGED vars
    PROVE  UNCHANGED Life(c)!vars
<1>1. ASSUME NEW who, NEW value, Resolve(who, value), UNCHANGED to_socket
      PROVE  UNCHANGED Life(c)!vars
  <2>1. \/ session'[c] = session[c]
        \/ session[c] = "call_with" /\ session'[c] = "replied"
    BY <1>1 DEF Resolve
  <2>2. Seen(c)' = Seen(c)
    BY <2>1 DEF Seen
  <2>3. QED
    BY <1>1, <2>2 DEF Life!vars
<1>2. CASE Exit \/ AbortActor
  BY <1>1, <1>2 DEF Exit, AbortActor, DropActor
<1>3. CASE OnCallDone
  BY <1>1, <1>3 DEF OnCallDone
<1>4. ASSUME NEW d \in Conns, CreateSession(d) PROVE UNCHANGED Life(c)!vars
  <2>1. /\ \/ session'[c] = session[c]
           \/ session[c] = "none" /\ session'[c] = "select"
        /\ UNCHANGED to_socket
    <3>1. session[d] = "none"
      BY <1>4 DEF CreateSession, CreatedInv
    <3>2. QED
      BY <1>4, <3>1 DEF CreateSession, StateTypes
  <2>2. Seen(c)' = Seen(c)
    BY <2>1 DEF Seen
  <2>3. QED
    BY <2>1, <2>2 DEF Life!vars
<1>5. ASSUME UNCHANGED sessions PROVE UNCHANGED Life(c)!vars
  BY <1>5, LifeStutter DEF sessions
<1>6. CASE ActorStep
  <2>1. CASE Exit
    BY <1>2, <2>1
  <2>2. CASE ~Exit
    <3>1. UNCHANGED sessions
      BY <1>6, <2>2 DEF ActorStep, RecvShutdown, RejectConnection,
         RecvConnection, RecvDisconnected, RecvCall
    <3>2. QED
      BY <1>5, <3>1
  <2>3. QED
    BY <2>1, <2>2
<1>7. CASE Callback
  <2>1. ASSUME NEW d \in Conns, OnConnectOk(d) PROVE UNCHANGED Life(c)!vars
    BY <2>1, LifeStutter DEF OnConnectOk
  <2>2. CASE OnDisconnectDone \/ \E d \in Conns : OnConnectErr(d)
    BY <1>5, <2>2 DEF OnDisconnectDone, OnConnectErr
  <2>3. QED
    BY <1>3, <1>4, <1>7, <2>1, <2>2 DEF Callback
<1>8. CASE Handle
  <2>1. UNCHANGED sessions
    BY <1>8 DEF Handle, Accept, CallShutdown, CancelShutdown, UserCall
  <2>2. QED
    BY <1>5, <2>1
<1>9. CASE UNCHANGED vars
  BY <1>5, <1>9 DEF vars
<1>10. QED
  BY <1>2, <1>6, <1>7, <1>8, <1>9

(* The server deals with the tasks of its sessions as others may, and        *)
(* assumes no more of them than a Session's task does: it is in a handler,   *)
(* past the poll that looks for a Close, before it, or over, whatever the    *)
(* server is doing.                                                          *)
THEOREM ServerRunsSessions == Spec => RunsSessions
<1>1. Init => LivesFresh
  <2> SUFFICES ASSUME Init, NEW c \in Conns PROVE Life(c)!Init
    BY DEF LivesFresh
  <2>1. session[c] = "none" /\ c \notin to_socket
    BY DEF Init
  <2>2. QED
    BY <2>1 DEF Life!Init, Seen
<1>2. TypeOK /\ CreatedInv /\ [Next]_vars => [LivesStep]_vars
  <2> SUFFICES ASSUME StateTypes, CreatedInv, [Next]_vars, NEW c \in Conns
               PROVE  [Life(c)!Next]_(Life(c)!vars)
    BY DEF LivesStep, TypeOK
  <2>1. ASSUME NEW d \in Conns, SessionStep(d) \/ TaskStep(d)
        PROVE  [Life(c)!Next]_(Life(c)!vars)
    BY <2>1, OtherLife, OwnLife
  <2>2. QED
    BY <2>1, ActorLife DEF Next
<1>3. QED
  BY <1>1, <1>2, ServerType, SocketsBeforeSessions, PTL DEF Spec, RunsSessions

LEMMA LifeOf ==
    ASSUME NEW c \in Conns PROVE RunsSessions => Life(c)!Spec
<1>1. LivesFresh => Life(c)!Init
  BY DEF LivesFresh
<1>2. UNCHANGED vars => UNCHANGED Life(c)!vars
  BY DEF vars, sessions, Life!vars, Seen
<1>3. [LivesStep]_vars => [Life(c)!Next]_(Life(c)!vars)
  BY <1>2 DEF LivesStep
<1>4. QED
  BY <1>1, <1>3, PTL DEF RunsSessions, Life!Spec

(* So each of the server's sessions lives the life that module Session is    *)
(* proved to live.                                                           *)
THEOREM ServerSessions == Spec => \A c \in Conns : Life(c)!Spec
<1>1. ASSUME NEW c \in Conns PROVE Spec => Life(c)!Spec
  BY ServerRunsSessions, LifeOf, PTL
<1>2. QED
  BY <1>1

(* Only the task of c and its queue have moved, and the task by what others  *)
(* see of it.                                                                *)
OnlySession(c) ==
    /\ UNCHANGED <<actor, handling, queues, active_sessions, shutdown, socket,
                   close_task, watcher, disconnect, caller, user>>
    /\ \E st \in SessionStates \ {"none", "call_with", "replied"} :
          /\ session' = [session EXCEPT ![c] = IF Seen(c)' = Seen(c) THEN @ ELSE st]
    /\ \E some \in SUBSET {c} : to_socket' = (to_socket \ {c}) \cup some

(* The other direction: whatever a session's task may do by itself, and a    *)
(* Close from whomever, is a step of the server's model, unless a handler of *)
(* the session waits for the server.                                         *)
THEOREM SessionsAllow ==
    ASSUME TypeOK, NEW c \in Conns, session[c] \notin {"none", "call_with"},
           OnlySession(c), Life(c)!Next
    PROVE  SessionStep(c)
<1> USE DEF TypeOK, StateTypes
<1>1. PICK st \in {"select", "polled", "handler", "ended"} :
          session' = [session EXCEPT ![c] = IF Seen(c)' = Seen(c) THEN @ ELSE st]
  BY DEF OnlySession, SessionStates
<1>2. /\ session[c] \in {"select", "polled", "handler", "replied", "ended"}
      /\ session'[c] \in {"select", "polled", "handler", "replied", "ended"}
  BY <1>1 DEF SessionStates
<1>3. PICK some \in SUBSET {c} : to_socket' = (to_socket \ {c}) \cup some
  BY DEF OnlySession
<1> USE DEF OnlySession
<1>4. CASE Life(c)!Close
  <2>1. Seen(c) # "over" /\ Seen(c)' = Seen(c) /\ c \in to_socket'
    BY <1>4 DEF Life!Close
  <2>2. session' = session
    BY <1>1, <2>1
  <2>3. to_socket' = to_socket \cup {c}
    BY <1>3, <2>1
  <2>4. session[c] \notin {"none", "ended"}
    BY <2>1 DEF Seen
  <2>5. QED
    BY <2>2, <2>3, <2>4 DEF CloseSession, SessionStep
<1>5. CASE Life(c)!Finish
  <2>1. Seen(c) # "over" /\ Seen(c)' = "over" /\ c \notin to_socket'
    BY <1>5 DEF Life!Finish
  <2>2. session[c] # "ended" /\ session'[c] = "ended"
    BY <1>2, <2>1 DEF Seen
  <2>3. session' = [session EXCEPT ![c] = "ended"]
    BY <1>1, <2>1, <2>2
  <2>4. to_socket' = to_socket \ {c}
    BY <1>3, <2>1
  <2>5. QED
    BY <1>2, <2>2, <2>3, <2>4 DEF EndSession, SessionStep
<1>6. CASE Life(c)!Look \/ Life(c)!Park \/ Life(c)!Start \/ Life(c)!Return
  <2>1. Seen(c)' # Seen(c) /\ Seen(c) # "over" /\ Seen(c)' # "over"
    BY <1>6 DEF Life!Look, Life!Park, Life!Start, Life!Return
  <2>2. /\ session' = [session EXCEPT ![c] = st]
        /\ session'[c] = st
        /\ Seen(c)' = st
    <3>1. session' = [session EXCEPT ![c] = st] /\ session'[c] = st
      BY <1>1, <2>1
    <3>2. st # "ended"
      BY <2>1, <3>1 DEF Seen
    <3>3. QED
      BY <3>1, <3>2 DEF Seen
  <2>3. to_socket' = to_socket
    <3>1. c \in to_socket' <=> c \in to_socket
      BY <1>6 DEF Life!Look, Life!Park, Life!Start, Life!Return
    <3>2. QED
      BY <1>3, <3>1
  <2>4. CASE Life(c)!Look
    <3>1. session[c] = "select" /\ c \notin to_socket /\ st = "polled"
      BY <1>2, <2>2, <2>4 DEF Life!Look, Seen
    <3>2. QED
      BY <2>2, <2>3, <3>1 DEF LookForClose, SessionStep
  <2>5. CASE Life(c)!Park
    <3>1. session[c] = "polled" /\ st = "select"
      BY <1>2, <2>2, <2>5 DEF Life!Park, Seen
    <3>2. QED
      BY <2>2, <2>3, <3>1 DEF Park, SessionStep
  <2>6. CASE Life(c)!Start
    <3>1. session[c] = "polled" /\ st = "handler"
      BY <1>2, <2>2, <2>6 DEF Life!Start, Seen
    <3>2. QED
      BY <2>2, <2>3, <3>1 DEF StartHandler, SessionStep
  <2>7. CASE Life(c)!Return
    <3>1. session[c] \in {"handler", "replied"} /\ st = "select"
      BY <1>2, <2>2, <2>7 DEF Life!Return, Seen
    <3>2. QED
      BY <2>2, <2>3, <3>1 DEF EndHandler, SessionStep
  <2>8. QED
    BY <1>6, <2>4, <2>5, <2>6, <2>7
<1>7. QED
  BY <1>4, <1>5, <1>6 DEF Life!Next

=============================================================================
