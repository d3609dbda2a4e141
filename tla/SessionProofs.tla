---------------------------- MODULE SessionProofs ----------------------------
(* Safety of a Session for any messages, any Close frames among them and any *)
(* bounds, on top of what SocketProofs says of the socket's own steps.       *)
EXTENDS Session, SocketProofs

(* The socket below takes a step of its own, or none.                        *)
LEMMA BelowIsSocket == Below => SocketNext /\ UNCHANGED sessionVars
  BY DEF Below, SocketNext

-----------------------------------------------------------------------------
(* Every variable keeps its type.                                            *)
Statuses == {"none", "Sending", "Sent", "Failed"}

LEMMA SessionTypeInit == Init => SessionTypeOK
<1> SUFFICES ASSUME Init PROVE SessionTypeOK
  OBVIOUS
<1>1. SocketTypeOK
  BY TypeInit DEF Init
<1>2. /\ to_socket \in Seq(Messages)
      /\ calls \in 0..MaxCalls
      /\ session \in SessionStates
      /\ result \in {"running", "own_close", "peer_close", "none", "error"}
      /\ overtaken \in Nat
  BY SessionAssumption DEF Init, SessionStates
<1>3. close_waits \in BOOLEAN
  BY DEF Init
<1>4. QED
  BY <1>1, <1>2, <1>3 DEF SessionTypeOK

LEMMA SessionFlagsStep ==
    ASSUME SocketFlags, close_waits \in BOOLEAN, [Next]_vars
    PROVE  SocketFlags' /\ close_waits' \in BOOLEAN
<1> USE DEF SocketFlags, sinkVars, streamVars, transport, messages, tasks,
            LeaveRun, Return
<1>1. ASSUME NEW m \in Messages, Send(m) PROVE SocketFlags' /\ close_waits' \in BOOLEAN
  BY <1>1 DEF Send
<1>2. CASE Call
  BY <1>2 DEF Call, socketVars
<1>3. ASSUME NEW m \in Messages, Forward(m) \/ ForwardFails(m) \/ ForwardClose(m)
      PROVE  SocketFlags' /\ close_waits' \in BOOLEAN
  BY <1>3 DEF Forward, ForwardFails, ForwardClose, AfterClose
<1>4. CASE PollToSocket \/ PollCalls \/ PollSocket \/ Wake \/ Report \/ HandlerOk
  BY <1>4 DEF PollToSocket, PollCalls, PollSocket, Wake, Poll, Report, HandlerOk,
     socketVars
<1>5. CASE TakeCall \/ TakeData \/ TakeError
  BY <1>5 DEF TakeCall, TakeData, TakeError, StartHandler, Recv, socketVars
<1>6. CASE TakeClose \/ TakeEnd \/ HandlerErr
  BY <1>6 DEF TakeClose, TakeEnd, HandlerErr
<1> HIDE DEF SocketFlags
<1>7. CASE Below
  BY <1>7, BelowIsSocket, FlagsStep DEF sessionVars
<1>8. CASE UNCHANGED vars
  BY <1>8 DEF vars, socketVars, sessionVars, SocketFlags
<1>9. QED
  BY <1>1, <1>2, <1>3, <1>4, <1>5, <1>6, <1>7, <1>8
     DEF Next, Actor, Outgoing, Handlers

(* Leaving keeps the types of the socket's variables, if the stream's stays. *)
LEMMA LeaveType ==
    ASSUME SocketTypes, NEW res, Return(res), stream' \in Seq({"data", "close", "error"})
    PROVE  SocketTypes'
<1>1. Dropped(signal, Unsent) \in [Messages -> Statuses]
  BY DroppedType DEF SocketTypes, Statuses
<1>2. /\ sink' \in Seq(Frames)
      /\ signal' \in [Messages -> Statuses]
  BY <1>1, ReleaseType DEF Return, SocketTypes, Statuses
<1>3. UNCHANGED <<sink_actor, inflight, sink_result, heartbeat, supervisor, closer,
                  link, inbound, submitted, wire>>
  <2>1. UNCHANGED <<sink_actor, inflight, sink_result, transport, submitted, wire, tasks>>
    BY DEF Return, LeaveRun
  <2>2. QED
    BY <2>1 DEF transport, tasks
<1>4. UNCHANGED <<stream_actor>>
  BY DEF Return, LeaveRun
<1>5. QED
  BY <1>2, <1>3, <1>4 DEF SocketTypes, Statuses

LEMMA SocketTypesStep == SocketTypes /\ to_socket \in Seq(Messages) /\ [Next]_vars
                            => SocketTypes'
<1> SUFFICES ASSUME SocketTypes, to_socket \in Seq(Messages), [Next]_vars
             PROVE  SocketTypes'
  OBVIOUS
<1> USE DEF sinkVars, streamVars, transport, messages, tasks, LeaveRun, Statuses
<1>1. ASSUME NEW m \in Messages, Send(m) PROVE SocketTypes'
  <2>1. /\ Append(submitted, m) \in Seq(Messages)
        /\ [signal EXCEPT ![m] = "Sending"] \in [Messages -> Statuses]
        /\ [signal EXCEPT ![m] = "Failed"] \in [Messages -> Statuses]
    BY AddLast DEF SocketTypes
  <2>2. QED
    BY <1>1, <2>1 DEF Send, SocketTypes
<1>2. ASSUME NEW m \in Messages, Forward(m) \/ (ForwardClose(m) /\ SinkOpen)
      PROVE  SocketTypes'
  <2>1. /\ Append(sink, m) \in Seq(Frames)
        /\ Dropped(signal, Unsent \ {m}) \in [Messages -> Statuses]
    BY AddLast, DroppedType DEF SocketTypes, Frames
  <2>2. QED
    BY <1>2, <2>1 DEF Forward, ForwardClose, AfterClose, SocketTypes
<1>3. ASSUME NEW m \in Messages, ForwardFails(m) \/ (ForwardClose(m) /\ ~SinkOpen)
      PROVE  SocketTypes'
  <2>1. PICK res : Return(res) /\ UNCHANGED stream
    BY <1>3 DEF ForwardFails, ForwardClose
  <2>2. QED
    BY <2>1, LeaveType DEF SocketTypes
<1>4. CASE TakeEnd \/ HandlerErr
  <2>1. PICK res : Return(res) /\ UNCHANGED stream
    BY <1>4 DEF TakeEnd, HandlerErr
  <2>2. QED
    BY <2>1, LeaveType DEF SocketTypes
<1>5. CASE TakeClose
  <2>1. Tail(stream) \in Seq({"data", "close", "error"})
    BY <1>5, TakeHead DEF TakeClose, SocketTypes
  <2>2. Return("peer_close") /\ stream' = Tail(stream)
    BY <1>5 DEF TakeClose
  <2>3. QED
    BY <2>1, <2>2, LeaveType
<1>6. CASE TakeData \/ TakeError
  <2>1. Recv
    BY <1>6 DEF TakeData, TakeError
  <2>2. QED
    BY <2>1, TypesStep DEF SocketNext, OwnerStep
<1>7. CASE UNCHANGED socketVars
  BY <1>7, TypesStep
<1>8. CASE Call \/ PollToSocket \/ PollCalls \/ PollSocket \/ Wake \/ Report \/ HandlerOk
           \/ TakeCall
  BY <1>7, <1>8 DEF Call, PollToSocket, PollCalls, PollSocket, Wake, Poll, Report,
     HandlerOk, TakeCall
<1>9. CASE Below
  BY <1>9, BelowIsSocket, TypesStep
<1>10. CASE UNCHANGED vars
  BY <1>7, <1>10 DEF vars
<1>11. QED
  BY <1>1, <1>2, <1>3, <1>4, <1>5, <1>6, <1>8, <1>9, <1>10
     DEF Next, Actor, Outgoing, Handlers, ForwardClose

(* The session's own variables.                                              *)
OwnTypes ==
    /\ to_socket \in Seq(Messages)
    /\ calls \in 0..MaxCalls
    /\ session \in SessionStates
    /\ result \in {"running", "own_close", "peer_close", "none", "error"}
    /\ overtaken \in Nat

LEMMA LeaveOwnType ==
    ASSUME OwnTypes, NEW res \in {"own_close", "peer_close", "none", "error"},
           LeaveRun(res)
    PROVE  OwnTypes'
<1>1. <<>> \in Seq(Messages) /\ 0 \in 0..MaxCalls
  BY SessionAssumption
<1>2. QED
  BY <1>1 DEF LeaveRun, OwnTypes, SessionStates

LEMMA OwnTypesStep == OwnTypes /\ [Next]_vars => OwnTypes'
<1> SUFFICES ASSUME OwnTypes, [Next]_vars PROVE OwnTypes'
  OBVIOUS
<1>1. ASSUME NEW m \in Messages, Send(m) PROVE OwnTypes'
  <2>1. Append(to_socket, m) \in Seq(Messages)
    BY AddLast DEF OwnTypes
  <2>2. QED
    BY <1>1, <2>1 DEF Send, Enqueue, OwnTypes
<1>2. CASE Call
  <2>1. calls + 1 \in 0..MaxCalls
    BY <1>2, SessionAssumption DEF Call, OwnTypes
  <2>2. QED
    BY <1>2, <2>1 DEF Call, OwnTypes
<1>3. ASSUME NEW m \in Messages, Forward(m) PROVE OwnTypes'
  BY <1>3, TakeHead DEF Forward, OwnTypes
<1>4. ASSUME NEW m \in Messages, ForwardFails(m) \/ ForwardClose(m) PROVE OwnTypes'
  BY <1>4, LeaveOwnType DEF ForwardFails, ForwardClose, AfterClose, Return
<1>5. CASE TakeClose \/ TakeEnd \/ HandlerErr
  BY <1>5, LeaveOwnType DEF TakeClose, TakeEnd, HandlerErr, Return
<1>6. CASE PollToSocket \/ PollCalls \/ PollSocket \/ Wake \/ Report \/ HandlerOk
           \/ TakeError
  BY <1>6 DEF PollToSocket, PollCalls, PollSocket, Wake, Poll, Report, HandlerOk,
     TakeError, FirstPoll, OwnTypes, SessionStates
<1>7. CASE TakeCall
  <2>1. calls - 1 \in 0..MaxCalls
    BY <1>7, SessionAssumption DEF TakeCall, OwnTypes
  <2>2. QED
    BY <1>7, <2>1 DEF TakeCall, StartHandler, OwnTypes, SessionStates
<1>8. CASE TakeData
  BY <1>8 DEF TakeData, StartHandler, OwnTypes, SessionStates
<1>9. CASE Below \/ UNCHANGED vars
  BY <1>9 DEF Below, vars, sessionVars, OwnTypes
<1>10. QED
  BY <1>1, <1>2, <1>3, <1>4, <1>5, <1>6, <1>7, <1>8, <1>9
     DEF Next, Actor, Outgoing, Handlers

LEMMA SessionTypeParts ==
    SessionTypeOK <=> SocketTypes /\ SocketFlags /\ OwnTypes /\ close_waits \in BOOLEAN
  BY DEF SessionTypeOK, SocketTypeOK, OwnTypes

(* The session's variables and those of its socket stay in their sets.       *)
THEOREM SessionType == Spec => []SessionTypeOK
<1>1. SessionTypeOK /\ [Next]_vars => SessionTypeOK'
  <2> SUFFICES ASSUME SessionTypeOK, [Next]_vars PROVE SessionTypeOK'
    OBVIOUS
  <2>1. SocketFlags' /\ close_waits' \in BOOLEAN
    BY SessionTypeParts, SessionFlagsStep
  <2>2. SocketTypes' /\ OwnTypes'
    BY SessionTypeParts, SocketTypesStep, OwnTypesStep DEF OwnTypes
  <2>3. QED
    BY <2>1, <2>2 DEF SessionTypeOK, SocketTypeOK, OwnTypes
<1>2. QED
  BY SessionTypeInit, <1>1, PTL DEF Spec

-----------------------------------------------------------------------------
(* What a Close overtakes.                                                   *)

(* While a Close waits it is in the queue, so the poll of the queue does not *)
(* move on: the one handler that may have started is running, or the actor   *)
(* is back at the queue.                                                     *)
OvertakenInv ==
    /\ CloseOvertakenOnce
    /\ close_waits => \E i \in 1..Len(to_socket) : to_socket[i] \in Closes
    /\ Running /\ ~close_waits => overtaken = 0
    /\ close_waits /\ overtaken = 1 => session \in {"handler", "to_socket"}

LEMMA OvertakenKeeps ==
    ASSUME OvertakenInv, UNCHANGED sessionVars PROVE OvertakenInv'
  BY DEF OvertakenInv, CloseOvertakenOnce, Running, sessionVars

LEMMA OvertakenStep == OwnTypes /\ OvertakenInv /\ [Next]_vars => OvertakenInv'
<1> SUFFICES ASSUME OwnTypes, OvertakenInv, [Next]_vars PROVE OvertakenInv'
  OBVIOUS
<1> USE DEF OvertakenInv, CloseOvertakenOnce, Running
<1>1. ASSUME NEW m \in Messages, Send(m) PROVE OvertakenInv'
  <2>1. CASE Running
    <3>1. /\ to_socket' = Append(to_socket, m)
          /\ close_waits' <=> (close_waits \/ m \in Closes)
          /\ UNCHANGED <<session, overtaken>>
      BY <1>1, <2>1 DEF Send, Enqueue
    <3>2. /\ \A i \in 1..Len(to_socket) :
               i \in 1..Len(to_socket') /\ to_socket'[i] = to_socket[i]
          /\ Len(to_socket) + 1 \in 1..Len(to_socket')
          /\ to_socket'[Len(to_socket) + 1] = m
      BY <3>1, AddLast DEF OwnTypes
    <3>3. close_waits' => \E i \in 1..Len(to_socket') : to_socket'[i] \in Closes
      BY <3>1, <3>2
    <3>4. QED
      BY <2>1, <3>1, <3>3
  <2>2. CASE ~Running
    BY <1>1, <2>2 DEF Send
  <2>3. QED
    BY <2>1, <2>2
<1>2. ASSUME NEW m \in Messages, Forward(m) PROVE OvertakenInv'
  <2>1. /\ to_socket # <<>> /\ Head(to_socket) \notin Closes
        /\ to_socket' = Tail(to_socket)
        /\ UNCHANGED <<session, close_waits, overtaken>>
    BY <1>2 DEF Forward
  <2>2. /\ Head(to_socket) = to_socket[1] /\ Len(to_socket) \in Nat
        /\ \A i \in 2..Len(to_socket) :
             to_socket[i] = to_socket'[i - 1] /\ i - 1 \in 1..Len(to_socket')
    BY <2>1, TakeHead DEF OwnTypes
  <2>3. close_waits => \E i \in 2..Len(to_socket) : to_socket[i] \in Closes
    BY <2>1, <2>2
  <2>4. close_waits' => \E i \in 1..Len(to_socket') : to_socket'[i] \in Closes
    BY <2>1, <2>2, <2>3
  <2>5. QED
    BY <2>1, <2>4
<1>3. ASSUME NEW res, LeaveRun(res) PROVE OvertakenInv'
  BY <1>3 DEF LeaveRun
<1>4. CASE PollToSocket
  BY <1>4 DEF PollToSocket, Poll
<1>5. CASE PollCalls \/ PollSocket \/ Wake \/ Report \/ HandlerOk \/ TakeError
  BY <1>5 DEF PollCalls, PollSocket, Wake, Poll, Report, HandlerOk, TakeError, FirstPoll
<1>6. CASE TakeCall \/ TakeData
  BY <1>6 DEF TakeCall, TakeData, StartHandler, OwnTypes
<1>7. CASE Call
  BY <1>7 DEF Call
<1>8. CASE Below \/ UNCHANGED vars
  BY <1>8, OvertakenKeeps DEF Below, vars
<1>9. ASSUME NEW m \in Messages, ForwardFails(m) \/ ForwardClose(m) PROVE OvertakenInv'
  BY <1>3, <1>9 DEF ForwardFails, ForwardClose, AfterClose, Return
<1>10. CASE TakeClose \/ TakeEnd \/ HandlerErr
  BY <1>3, <1>10 DEF TakeClose, TakeEnd, HandlerErr, Return
<1>11. QED
  BY <1>1, <1>2, <1>4, <1>5, <1>6, <1>7, <1>8, <1>9, <1>10
     DEF Next, Actor, Outgoing, Handlers

LEMMA OvertakenAlways == Spec => [](OwnTypes /\ close_waits \in BOOLEAN /\ OvertakenInv)
<1>1. Init => OvertakenInv
  BY DEF Init, OvertakenInv, CloseOvertakenOnce
<1>2. SessionTypeOK /\ OvertakenInv /\ [Next]_vars => OvertakenInv'
  BY OvertakenStep, SessionTypeParts
<1>3. SessionTypeOK => OwnTypes /\ close_waits \in BOOLEAN
  BY SessionTypeParts
<1>4. QED
  BY <1>1, <1>2, <1>3, SessionType, PTL DEF Spec

(* At most one handler starts while a Close of ours waits in the queue.      *)
THEOREM OvertakenOnce == Spec => []CloseOvertakenOnce
<1>1. OvertakenInv => CloseOvertakenOnce
  BY DEF OvertakenInv
<1>2. QED
  BY <1>1, OvertakenAlways, PTL

-----------------------------------------------------------------------------
(* The task as others see it.                                                *)

LEMMA LifeStep ==
    ASSUME OwnTypes, close_waits \in BOOLEAN, OvertakenInv, [Next]_vars
    PROVE  [Life!Next]_(Life!vars)
<1> USE DEF Life!vars, Life!Next, Seen
<1>1. ASSUME NEW m \in Messages, Send(m) PROVE Life!Close \/ UNCHANGED Life!vars
  <2>1. UNCHANGED session
    BY <1>1 DEF Send
  <2>2. CASE Running /\ m \in Closes
    <3>1. close_waits' = TRUE
      BY <1>1, <2>2 DEF Send
    <3>2. QED
      BY <2>1, <2>2, <3>1 DEF Life!Close, Running, OwnTypes, SessionStates
  <2>3. CASE ~(Running /\ m \in Closes)
    <3>1. CASE ~Running
      BY <1>1, <2>1, <3>1 DEF Send
    <3>2. CASE Running
      <4>1. close_waits' = (close_waits \/ m \in Closes) /\ m \notin Closes
        BY <1>1, <2>3, <3>2 DEF Send
      <4>2. QED
        BY <2>1, <4>1
    <3>3. QED
      BY <3>1, <3>2
  <2>4. QED
    BY <2>2, <2>3
<1>2. ASSUME UNCHANGED <<session, close_waits>> PROVE UNCHANGED Life!vars
  BY <1>2
<1>3. CASE Call \/ Below \/ UNCHANGED vars \/ \E m \in Messages : Forward(m)
  BY <1>2, <1>3 DEF Call, Below, Forward, vars, sessionVars
<1>4. ASSUME NEW res, LeaveRun(res), Running PROVE Life!Finish
  <2>1. Seen # "over" /\ Seen' = "over"
    BY <1>4 DEF LeaveRun, Running, OwnTypes, SessionStates
  <2>2. QED
    BY <1>4, <2>1 DEF LeaveRun, Life!Finish
<1>5. ASSUME NEW m \in Messages, ForwardFails(m) \/ ForwardClose(m) PROVE Life!Finish
  BY <1>4, <1>5 DEF ForwardFails, ForwardClose, AfterClose, Return, Running
<1>6. CASE TakeClose \/ TakeEnd \/ HandlerErr
  BY <1>4, <1>6 DEF TakeClose, TakeEnd, HandlerErr, Return, Running
<1>7. CASE PollToSocket
  <2>1. ~close_waits
    BY <1>7 DEF PollToSocket, Poll, OvertakenInv
  <2>2. QED
    BY <1>7, <2>1 DEF PollToSocket, Poll, Life!Look
<1>8. CASE PollCalls \/ Wake \/ Report
  BY <1>8 DEF PollCalls, Wake, Poll, Report, FirstPoll
<1>9. CASE PollSocket \/ TakeError
  BY <1>9 DEF PollSocket, Poll, TakeError, FirstPoll, Life!Park
<1>10. CASE TakeCall \/ TakeData
  BY <1>10 DEF TakeCall, TakeData, StartHandler, Life!Start
<1>11. CASE HandlerOk
  BY <1>11 DEF HandlerOk, FirstPoll, Life!Return
<1>12. QED
  BY <1>1, <1>3, <1>5, <1>6, <1>7, <1>8, <1>9, <1>10, <1>11
     DEF Next, Actor, Outgoing, Handlers

(* The session's task on its queues and its socket lives the life that the   *)
(* server knows: no handler starts from a poll that has found the Close.     *)
THEOREM SessionLivesAs == Spec => LivesAs
<1>1. Init => Life!Init
  BY DEF Init, Life!Init, Seen
<1>2. QED
  BY <1>1, LifeStep, OvertakenAlways, PTL DEF Spec, LivesAs, Life!Spec

-----------------------------------------------------------------------------
(* What follows a Close.                                                     *)

(* The actor holds both halves of its socket until run returns.              *)
HeldInv ==
    /\ NothingBehindClose
    /\ sink_held <=> Running
    /\ stream_held <=> Running

(* A step that queues nothing of the application behind what is there.       *)
Trims ==
    \/ sink' = sink
    \/ sink' = <<>>
    \/ sink # <<>> /\ sink' = Tail(sink)
    \/ \E f \in HeartbeatFrames : sink' = Append(sink, f)

LEMMA TrimsKeeps ==
    ASSUME SocketTypes, NothingBehindClose, Trims,
           sink_held' => sink_held, stream_held' => stream_held
    PROVE  NothingBehindClose'
<1> sink \in Seq(Frames)
  BY DEF SocketTypes
<1>1. CASE sink' = sink
  BY <1>1 DEF NothingBehindClose
<1>2. CASE sink' = <<>>
  BY <1>2 DEF NothingBehindClose
<1>3. CASE sink # <<>> /\ sink' = Tail(sink)
  <2>1. /\ Len(sink) \in Nat /\ Len(sink') = Len(sink) - 1
        /\ \A i \in 1..Len(sink') : sink'[i] = sink[i + 1] /\ i + 1 \in 1..Len(sink)
    BY <1>3, TakeHead
  <2>2. ASSUME NEW i \in 1..Len(sink'), sink'[i] \in Closes
        PROVE  /\ ~sink_held' /\ ~stream_held'
               /\ \A j \in (i + 1)..Len(sink') : sink'[j] \notin Messages
    <3>1. i + 1 \in 1..Len(sink) /\ sink[i + 1] \in Closes
      BY <2>1, <2>2
    <3>2. \A j \in (i + 2)..Len(sink) : sink[j] \notin Messages
      BY <3>1 DEF NothingBehindClose
    <3>3. \A j \in (i + 1)..Len(sink') : sink'[j] = sink[j + 1] /\ j + 1 \in (i + 2)..Len(sink)
      BY <2>1
    <3>4. QED
      BY <3>1, <3>2, <3>3 DEF NothingBehindClose
  <2>3. QED
    BY <2>2 DEF NothingBehindClose
<1>4. ASSUME NEW f \in HeartbeatFrames, sink' = Append(sink, f)
      PROVE  NothingBehindClose'
  <2>1. f \notin Messages /\ f \notin Closes /\ f \in Frames
    BY SocketAssumption DEF HeartbeatFrames, Frames
  <2>2. /\ Len(sink) \in Nat
        /\ \A i \in 1..Len(sink) : sink'[i] = sink[i]
        /\ sink'[Len(sink) + 1] = f
        /\ \A i \in 1..Len(sink') : i \in 1..Len(sink) \/ i = Len(sink) + 1
        /\ Len(sink') = Len(sink) + 1
    BY <1>4, <2>1, AddLast
  <2>3. ASSUME NEW i \in 1..Len(sink'), sink'[i] \in Closes
        PROVE  /\ ~sink_held' /\ ~stream_held'
               /\ \A j \in (i + 1)..Len(sink') : sink'[j] \notin Messages
    <3>1. i \in 1..Len(sink) /\ sink[i] \in Closes
      BY <2>1, <2>2, <2>3
    <3>2. \A j \in (i + 1)..Len(sink') :
              j \in (i + 1)..Len(sink) \/ j = Len(sink) + 1
      BY <2>2, <3>1
    <3>3. QED
      BY <2>1, <2>2, <3>1, <3>2 DEF NothingBehindClose
  <2>4. QED
    BY <2>3 DEF NothingBehindClose
<1>5. QED
  BY <1>1, <1>2, <1>3, <1>4 DEF Trims

LEMMA ReturnTrims ==
    ASSUME HeldInv, SocketTypes, NEW res, Return(res) PROVE HeldInv'
<1>1. sink' = <<>> \/ sink' = sink
  BY ReleaseCases DEF Return
<1>2. ~sink_held' /\ ~stream_held' /\ ~Running'
  BY DEF Return, LeaveRun, Running
<1>3. QED
  BY <1>1, <1>2, TrimsKeeps DEF HeldInv, Trims

(* The socket's own steps leave to the owner what it holds and submits.       *)
LEMMA TransportHolds ==
    ASSUME TransportNext
    PROVE  UNCHANGED <<sink_held, stream_held, submitted>>
<1> USE DEF sinkVars, streamVars, transport, messages, tasks
<1>1. CASE SinkStep
  BY <1>1 DEF SinkStep, SinkRecv, SinkSent, SinkFailed, SinkClosed, SinkAborted
<1>2. CASE StreamStep
  BY <1>2 DEF StreamStep, StreamSkip, StreamForward, StreamEnd
<1>3. CASE HeartbeatStep
  BY <1>3 DEF HeartbeatStep, HeartbeatPing, HeartbeatTimeout, HeartbeatAborted
<1>4. CASE SupervisorStep \/ PeerStep
  BY <1>4 DEF SupervisorStep, SupervisorAborts, SupervisorReports, PeerStep,
     LinkBreaks, PeerSends
<1>5. QED
  BY <1>1, <1>2, <1>3, <1>4 DEF TransportNext

(* A step of the socket that submits nothing is one of these.                *)
LEMMA BelowEffects ==
    ASSUME SocketTypes, Idle, [SocketNext]_socketVars, submitted' = submitted
    PROVE  Quiet \/ Taken \/ Done \/ Lost \/ Beat
<1>1. ASSUME NEW m \in Messages, Submit(m) PROVE FALSE
  <2>1. submitted' = Append(submitted, m)
    BY <1>1 DEF Submit
  <2>2. Len(submitted') = Len(submitted) + 1 /\ Len(submitted) \in Nat
    BY <2>1, AddLast DEF SocketTypes
  <2>3. QED
    BY <2>2
<1>2. QED
  BY <1>1, Effects

LEMMA BelowHeld ==
    ASSUME SocketTypes, Idle, HeldInv, Below \/ UNCHANGED vars
    PROVE  Idle' /\ HeldInv'
<1>1. UNCHANGED <<sink_held, stream_held, submitted, session>>
  BY TransportHolds DEF Below, vars, sessionVars, socketVars, sinkVars, streamVars,
     messages
<1>2. [SocketNext]_socketVars
  BY BelowIsSocket DEF vars
<1>3. Quiet \/ Taken \/ Done \/ Lost \/ Beat
  BY <1>1, <1>2, BelowEffects
<1>4. Trims
  BY <1>3 DEF Quiet, Taken, Done, Lost, Beat, Trims
<1>5. Idle'
  BY <1>3 DEF Quiet, Taken, Done, Lost, Beat, Idle
<1>6. QED
  BY <1>1, <1>4, <1>5, TrimsKeeps DEF HeldInv, Running

LEMMA HeldStep ==
    SessionTypeOK /\ Idle /\ HeldInv /\ [Next]_vars => Idle' /\ HeldInv'
<1> SUFFICES ASSUME SessionTypeOK, Idle, HeldInv, [Next]_vars
             PROVE  Idle' /\ HeldInv'
  OBVIOUS
<1>0. SocketTypes /\ OwnTypes
  BY SessionTypeParts
<1>a. ASSUME UNCHANGED <<sink, sink_held, stream_held, sink_actor, inflight>>,
             Running' <=> Running
      PROVE  Idle' /\ HeldInv'
  BY <1>a DEF Idle, HeldInv, NothingBehindClose
<1>b. ASSUME NEW res, Return(res) PROVE Idle' /\ HeldInv'
  <2>1. HeldInv'
    BY <1>0, <1>b, ReturnTrims
  <2>2. UNCHANGED <<sink_actor, inflight>>
    BY <1>b DEF Return, LeaveRun
  <2>3. QED
    BY <2>1, <2>2 DEF Idle
<1>1. ASSUME NEW m \in Messages, Send(m) PROVE Idle' /\ HeldInv'
  BY <1>1, <1>a DEF Send, sinkVars, streamVars, Running
<1>2. ASSUME NEW m \in Messages, Forward(m) \/ (ForwardClose(m) /\ SinkOpen)
      PROVE  Idle' /\ HeldInv'
  <2>1. /\ Running
        /\ sink' = Append(sink, m)
        /\ UNCHANGED <<sink_actor, inflight>>
    BY <1>2 DEF Forward, ForwardClose, AfterClose, LeaveRun, Running
  <2>2. sink \in Seq(Frames) /\ m \in Frames
    BY <1>0 DEF SocketTypes, Frames
  <2>3. /\ Len(sink) \in Nat
        /\ Len(sink') = Len(sink) + 1
        /\ \A i \in 1..Len(sink) : sink'[i] = sink[i]
        /\ sink'[Len(sink) + 1] = m
        /\ \A i \in 1..Len(sink') : i \in 1..Len(sink) \/ i = Len(sink) + 1
    BY <2>1, <2>2, AddLast
  <2>4. \A i \in 1..Len(sink) : sink[i] \notin Closes
    BY <2>1 DEF HeldInv, NothingBehindClose
  <2>5. \A i \in 1..Len(sink') :
            sink'[i] \in Closes => i = Len(sink) + 1 /\ m \in Closes
    BY <2>3, <2>4
  <2>6. \A j \in (Len(sink) + 2)..Len(sink') : sink'[j] \notin Messages
    BY <2>3
  <2>7. CASE Forward(m)
    <3>1. m \notin Closes /\ UNCHANGED <<sink_held, stream_held, session>>
      BY <2>7 DEF Forward, streamVars
    <3>2. QED
      BY <2>1, <2>5, <3>1 DEF HeldInv, NothingBehindClose, Running, Idle
  <2>8. CASE ForwardClose(m) /\ SinkOpen
    <3>1. ~sink_held' /\ ~stream_held' /\ ~Running'
      BY <2>8 DEF ForwardClose, AfterClose, LeaveRun, Running
    <3>2. NothingBehindClose'
      <4>1. SUFFICES ASSUME NEW i \in 1..Len(sink'), sink'[i] \in Closes
                     PROVE  \A j \in (i + 1)..Len(sink') : sink'[j] \notin Messages
        BY <3>1 DEF NothingBehindClose
      <4>2. i + 1 = Len(sink) + 2
        BY <2>3, <2>5, <4>1
      <4>3. QED
        BY <2>6, <4>2
    <3>3. QED
      BY <2>1, <3>1, <3>2 DEF HeldInv, Idle
  <2>9. QED
    BY <1>2, <2>7, <2>8
<1>3. ASSUME NEW m \in Messages, ForwardFails(m) \/ (ForwardClose(m) /\ ~SinkOpen)
      PROVE  Idle' /\ HeldInv'
  BY <1>3, <1>b DEF ForwardFails, ForwardClose
<1>4. CASE TakeClose \/ TakeEnd \/ HandlerErr
  BY <1>4, <1>b DEF TakeClose, TakeEnd, HandlerErr
<1>5. CASE PollToSocket \/ PollCalls \/ PollSocket \/ Wake
  BY <1>5, <1>a DEF PollToSocket, PollCalls, PollSocket, Wake, Poll, FirstPoll,
     Running, socketVars, sinkVars, streamVars
<1>6. CASE TakeCall \/ Call \/ HandlerOk \/ Report
  BY <1>6, <1>a DEF TakeCall, Call, HandlerOk, Report, StartHandler, FirstPoll,
     Running, socketVars, sinkVars, streamVars
<1>7. CASE TakeData \/ TakeError
  BY <1>7, <1>a DEF TakeData, TakeError, StartHandler, FirstPoll, Recv,
     Running, sinkVars
<1>8. CASE Below \/ UNCHANGED vars
  BY <1>0, <1>8, BelowHeld
<1>9. QED
  BY <1>1, <1>2, <1>3, <1>4, <1>5, <1>6, <1>7, <1>8
     DEF Next, Actor, Outgoing, Handlers, ForwardClose

LEMMA HeldAlways == Spec => [](Idle /\ HeldInv)
<1>1. Init => Idle /\ HeldInv
  <2>1. Init => NothingBehindClose
    BY DEF Init, SocketInit, NothingBehindClose
  <2>2. Init => Idle
    BY DEF Init, SocketInit, Idle
  <2>3. Init => (sink_held <=> Running) /\ (stream_held <=> Running)
    BY DEF Init, SocketInit, Running
  <2>4. QED
    BY <2>1, <2>2, <2>3 DEF HeldInv
<1>2. QED
  BY <1>1, HeldStep, SessionType, PTL DEF Spec

(* A Close of ours is the last message in the sink, and the session that     *)
(* queued it has let go of the socket.                                       *)
THEOREM NothingBehind == Spec => []NothingBehindClose
<1>1. HeldInv => NothingBehindClose
  BY DEF HeldInv
<1>2. QED
  BY <1>1, HeldAlways, PTL

-----------------------------------------------------------------------------
(* Where a message waits, and what waits ahead of what.                      *)
InSink(m) == \E i \in 1..Len(sink) : sink[i] = m
InQueue(m) == \E i \in 1..Len(to_socket) : to_socket[i] = m

Waiting(m) == m = inflight \/ InSink(m) \/ InQueue(m)

Ahead(m, n) ==
    \/ m = inflight /\ (InSink(n) \/ InQueue(n))
    \/ InSink(m) /\ InQueue(n)
    \/ \E i, j \in 1..Len(sink) : i < j /\ sink[i] = m /\ sink[j] = n
    \/ \E i, j \in 1..Len(to_socket) : i < j /\ to_socket[i] = m /\ to_socket[j] = n

(* Sending messages are those that wait, in the order of their submission.   *)
WaitInv ==
    /\ \A m \in Messages : signal[m] = "Sending" <=> Waiting(m)
    /\ \A m, n \in Messages : Ahead(m, n) => Before(submitted, m, n)

(* The wire is the first part of what was submitted; as long as the sink is  *)
(* open nothing that failed is followed by something that may still be sent. *)
PastInv ==
    /\ \A i, j \in 1..Len(submitted) : submitted[i] = submitted[j] => i = j
    /\ \A m \in Messages :
          signal[m] # "none" <=> \E i \in 1..Len(submitted) : submitted[i] = m
    /\ Len(wire) <= Len(submitted)
    /\ \A i \in 1..Len(wire) : wire[i] = submitted[i]
    /\ \A m \in Messages : signal[m] = "Sent" <=> \E i \in 1..Len(wire) : wire[i] = m
    /\ SinkOpen => \A i, j \in 1..Len(submitted) :
                      i < j /\ signal[submitted[j]] = "Sending"
                          => signal[submitted[i]] # "Failed"
    /\ SinkOpen /\ Running => \A i \in 1..Len(submitted) :
                                 signal[submitted[i]] # "Failed"

(* What a step can do to the messages: nothing, ...                          *)
Keep ==
    /\ UNCHANGED <<submitted, signal, wire>>
    /\ \A m \in Messages : Waiting(m)' <=> Waiting(m)
    /\ \A m, n \in Messages : Ahead(m, n)' => Ahead(m, n)
    /\ SinkOpen' => SinkOpen
    /\ Running' <=> Running

(* ... put the first of them on the wire, ...                                *)
Deliver(m) ==
    /\ signal' = Settled(m, "Sent")
    /\ wire' = Append(wire, m)
    /\ UNCHANGED submitted
    /\ Waiting(m)
    /\ \A n \in Messages : Waiting(n) /\ n # m => Ahead(m, n)
    /\ \A n \in Messages : Waiting(n)' <=> Waiting(n) /\ n # m
    /\ \A k, n \in Messages : Ahead(k, n)' => Ahead(k, n)
    /\ SinkOpen
    /\ Running' <=> Running

(* ... give up some, and if the sink stays open only the last and for good,  *)
Drop(lost) ==
    /\ signal' = Dropped(signal, lost)
    /\ UNCHANGED <<submitted, wire>>
    /\ \A m \in Messages \cap lost : Waiting(m)
    /\ \A m \in Messages : Waiting(m)' <=> Waiting(m) /\ m \notin lost
    /\ \A m, n \in Messages : Ahead(m, n)' => Ahead(m, n)
    /\ SinkOpen' =>
           /\ SinkOpen /\ ~Running'
           /\ \A m \in Messages, n \in Messages \cap lost :
                 Waiting(m) /\ m \notin lost => Ahead(m, n)

(* ... accept a new one behind all others, ...                               *)
Accept(m) ==
    /\ Running
    /\ signal[m] = "none"
    /\ submitted' = Append(submitted, m)
    /\ signal' = [signal EXCEPT ![m] = "Sending"]
    /\ \A n \in Messages : Waiting(n)' <=> Waiting(n) \/ n = m
    /\ \A k, n \in Messages : Ahead(k, n)' => Ahead(k, n) \/ (n = m /\ Waiting(k))
    /\ UNCHANGED wire
    /\ SinkOpen' <=> SinkOpen
    /\ Running' <=> Running

(* ... or refuse it.                                                         *)
Refuse(m) ==
    /\ ~Running /\ ~Running'
    /\ signal[m] = "none"
    /\ submitted' = Append(submitted, m)
    /\ signal' = [signal EXCEPT ![m] = "Failed"]
    /\ \A n \in Messages : Waiting(n)' <=> Waiting(n)
    /\ \A k, n \in Messages : Ahead(k, n)' => Ahead(k, n)
    /\ UNCHANGED wire
    /\ SinkOpen' <=> SinkOpen

Change ==
    \/ Keep
    \/ \E m \in Messages : Deliver(m) \/ Accept(m) \/ Refuse(m)
    \/ \E lost : Drop(lost)

-----------------------------------------------------------------------------
(* The invariant through each of these.                                      *)

(* Nothing waits twice.                                                      *)
LEMMA WaitsOnce ==
    ASSUME WaitInv, PastInv, NEW m \in Messages PROVE ~Ahead(m, m)
<1>1. Ahead(m, m) => Waiting(m)
  BY DEF Ahead, Waiting, InSink, InQueue
<1>2. Ahead(m, m) => Before(submitted, m, m)
  BY DEF WaitInv
<1>3. Waiting(m) => \E i \in 1..Len(submitted) : submitted[i] = m
  BY DEF WaitInv, PastInv
<1>4. QED
  BY <1>1, <1>2, <1>3 DEF Before

(* What a message ahead of another is: it waits, and so does the other.      *)
LEMMA AheadWaits ==
    ASSUME NEW m, NEW n, Ahead(m, n) PROVE Waiting(m) /\ Waiting(n)
  BY DEF Ahead, Waiting, InSink, InQueue

(* The next message for the wire.                                            *)
LEMMA NextForWire ==
    ASSUME SocketTypes, WaitInv, PastInv, NEW m \in Messages, Waiting(m), SinkOpen,
           \A n \in Messages : Waiting(n) /\ n # m => Ahead(m, n)
    PROVE  /\ Len(wire) \in Nat /\ Len(submitted) \in Nat
           /\ Len(wire) < Len(submitted)
           /\ submitted[Len(wire) + 1] = m
           /\ signal[m] = "Sending"
<1>1. /\ Len(wire) \in Nat /\ Len(submitted) \in Nat
      /\ \A i \in 1..Len(submitted) : submitted[i] \in Messages
      /\ \A i \in 1..Len(wire) : wire[i] \in Messages
      /\ \A n \in Messages : signal[n] \in Statuses
  BY DEF SocketTypes, Statuses
<1>2. signal[m] = "Sending"
  BY DEF WaitInv
<1>3. PICK b \in 1..Len(submitted) : submitted[b] = m
  BY <1>2 DEF PastInv
<1>4. b > Len(wire)
  <2>1. SUFFICES ASSUME b \in 1..Len(wire) PROVE FALSE
    BY <1>1
  <2>2. wire[b] = m
    BY <1>3, <2>1 DEF PastInv
  <2>3. signal[m] = "Sent"
    BY <2>1, <2>2 DEF PastInv
  <2>4. QED
    BY <1>2, <2>3
<1>5. Len(wire) + 1 \in 1..Len(submitted)
  BY <1>1, <1>4
<1> DEFINE n == submitted[Len(wire) + 1]
<1>6. n \in Messages
  BY <1>1, <1>5
<1>7. SUFFICES ASSUME n # m PROVE FALSE
  BY <1>1, <1>2, <1>5
<1>8. Len(wire) + 1 < b
  BY <1>1, <1>3, <1>4, <1>7
<1>9. signal[n] # "Failed" /\ signal[n] # "none"
  BY <1>2, <1>3, <1>5, <1>6, <1>8 DEF PastInv
<1>10. signal[n] # "Sent"
  <2>1. SUFFICES ASSUME NEW i \in 1..Len(wire), wire[i] = n PROVE FALSE
    BY <1>6 DEF PastInv
  <2>2. submitted[i] = submitted[Len(wire) + 1] /\ i \in 1..Len(submitted) /\ i # Len(wire) + 1
    BY <1>1, <1>5, <2>1 DEF PastInv
  <2>3. QED
    BY <1>5, <2>2 DEF PastInv
<1>11. Waiting(n)
  BY <1>1, <1>6, <1>9, <1>10 DEF WaitInv, Statuses
<1>12. Before(submitted, m, n)
  BY <1>6, <1>7, <1>11 DEF WaitInv
<1>13. b < Len(wire) + 1
  BY <1>3, <1>5, <1>12 DEF Before
<1>14. QED
  BY <1>1, <1>8, <1>13

LEMMA SubmittedMore ==
    ASSUME SocketTypes, PastInv, NEW m \in Messages, signal[m] = "none",
           submitted' = Append(submitted, m)
    PROVE  /\ Len(submitted) \in Nat
           /\ Len(submitted') = Len(submitted) + 1
           /\ submitted'[Len(submitted) + 1] = m
           /\ Len(submitted) + 1 \in 1..Len(submitted')
           /\ \A i \in 1..Len(submitted) :
                 /\ i \in 1..Len(submitted')
                 /\ submitted'[i] = submitted[i]
                 /\ submitted[i] \in Messages
                 /\ submitted[i] # m
           /\ \A i \in 1..Len(submitted') : i \in 1..Len(submitted) \/ i = Len(submitted) + 1
           /\ \A k, n \in Messages : Before(submitted, k, n) /\ k # m /\ n # m
                                        => Before(submitted', k, n)
           /\ \A k \in Messages : k # m => Before(submitted', k, m)
<1>1. /\ Len(submitted) \in Nat
      /\ Len(submitted') = Len(submitted) + 1
      /\ submitted'[Len(submitted) + 1] = m
      /\ Len(submitted) + 1 \in 1..Len(submitted')
      /\ \A i \in 1..Len(submitted) :
            i \in 1..Len(submitted') /\ submitted'[i] = submitted[i] /\ submitted[i] \in Messages
      /\ \A i \in 1..Len(submitted') : i \in 1..Len(submitted) \/ i = Len(submitted) + 1
  BY AddLast DEF SocketTypes
<1>2. \A i \in 1..Len(submitted) : submitted[i] # m
  BY DEF PastInv
<1>3. QED
  BY <1>1, <1>2 DEF Before

LEMMA WaitStep ==
    ASSUME SocketTypes, WaitInv, PastInv, Change PROVE WaitInv'
<1>a. signal \in [Messages -> Statuses]
  BY DEF SocketTypes, Statuses
<1>b. ASSUME submitted' = submitted
      PROVE  \A m, n : Before(submitted', m, n) <=> Before(submitted, m, n)
  BY <1>b DEF Before
<1>1. CASE Keep
  BY <1>1, <1>b DEF Keep, WaitInv
<1>2. ASSUME NEW m \in Messages, Deliver(m) PROVE WaitInv'
  <2>1. \A n \in Messages : signal'[n] = IF n = m THEN "Sent" ELSE signal[n]
    BY <1>2 DEF Deliver, Settled
  <2>2. QED
    BY <1>2, <1>b, <2>1 DEF Deliver, WaitInv
<1>3. ASSUME NEW lost, Drop(lost) PROVE WaitInv'
  <2>1. \A n \in Messages : signal'[n] = IF n \in lost THEN "Failed" ELSE signal[n]
    BY <1>3 DEF Drop, Dropped
  <2>2. QED
    BY <1>3, <1>b, <2>1 DEF Drop, WaitInv
<1>4. ASSUME NEW m \in Messages, Accept(m) \/ Refuse(m) PROVE WaitInv'
  <2>1. /\ signal[m] = "none" /\ submitted' = Append(submitted, m)
        /\ \A n \in Messages : n # m => signal'[n] = signal[n]
    BY <1>4, <1>a DEF Accept, Refuse
  <2>2. ~Waiting(m)
    BY <2>1 DEF WaitInv
  <2>3. \A n \in Messages : signal'[n] = "Sending" <=> Waiting(n)'
    <3>1. CASE Accept(m)
      BY <1>a, <2>1, <3>1 DEF Accept, WaitInv
    <3>2. CASE Refuse(m)
      BY <1>a, <2>1, <2>2, <3>2 DEF Refuse, WaitInv
    <3>3. QED
      BY <1>4, <3>1, <3>2
  <2>4. ASSUME NEW k \in Messages, NEW n \in Messages, Ahead(k, n)'
        PROVE  Before(submitted', k, n)
    <3>1. Ahead(k, n) \/ (n = m /\ Waiting(k))
      BY <1>4, <2>4 DEF Accept, Refuse
    <3>2. CASE Ahead(k, n)
      <4>1. k # m /\ n # m
        BY <2>2, <3>2, AheadWaits
      <4>2. Before(submitted, k, n)
        BY <3>2 DEF WaitInv
      <4>3. QED
        BY <2>1, <4>1, <4>2, SubmittedMore
    <3>3. CASE n = m /\ Waiting(k)
      <4>1. k # m
        BY <2>2, <3>3
      <4>2. QED
        BY <2>1, <3>3, <4>1, SubmittedMore
    <3>4. QED
      BY <3>1, <3>2, <3>3
  <2>5. QED
    BY <2>3, <2>4 DEF WaitInv
<1>5. QED
  BY <1>1, <1>2, <1>3, <1>4 DEF Change

LEMMA PastStep ==
    ASSUME SocketTypes, WaitInv, PastInv, Change PROVE PastInv'
<1>a. /\ signal \in [Messages -> Statuses]
      /\ Len(submitted) \in Nat /\ Len(wire) \in Nat
      /\ \A i \in 1..Len(submitted) : submitted[i] \in Messages
      /\ wire \in Seq(Messages)
  BY DEF SocketTypes, Statuses
<1>1. CASE Keep
  BY <1>1 DEF Keep, PastInv
<1>2. ASSUME NEW m \in Messages, Deliver(m) PROVE PastInv'
  <2>1. /\ Len(wire) < Len(submitted)
        /\ submitted[Len(wire) + 1] = m
        /\ signal[m] = "Sending"
    BY <1>2, NextForWire DEF Deliver
  <2>2. /\ Len(wire') = Len(wire) + 1
        /\ wire'[Len(wire) + 1] = m
        /\ \A i \in 1..Len(wire) : wire'[i] = wire[i] /\ i \in 1..Len(wire')
        /\ \A i \in 1..Len(wire') : i \in 1..Len(wire) \/ i = Len(wire) + 1
        /\ Len(wire) + 1 \in 1..Len(wire')
    BY <1>2, <1>a, AddLast DEF Deliver
  <2>3. /\ signal'[m] = "Sent"
        /\ \A n \in Messages : n # m => signal'[n] = signal[n]
        /\ submitted' = submitted
    BY <1>2 DEF Deliver, Settled
  <2>4. \A n \in Messages :
            signal'[n] # "none" <=> \E i \in 1..Len(submitted') : submitted'[i] = n
    BY <2>1, <2>3 DEF PastInv
  <2>5. Len(wire') <= Len(submitted') /\ \A i \in 1..Len(wire') : wire'[i] = submitted'[i]
    BY <1>a, <2>1, <2>2, <2>3 DEF PastInv
  <2>6. \A n \in Messages : signal'[n] = "Sent" <=> \E i \in 1..Len(wire') : wire'[i] = n
    BY <2>2, <2>3 DEF PastInv
  <2>7. \A n \in Messages : /\ signal'[n] = "Sending" => signal[n] = "Sending"
                            /\ signal'[n] = "Failed" => signal[n] = "Failed"
    BY <2>3
  <2>8. SinkOpen /\ (Running' <=> Running)
    BY <1>2 DEF Deliver
  <2>9. \A i, j \in 1..Len(submitted') :
            submitted'[i] = submitted'[j] => i = j
    BY <2>3 DEF PastInv
  <2>10. ASSUME NEW i \in 1..Len(submitted), NEW j \in 1..Len(submitted), i < j,
                signal'[submitted[j]] = "Sending"
         PROVE  signal'[submitted[i]] # "Failed"
    BY <1>a, <2>7, <2>8, <2>10 DEF PastInv
  <2>11. Running' => \A i \in 1..Len(submitted) : signal'[submitted[i]] # "Failed"
    BY <1>a, <2>7, <2>8 DEF PastInv
  <2>12. QED
    BY <2>3, <2>4, <2>5, <2>6, <2>9, <2>10, <2>11 DEF PastInv
<1>3. ASSUME NEW lost, Drop(lost) PROVE PastInv'
  <2>1. /\ \A n \in Messages : signal'[n] = IF n \in lost THEN "Failed" ELSE signal[n]
        /\ UNCHANGED <<submitted, wire>>
    BY <1>3 DEF Drop, Dropped
  <2>2. \A n \in Messages \cap lost : signal[n] = "Sending"
    BY <1>3 DEF Drop, WaitInv
  <2>3. \A n \in Messages : /\ signal'[n] # "none" <=> signal[n] # "none"
                            /\ signal'[n] = "Sent" <=> signal[n] = "Sent"
    BY <2>1, <2>2
  <2>4. ASSUME SinkOpen', NEW i \in 1..Len(submitted), NEW j \in 1..Len(submitted), i < j,
               signal'[submitted[j]] = "Sending"
        PROVE  signal'[submitted[i]] # "Failed"
    <3> DEFINE k == submitted[i]
               n == submitted[j]
    <3>1. k \in Messages /\ n \in Messages
      BY <1>a
    <3>2. n \notin lost /\ signal[n] = "Sending"
      BY <2>1, <2>4, <3>1
    <3>3. SinkOpen /\ Waiting(n)
      BY <1>3, <2>4, <3>1, <3>2 DEF Drop, WaitInv
    <3>4. signal[k] # "Failed"
      BY <2>4, <3>2, <3>3 DEF PastInv
    <3>5. ASSUME k \in lost PROVE FALSE
      <4>1. Ahead(n, k)
        BY <1>3, <2>4, <3>1, <3>2, <3>3, <3>5 DEF Drop
      <4>2. Before(submitted, n, k)
        BY <3>1, <4>1 DEF WaitInv
      <4>3. j < i
        BY <4>2 DEF Before
      <4>4. QED
        BY <2>4, <4>3
    <3>6. QED
      BY <2>1, <3>1, <3>4, <3>5
  <2>5. SinkOpen' => ~Running'
    BY <1>3 DEF Drop
  <2>6. QED
    BY <2>1, <2>3, <2>4, <2>5 DEF PastInv
<1>4. ASSUME NEW m \in Messages, Accept(m) \/ Refuse(m) PROVE PastInv'
  <2>1. /\ signal[m] = "none" /\ submitted' = Append(submitted, m)
        /\ \A n \in Messages : n # m => signal'[n] = signal[n]
        /\ signal'[m] \in {"Sending", "Failed"}
        /\ wire' = wire
        /\ SinkOpen' <=> SinkOpen
        /\ Running' <=> Running
        /\ Running => signal'[m] = "Sending"
        /\ ~Running => signal'[m] = "Failed"
    BY <1>4, <1>a DEF Accept, Refuse
  <2>2. /\ Len(submitted') = Len(submitted) + 1
        /\ submitted'[Len(submitted) + 1] = m
        /\ Len(submitted) + 1 \in 1..Len(submitted')
        /\ \A i \in 1..Len(submitted) :
              /\ i \in 1..Len(submitted')
              /\ submitted'[i] = submitted[i]
              /\ submitted[i] \in Messages
              /\ submitted[i] # m
        /\ \A i \in 1..Len(submitted') : i \in 1..Len(submitted) \/ i = Len(submitted) + 1
    BY <2>1, SubmittedMore
  <2>3. \A i, j \in 1..Len(submitted') : submitted'[i] = submitted'[j] => i = j
    BY <2>2 DEF PastInv
  <2>4. \A n \in Messages :
            signal'[n] # "none" <=> \E i \in 1..Len(submitted') : submitted'[i] = n
    <3>1. ASSUME NEW n \in Messages, n # m
          PROVE  (\E i \in 1..Len(submitted') : submitted'[i] = n)
                     <=> \E i \in 1..Len(submitted) : submitted[i] = n
      BY <2>2, <3>1
    <3>2. \E i \in 1..Len(submitted') : submitted'[i] = m
      BY <2>2
    <3>3. signal'[m] # "none"
      BY <2>1
    <3>4. QED
      BY <2>1, <3>1, <3>2, <3>3 DEF PastInv
  <2>5. \A i \in 1..Len(wire) : i \in 1..Len(submitted) /\ wire[i] = submitted[i]
    BY <1>a DEF PastInv
  <2>6. Len(wire') <= Len(submitted') /\ \A i \in 1..Len(wire') : wire'[i] = submitted'[i]
    BY <1>a, <2>1, <2>2, <2>5 DEF PastInv
  <2>7. \A n \in Messages : signal'[n] = "Sent" <=> \E i \in 1..Len(wire') : wire'[i] = n
    <3>1. signal[m] # "Sent" /\ signal'[m] # "Sent"
      BY <2>1
    <3>2. \A n \in Messages : signal'[n] = "Sent" <=> signal[n] = "Sent"
      BY <2>1, <3>1
    <3>3. QED
      BY <2>1, <3>2 DEF PastInv
  <2>8. ASSUME SinkOpen, NEW i \in 1..Len(submitted'), NEW j \in 1..Len(submitted'), i < j,
               signal'[submitted'[j]] = "Sending"
        PROVE  signal'[submitted'[i]] # "Failed"
    <3>1. i \in 1..Len(submitted)
      BY <1>a, <2>2, <2>8
    <3>2. signal'[submitted'[i]] = signal[submitted[i]]
      BY <2>1, <2>2, <3>1
    <3>3. CASE j \in 1..Len(submitted)
      <4>1. signal[submitted[j]] = "Sending"
        BY <2>1, <2>2, <2>8, <3>3
      <4>2. QED
        BY <2>8, <3>1, <3>2, <3>3, <4>1 DEF PastInv
    <3>4. CASE j = Len(submitted) + 1
      <4>1. Running
        BY <2>1, <2>2, <2>8, <3>4
      <4>2. QED
        BY <2>8, <3>1, <3>2, <4>1 DEF PastInv
    <3>5. QED
      BY <2>2, <3>3, <3>4
  <2>9. SinkOpen /\ Running => \A i \in 1..Len(submitted') : signal'[submitted'[i]] # "Failed"
    <3>1. SUFFICES ASSUME SinkOpen, Running, NEW i \in 1..Len(submitted')
                   PROVE  signal'[submitted'[i]] # "Failed"
      OBVIOUS
    <3>2. CASE i \in 1..Len(submitted)
      <4>1. signal'[submitted'[i]] = signal[submitted[i]]
        BY <2>1, <2>2, <3>2
      <4>2. QED
        BY <3>1, <3>2, <4>1 DEF PastInv
    <3>3. CASE i = Len(submitted) + 1
      BY <2>1, <2>2, <3>1, <3>3
    <3>4. QED
      BY <2>2, <3>2, <3>3
  <2>10. QED
    BY <2>1, <2>3, <2>4, <2>6, <2>7, <2>8, <2>9 DEF PastInv
<1>5. QED
  BY <1>1, <1>2, <1>3, <1>4 DEF Change

(* Each is a step of Delivery, or none.                                      *)
LEMMA ChangeDelivers ==
    ASSUME SocketTypes, WaitInv, PastInv, Change PROVE [D!Next]_D!vars
<1>1. CASE Keep
  BY <1>1 DEF Keep, D!vars
<1>2. ASSUME NEW m \in Messages, Deliver(m) PROVE [D!Next]_D!vars
  <2>1. /\ signal[m] = "Sending"
        /\ Len(wire) < Len(submitted)
        /\ submitted[Len(wire) + 1] = m
    BY <1>2, NextForWire DEF Deliver
  <2>2. Settled(m, "Sent") = [signal EXCEPT ![m] = "Sent"]
    BY DEF Settled, SocketTypes
  <2>3. D!Deliver(m)
    BY <1>2, <2>1, <2>2 DEF Deliver, D!Deliver
  <2>4. QED
    BY <2>3 DEF D!Next
<1>3. ASSUME NEW lost, Drop(lost) PROVE [D!Next]_D!vars
  <2>1. Messages \cap lost \in SUBSET {m \in Messages : signal[m] = "Sending"}
    BY <1>3 DEF Drop, WaitInv
  <2>2. signal' = [m \in Messages |->
                      IF m \in Messages \cap lost THEN "Failed" ELSE signal[m]]
    BY <1>3 DEF Drop, Dropped
  <2>3. UNCHANGED <<submitted, wire>>
    BY <1>3 DEF Drop
  <2>4. D!Fail
    BY <2>1, <2>2, <2>3 DEF D!Fail
  <2>5. QED
    BY <2>4 DEF D!Next
<1>4. ASSUME NEW m \in Messages, Accept(m) \/ Refuse(m) PROVE [D!Next]_D!vars
  <2>1. D!Submit(m)
    BY <1>4 DEF Accept, Refuse, D!Submit
  <2>2. QED
    BY <2>1 DEF D!Next
<1>5. QED
  BY <1>1, <1>2, <1>3, <1>4 DEF Change

-----------------------------------------------------------------------------
(* The steps are such changes.                                               *)

(* Facts about the two queues, index by index.                               *)
LEMMA QueueTypes ==
    ASSUME SocketTypes, OwnTypes
    PROVE  /\ sink \in Seq(Frames) /\ Len(sink) \in Nat
           /\ to_socket \in Seq(Messages) /\ Len(to_socket) \in Nat
           /\ \A i \in 1..Len(to_socket) : to_socket[i] \in Messages
  BY DEF SocketTypes, OwnTypes

LEMMA InUnsent == \A m : m \in Unsent <=> InQueue(m)
  BY DEF Unsent, InQueue

LEMMA InQueued == \A m : m \in Queued <=> InSink(m)
  BY DEF Queued, InSink

(* What keeps both queues keeps every place in them.                         *)
LEMMA SamePlaces ==
    ASSUME UNCHANGED <<sink, inflight, to_socket>>
    PROVE  \A m, n : (Waiting(m)' <=> Waiting(m)) /\ (Ahead(m, n)' <=> Ahead(m, n))
  BY DEF Waiting, Ahead, InSink, InQueue

LEMMA TakenKeeps ==
    ASSUME SocketTypes, Idle, Taken, to_socket' = to_socket, Running' <=> Running
    PROVE  Keep
<1>1. /\ inflight = NoFrame
      /\ inflight' = sink[1]
      /\ Len(sink') = Len(sink) - 1
      /\ Len(sink) \in Nat /\ Len(sink) > 0
      /\ \A i \in 1..Len(sink') : sink'[i] = sink[i + 1] /\ i + 1 \in 1..Len(sink)
      /\ \A i \in 2..Len(sink) : sink[i] = sink'[i - 1] /\ i - 1 \in 1..Len(sink')
  BY TakeHead DEF Taken, Idle, SocketTypes
<1>2. \A m : InSink(m) <=> InSink(m)' \/ m = inflight'
  <2>1. ASSUME NEW m, NEW i \in 1..Len(sink), sink[i] = m
        PROVE  (\E k \in 1..Len(sink') : sink'[k] = m) \/ m = inflight'
    <3>1. i = 1 \/ i \in 2..Len(sink)
      BY <1>1
    <3>2. QED
      BY <1>1, <2>1, <3>1
  <2>2. \A m : m = inflight' => \E i \in 1..Len(sink) : sink[i] = m
    BY <1>1
  <2>3. \A m : (\E k \in 1..Len(sink') : sink'[k] = m) => \E i \in 1..Len(sink) : sink[i] = m
    BY <1>1
  <2>4. QED
    BY <2>1, <2>2, <2>3 DEF InSink
<1>3. \A m : InQueue(m)' <=> InQueue(m)
  BY DEF InQueue
<1>4. \A m \in Messages : Waiting(m)' <=> Waiting(m)
  BY <1>1, <1>2, <1>3, SocketAssumption DEF Waiting
<1>5. ASSUME NEW m \in Messages, NEW n \in Messages, Ahead(m, n)' PROVE Ahead(m, n)
  <2>1. CASE m = inflight' /\ InSink(n)'
    <3>1. PICK j \in 1..Len(sink') : sink'[j] = n
      BY <2>1 DEF InSink
    <3>2. /\ 1 \in 1..Len(sink) /\ j + 1 \in 1..Len(sink) /\ 1 < j + 1
          /\ sink[1] = m /\ sink[j + 1] = n
      BY <1>1, <2>1, <3>1
    <3>3. QED
      BY <3>2 DEF Ahead
  <2>2. CASE (m = inflight' \/ InSink(m)') /\ InQueue(n)'
    BY <1>2, <1>3, <2>2 DEF Ahead
  <2>3. CASE \E i, j \in 1..Len(sink') : i < j /\ sink'[i] = m /\ sink'[j] = n
    <3>1. PICK i \in 1..Len(sink'), j \in 1..Len(sink') :
                   i < j /\ sink'[i] = m /\ sink'[j] = n
      BY <2>3
    <3>2. /\ i + 1 \in 1..Len(sink) /\ j + 1 \in 1..Len(sink) /\ i + 1 < j + 1
          /\ sink[i + 1] = m /\ sink[j + 1] = n
      BY <1>1, <3>1
    <3>3. QED
      BY <3>2 DEF Ahead
  <2>4. CASE \E i, j \in 1..Len(to_socket') : i < j /\ to_socket'[i] = m /\ to_socket'[j] = n
    BY <2>4 DEF Ahead
  <2>5. QED
    BY <1>5, <2>1, <2>2, <2>3, <2>4 DEF Ahead
<1>6. QED
  BY <1>4, <1>5 DEF Keep, Taken, SinkOpen

LEMMA BeatKeeps ==
    ASSUME SocketTypes, Beat, to_socket' = to_socket, Running' <=> Running
    PROVE  Keep
<1>1. PICK f \in HeartbeatFrames : sink' = Append(sink, f)
  BY DEF Beat
<1>2. f \notin Messages /\ f \in Frames
  BY SocketAssumption DEF HeartbeatFrames, Frames
<1>3. /\ sink'[Len(sink) + 1] = f
      /\ \A i \in 1..Len(sink) : sink'[i] = sink[i] /\ i \in 1..Len(sink')
      /\ \A i \in 1..Len(sink') : i \in 1..Len(sink) \/ i = Len(sink) + 1
  BY <1>1, <1>2, AddLast DEF SocketTypes
<1>4. \A i \in 1..Len(sink') :
          sink'[i] \in Messages => i \in 1..Len(sink) /\ sink'[i] = sink[i]
  BY <1>2, <1>3
<1>5. /\ \A m \in Messages : (InSink(m)' <=> InSink(m)) /\ (InQueue(m)' <=> InQueue(m))
      /\ inflight' = inflight
  BY <1>3, <1>4 DEF InSink, InQueue, Beat
<1>6. \A m \in Messages : Waiting(m)' <=> Waiting(m)
  BY <1>5 DEF Waiting
<1>7. \A m, n \in Messages : Ahead(m, n)' => Ahead(m, n)
  BY <1>4, <1>5 DEF Ahead
<1>8. QED
  BY <1>6, <1>7 DEF Keep, Beat, SinkOpen

LEMMA DoneChanges ==
    ASSUME SocketTypes, WaitInv, PastInv, Done, to_socket' = to_socket,
           Running' <=> Running
    PROVE  Change
<1>1. /\ inflight' = NoFrame
      /\ \A m : (InSink(m)' <=> InSink(m)) /\ (InQueue(m)' <=> InQueue(m))
  BY DEF Done, InSink, InQueue
<1>2. \A m, n \in Messages : Ahead(m, n)' => Ahead(m, n)
  BY <1>1, SocketAssumption DEF Ahead, Done
<1>3. SinkOpen /\ SinkOpen'
  BY DEF Done, SinkOpen
<1>4. CASE inflight \in Messages
  <2>1. ~InSink(inflight) /\ ~InQueue(inflight)
    BY <1>4, WaitsOnce DEF Ahead
  <2>2. \A n \in Messages : Waiting(n)' <=> Waiting(n) /\ n # inflight
    BY <1>1, <2>1, SocketAssumption DEF Waiting
  <2>3. \A n \in Messages : Waiting(n) /\ n # inflight => Ahead(inflight, n)
    BY DEF Waiting, Ahead
  <2>4. Deliver(inflight)
    BY <1>2, <1>3, <1>4, <2>2, <2>3 DEF Deliver, Done, Waiting
  <2>5. QED
    BY <1>4, <2>4 DEF Change
<1>5. CASE inflight \notin Messages
  <2>1. signal' = signal
    BY <1>5 DEF Done, Settled, SocketTypes
  <2>2. \A m \in Messages : Waiting(m)' <=> Waiting(m)
    BY <1>1, <1>5, SocketAssumption DEF Waiting
  <2>3. Keep
    BY <1>2, <1>3, <1>5, <2>1, <2>2 DEF Keep, Done
  <2>4. QED
    BY <2>3 DEF Change
<1>6. QED
  BY <1>4, <1>5

LEMMA LostChanges ==
    ASSUME SocketTypes, WaitInv, PastInv, Lost, to_socket' = to_socket
    PROVE  Change
<1>1. /\ inflight' = NoFrame
      /\ \A m : InQueue(m)' <=> InQueue(m)
      /\ ~SinkOpen'
      /\ UNCHANGED <<submitted, wire>>
  BY DEF Lost, InQueue, SinkOpen
<1>2. \A m \in Messages : /\ InQueue(m) => ~InSink(m) /\ m # inflight
                          /\ InSink(m) => m # inflight
  BY WaitsOnce DEF Ahead
<1>3. CASE sink' = <<>> /\ signal' = Dropped(signal, Queued \cup {inflight})
  <2>1. \A m : ~InSink(m)'
    BY <1>3 DEF InSink
  <2>2. \A m \in Messages \cap (Queued \cup {inflight}) : Waiting(m)
    BY InQueued DEF Waiting
  <2>3. \A m \in Messages :
            Waiting(m)' <=> Waiting(m) /\ m \notin Queued \cup {inflight}
    BY <1>1, <1>2, <2>1, InQueued, SocketAssumption DEF Waiting
  <2>4. \A m, n \in Messages : Ahead(m, n)' => Ahead(m, n)
    BY <1>1, <1>3, <2>1, SocketAssumption DEF Ahead
  <2>5. Drop(Queued \cup {inflight})
    BY <1>1, <1>3, <2>2, <2>3, <2>4 DEF Drop
  <2>6. QED
    BY <2>5 DEF Change
<1>4. CASE sink' = sink /\ signal' = Dropped(signal, {inflight})
  <2>1. \A m : InSink(m)' <=> InSink(m)
    BY <1>4 DEF InSink
  <2>2. \A m \in Messages \cap {inflight} : Waiting(m)
    BY DEF Waiting
  <2>3. \A m \in Messages : Waiting(m)' <=> Waiting(m) /\ m \notin {inflight}
    BY <1>1, <1>2, <2>1, SocketAssumption DEF Waiting
  <2>4. \A m, n \in Messages : Ahead(m, n)' => Ahead(m, n)
    BY <1>1, <1>4, <2>1, SocketAssumption DEF Ahead
  <2>5. Drop({inflight})
    BY <1>1, <1>4, <2>2, <2>3, <2>4 DEF Drop
  <2>6. QED
    BY <2>5 DEF Change
<1>5. QED
  BY <1>3, <1>4 DEF Lost

LEMMA BelowChanges ==
    ASSUME SocketTypes, Idle, WaitInv, PastInv, Quiet \/ Taken \/ Done \/ Lost \/ Beat,
           to_socket' = to_socket, Running' <=> Running
    PROVE  Change
<1>1. CASE Quiet
  <2>1. Keep
    BY <1>1, SamePlaces DEF Quiet, Keep
  <2>2. QED
    BY <2>1 DEF Change
<1>2. CASE Taken \/ Beat
  BY <1>2, TakenKeeps, BeatKeeps DEF Change
<1>3. QED
  BY <1>1, <1>2, DoneChanges, LostChanges

(* Taking the head of the session's queue.                                   *)
LEMMA HeadOut ==
    ASSUME OwnTypes, to_socket # <<>>, NEW m, Head(to_socket) = m
    PROVE  /\ m \in Messages /\ InQueue(m)
           /\ Len(Tail(to_socket)) = Len(to_socket) - 1
           /\ Len(to_socket) \in Nat /\ Len(to_socket) > 0
           /\ to_socket[1] = m
           /\ \A i \in 1..Len(Tail(to_socket)) :
                 Tail(to_socket)[i] = to_socket[i + 1] /\ i + 1 \in 2..Len(to_socket)
           /\ \A i \in 2..Len(to_socket) :
                 to_socket[i] = Tail(to_socket)[i - 1] /\ i - 1 \in 1..Len(Tail(to_socket))
           /\ \A n : InQueue(n) => n = m \/ \E i \in 2..Len(to_socket) : to_socket[i] = n
<1>1. to_socket \in Seq(Messages)
  BY DEF OwnTypes
<1>2. /\ m \in Messages
      /\ Len(Tail(to_socket)) = Len(to_socket) - 1
      /\ Len(to_socket) \in Nat /\ Len(to_socket) > 0
      /\ to_socket[1] = m
      /\ \A i \in 1..Len(Tail(to_socket)) :
            Tail(to_socket)[i] = to_socket[i + 1] /\ i + 1 \in 2..Len(to_socket)
      /\ \A i \in 2..Len(to_socket) :
            to_socket[i] = Tail(to_socket)[i - 1] /\ i - 1 \in 1..Len(Tail(to_socket))
  BY <1>1, TakeHead
<1>3. 1 \in 1..Len(to_socket) /\ \A i \in 1..Len(to_socket) : i = 1 \/ i \in 2..Len(to_socket)
  BY <1>2
<1>4. QED
  BY <1>2, <1>3 DEF InQueue

InSinkOrder(m, n) == \E i, j \in 1..Len(sink) : i < j /\ sink[i] = m /\ sink[j] = n

(* What an append to the sink does to the places in it.                      *)
LEMMA SinkMore ==
    ASSUME SocketTypes, NEW m \in Messages, sink' = Append(sink, m)
    PROVE  /\ \A n : InSink(n)' <=> InSink(n) \/ n = m
           /\ \A k, n : InSinkOrder(k, n)' => InSinkOrder(k, n) \/ (InSink(k) /\ n = m)
<1>1. sink \in Seq(Frames) /\ m \in Frames
  BY DEF SocketTypes, Frames
<1>2. /\ Len(sink) \in Nat
      /\ sink'[Len(sink) + 1] = m
      /\ Len(sink) + 1 \in 1..Len(sink')
      /\ \A i \in 1..Len(sink) : sink'[i] = sink[i] /\ i \in 1..Len(sink')
      /\ \A i \in 1..Len(sink') : i \in 1..Len(sink) \/ i = Len(sink) + 1
  BY <1>1, AddLast
<1>3. ASSUME NEW k, NEW n, NEW i \in 1..Len(sink'), NEW j \in 1..Len(sink'),
             i < j, sink'[i] = k, sink'[j] = n
      PROVE  \/ InSink(k) /\ n = m
             \/ \E p, q \in 1..Len(sink) : p < q /\ sink[p] = k /\ sink[q] = n
  <2>1. i \in 1..Len(sink)
    BY <1>2, <1>3
  <2>2. CASE j = Len(sink) + 1
    BY <1>2, <1>3, <2>1, <2>2 DEF InSink
  <2>3. CASE j \in 1..Len(sink)
    BY <1>2, <1>3, <2>1, <2>3
  <2>4. QED
    BY <1>2, <2>2, <2>3
<1>4. QED
  BY <1>2, <1>3 DEF InSink, InSinkOrder

(* The head of the session's queue moves to the end of the sink's.           *)
LEMMA ForwardKeeps ==
    ASSUME SocketTypes, OwnTypes, NEW m \in Messages, Forward(m) PROVE Keep
<1>1. /\ to_socket # <<>> /\ Head(to_socket) = m
      /\ sink' = Append(sink, m)
      /\ to_socket' = Tail(to_socket)
      /\ UNCHANGED <<inflight, sink_actor, submitted, signal, wire, session>>
  BY DEF Forward, messages
<1>2. \A n : InQueue(n) <=> InQueue(n)' \/ n = m
  BY <1>1, HeadOut DEF InQueue
<1>3. \A n : InSink(n)' <=> InSink(n) \/ n = m
  BY <1>1, SinkMore
<1>4. \A n \in Messages : Waiting(n)' <=> Waiting(n)
  BY <1>1, <1>2, <1>3 DEF Waiting
<1>5. \A n : InQueue(n)' => \E i, j \in 1..Len(to_socket) :
                               i < j /\ to_socket[i] = m /\ to_socket[j] = n
  <2>1. SUFFICES ASSUME NEW n, NEW i \in 1..Len(to_socket'), to_socket'[i] = n
                 PROVE  \E p, q \in 1..Len(to_socket) :
                           p < q /\ to_socket[p] = m /\ to_socket[q] = n
    BY DEF InQueue
  <2>2. /\ 1 \in 1..Len(to_socket) /\ i + 1 \in 1..Len(to_socket) /\ 1 < i + 1
        /\ to_socket[1] = m /\ to_socket[i + 1] = n
    BY <1>1, <2>1, HeadOut
  <2>3. QED
    BY <2>2
<1>6. ASSUME NEW k \in Messages, NEW n \in Messages, Ahead(k, n)' PROVE Ahead(k, n)
  <2>1. CASE k = inflight' /\ (InSink(n)' \/ InQueue(n)')
    BY <1>1, <1>2, <1>3, <2>1 DEF Ahead
  <2>2. CASE InSink(k)' /\ InQueue(n)'
    BY <1>2, <1>3, <1>5, <2>2 DEF Ahead
  <2>3. CASE \E i, j \in 1..Len(sink') : i < j /\ sink'[i] = k /\ sink'[j] = n
    <3>1. InSinkOrder(k, n)'
      BY <2>3 DEF InSinkOrder
    <3>2. InSinkOrder(k, n) \/ (InSink(k) /\ n = m)
      BY <1>1, <3>1, SinkMore
    <3>3. QED
      BY <1>2, <3>2 DEF Ahead, InSinkOrder
  <2>4. CASE \E i, j \in 1..Len(to_socket') : i < j /\ to_socket'[i] = k /\ to_socket'[j] = n
    <3>1. PICK i \in 1..Len(to_socket'), j \in 1..Len(to_socket') :
                   i < j /\ to_socket'[i] = k /\ to_socket'[j] = n
      BY <2>4
    <3>2. /\ i + 1 \in 1..Len(to_socket) /\ j + 1 \in 1..Len(to_socket) /\ i + 1 < j + 1
          /\ to_socket[i + 1] = k /\ to_socket[j + 1] = n
      BY <1>1, <3>1, HeadOut
    <3>3. QED
      BY <3>2 DEF Ahead
  <2>5. QED
    BY <1>6, <2>1, <2>2, <2>3, <2>4 DEF Ahead
<1>7. QED
  BY <1>1, <1>4, <1>6 DEF Keep, SinkOpen, Running

(* The Close goes to the sink, what was queued behind it is dropped.         *)
LEMMA AfterCloseDrops ==
    ASSUME SocketTypes, OwnTypes, WaitInv, PastInv, NEW m \in Messages,
           to_socket # <<>>, Head(to_socket) = m, AfterClose(m)
    PROVE  Drop(Unsent \ {m})
<1>1. /\ sink' = Append(sink, m)
      /\ to_socket' = <<>>
      /\ signal' = Dropped(signal, Unsent \ {m})
      /\ ~Running'
      /\ UNCHANGED <<inflight, sink_actor, submitted, wire>>
  BY DEF AfterClose, LeaveRun, Running
<1>2. \A n : InSink(n)' <=> InSink(n) \/ n = m
  BY <1>1, SinkMore
<1>3. \A n : ~InQueue(n)'
  BY <1>1 DEF InQueue
<1>4. \A n \in Messages : InQueue(n) => ~InSink(n) /\ n # inflight
  BY WaitsOnce DEF Ahead
<1>5. InQueue(m)
  BY HeadOut
<1>6. \A n \in Messages : Waiting(n)' <=> Waiting(n) /\ n \notin Unsent \ {m}
  BY <1>1, <1>2, <1>3, <1>4, <1>5, InUnsent DEF Waiting
<1>7. ASSUME NEW k \in Messages, NEW n \in Messages, Ahead(k, n)' PROVE Ahead(k, n)
  <2>1. \/ k = inflight /\ InSink(n)'
        \/ \E i, j \in 1..Len(sink') : i < j /\ sink'[i] = k /\ sink'[j] = n
    BY <1>1, <1>3, <1>7 DEF Ahead
  <2>2. CASE k = inflight /\ InSink(n)'
    BY <1>2, <1>5, <2>2 DEF Ahead
  <2>3. CASE \E i, j \in 1..Len(sink') : i < j /\ sink'[i] = k /\ sink'[j] = n
    <3>1. InSinkOrder(k, n)'
      BY <2>3 DEF InSinkOrder
    <3>2. InSinkOrder(k, n) \/ (InSink(k) /\ n = m)
      BY <1>1, <3>1, SinkMore
    <3>3. QED
      BY <1>5, <3>2 DEF Ahead, InSinkOrder
  <2>4. QED
    BY <2>1, <2>2, <2>3
<1>8. ASSUME NEW k \in Messages, NEW n \in Messages, n \in Unsent \ {m},
             Waiting(k), k \notin Unsent \ {m}
      PROVE  Ahead(k, n)
  <2>1. InQueue(n) /\ n # m
    BY <1>8, InUnsent
  <2>2. k = inflight \/ InSink(k) \/ k = m
    BY <1>8, InUnsent DEF Waiting
  <2>3. CASE k = inflight \/ InSink(k)
    BY <2>1, <2>3 DEF Ahead
  <2>4. CASE k = m
    <3>1. PICK j \in 2..Len(to_socket) : to_socket[j] = n
      BY <2>1, HeadOut
    <3>2. /\ 1 \in 1..Len(to_socket) /\ j \in 1..Len(to_socket) /\ 1 < j
          /\ to_socket[1] = k
      BY <2>4, <3>1, HeadOut
    <3>3. QED
      BY <3>1, <3>2 DEF Ahead
  <2>5. QED
    BY <2>2, <2>3, <2>4
<1>9. \A n \in Messages \cap (Unsent \ {m}) : Waiting(n)
  BY InUnsent DEF Waiting
<1>10. QED
  BY <1>1, <1>6, <1>7, <1>8, <1>9 DEF Drop, SinkOpen

(* run returns: the session's queue is dropped, and behind a dead sink actor *)
(* perhaps the sink's.                                                       *)
LEMMA ReturnDrops ==
    ASSUME SocketTypes, OwnTypes, WaitInv, PastInv, NEW res, Return(res)
    PROVE  Change
<1>1. /\ to_socket' = <<>>
      /\ ~Running'
      /\ UNCHANGED <<inflight, sink_actor, submitted, wire>>
      /\ Release(sink_actor, FALSE, heartbeat, Dropped(signal, Unsent))
  BY DEF Return, LeaveRun, Running
<1>2. \A n : ~InQueue(n)'
  BY <1>1 DEF InQueue
<1>3. \A n \in Messages : /\ InQueue(n) => ~InSink(n) /\ n # inflight
                          /\ InSink(n) => n # inflight
  BY WaitsOnce DEF Ahead
<1>4. CASE sink' = sink /\ signal' = Dropped(signal, Unsent)
  <2>1. \A n : InSink(n)' <=> InSink(n)
    BY <1>4 DEF InSink
  <2>2. \A n \in Messages : Waiting(n)' <=> Waiting(n) /\ n \notin Unsent
    BY <1>1, <1>2, <1>3, <2>1, InUnsent DEF Waiting
  <2>3. \A k, n \in Messages : Ahead(k, n)' => Ahead(k, n)
    BY <1>1, <1>2, <1>4, <2>1 DEF Ahead
  <2>4. \A k \in Messages, n \in Messages \cap Unsent :
            Waiting(k) /\ k \notin Unsent => Ahead(k, n)
    BY InUnsent DEF Waiting, Ahead
  <2>5. \A n \in Messages \cap Unsent : Waiting(n)
    BY InUnsent DEF Waiting
  <2>6. Drop(Unsent)
    BY <1>1, <1>4, <2>2, <2>3, <2>4, <2>5 DEF Drop, SinkOpen
  <2>7. QED
    BY <2>6 DEF Change
<1>5. CASE /\ sink_actor = "ended"
           /\ sink' = <<>>
           /\ signal' = Dropped(Dropped(signal, Unsent), Queued)
  <2>1. \A n : ~InSink(n)'
    BY <1>5 DEF InSink
  <2>2. signal' = Dropped(signal, Unsent \cup Queued)
    BY <1>5 DEF Dropped
  <2>3. \A n \in Messages : Waiting(n)' <=> Waiting(n) /\ n \notin Unsent \cup Queued
    BY <1>1, <1>2, <1>3, <2>1, InUnsent, InQueued DEF Waiting
  <2>4. \A k, n \in Messages : Ahead(k, n)' => Ahead(k, n)
    BY <1>1, <1>2, <1>5, <2>1 DEF Ahead
  <2>5. \A n \in Messages \cap (Unsent \cup Queued) : Waiting(n)
    BY InUnsent, InQueued DEF Waiting
  <2>6. Drop(Unsent \cup Queued)
    BY <1>1, <1>5, <2>2, <2>3, <2>4, <2>5 DEF Drop, SinkOpen
  <2>7. QED
    BY <2>6 DEF Change
<1>6. QED
  BY <1>1, <1>4, <1>5, ReleaseCases

LEMMA SendChanges ==
    ASSUME SocketTypes, OwnTypes, NEW m \in Messages, Send(m)
    PROVE  Accept(m) \/ Refuse(m)
<1>1. /\ signal[m] = "none"
      /\ submitted' = Append(submitted, m)
      /\ UNCHANGED <<sink, inflight, sink_actor, wire, session>>
  BY DEF Send, sinkVars
<1>2. CASE Running
  <2>1. /\ to_socket' = Append(to_socket, m)
        /\ signal' = [signal EXCEPT ![m] = "Sending"]
    BY <1>2 DEF Send, Enqueue
  <2>2. /\ Len(to_socket) \in Nat
        /\ to_socket'[Len(to_socket) + 1] = m
        /\ Len(to_socket) + 1 \in 1..Len(to_socket')
        /\ \A i \in 1..Len(to_socket) : to_socket'[i] = to_socket[i] /\ i \in 1..Len(to_socket')
        /\ \A i \in 1..Len(to_socket') : i \in 1..Len(to_socket) \/ i = Len(to_socket) + 1
    BY <2>1, AddLast DEF OwnTypes
  <2>3. \A n : (InQueue(n)' <=> InQueue(n) \/ n = m) /\ (InSink(n)' <=> InSink(n))
    BY <1>1, <2>2 DEF InQueue, InSink
  <2>4. ASSUME NEW k, NEW n, NEW i \in 1..Len(to_socket'), NEW j \in 1..Len(to_socket'),
               i < j, to_socket'[i] = k, to_socket'[j] = n
        PROVE  Ahead(k, n) \/ (n = m /\ Waiting(k))
    <3>1. i \in 1..Len(to_socket)
      BY <2>2, <2>4
    <3>2. CASE j = Len(to_socket) + 1
      BY <2>2, <2>4, <3>1, <3>2 DEF Waiting, InQueue
    <3>3. CASE j \in 1..Len(to_socket)
      BY <2>2, <2>4, <3>1, <3>3 DEF Ahead
    <3>4. QED
      BY <2>2, <3>2, <3>3
  <2>5. ASSUME NEW k, NEW n, Ahead(k, n)' PROVE Ahead(k, n) \/ (n = m /\ Waiting(k))
    <3>1. CASE \E i, j \in 1..Len(to_socket') :
                  i < j /\ to_socket'[i] = k /\ to_socket'[j] = n
      BY <2>4, <3>1
    <3>2. CASE \E i, j \in 1..Len(sink') : i < j /\ sink'[i] = k /\ sink'[j] = n
      BY <1>1, <3>2 DEF Ahead
    <3>3. CASE (k = inflight' \/ InSink(k)') /\ InQueue(n)'
      BY <1>1, <2>3, <3>3 DEF Ahead, Waiting
    <3>4. CASE k = inflight' /\ InSink(n)'
      BY <1>1, <2>3, <3>4 DEF Ahead
    <3>5. QED
      BY <2>5, <3>1, <3>2, <3>3, <3>4 DEF Ahead
  <2>6. \A n : Waiting(n)' <=> Waiting(n) \/ n = m
    BY <1>1, <2>3 DEF Waiting
  <2>7. Accept(m)
    BY <1>1, <1>2, <2>1, <2>5, <2>6 DEF Accept, SinkOpen, Running
  <2>8. QED
    BY <2>7
<1>3. CASE ~Running
  <2>1. to_socket' = to_socket /\ signal' = [signal EXCEPT ![m] = "Failed"]
    BY <1>3 DEF Send
  <2>2. Refuse(m)
    BY <1>1, <1>3, <2>1, SamePlaces DEF Refuse, SinkOpen, Running
  <2>3. QED
    BY <2>2
<1>4. QED
  BY <1>2, <1>3

(* A task that moves on leaves the messages where they are.                  *)
LEMMA UnmovedKeeps ==
    ASSUME UNCHANGED <<messages, sink, sink_actor, inflight, to_socket>>, Running' <=> Running
    PROVE  Keep
  BY SamePlaces DEF Keep, SinkOpen, messages

LEMMA StepChanges ==
    ASSUME SessionTypeOK, Idle, WaitInv, PastInv, [Next]_vars PROVE Change
<1>0. SocketTypes /\ OwnTypes
  BY SessionTypeParts
<1>1. ASSUME NEW m \in Messages, Send(m) PROVE Change
  BY <1>0, <1>1, SendChanges DEF Change
<1>2. ASSUME NEW m \in Messages, Forward(m) PROVE Change
  BY <1>0, <1>2, ForwardKeeps DEF Change
<1>3. ASSUME NEW res, Return(res) PROVE Change
  BY <1>0, <1>3, ReturnDrops
<1>4. ASSUME NEW m \in Messages, ForwardFails(m) \/ ForwardClose(m) PROVE Change
  <2>1. CASE ForwardFails(m)
    BY <1>3, <2>1 DEF ForwardFails
  <2>2. CASE ForwardClose(m) /\ ~SinkOpen
    BY <1>3, <2>2 DEF ForwardClose
  <2>3. CASE ForwardClose(m) /\ SinkOpen
    <3>1. to_socket # <<>> /\ Head(to_socket) = m /\ AfterClose(m)
      BY <2>3 DEF ForwardClose
    <3>2. Drop(Unsent \ {m})
      BY <1>0, <3>1, AfterCloseDrops
    <3>3. QED
      BY <3>2 DEF Change
  <2>4. QED
    BY <1>4, <2>1, <2>2, <2>3
<1>5. CASE TakeClose \/ TakeEnd \/ HandlerErr
  BY <1>3, <1>5 DEF TakeClose, TakeEnd, HandlerErr
<1>6. CASE PollToSocket \/ PollCalls \/ PollSocket \/ Wake
  <2>1. Keep
    BY <1>6, UnmovedKeeps DEF PollToSocket, PollCalls, PollSocket, Wake, Poll,
       FirstPoll, Running, socketVars, sinkVars
  <2>2. QED
    BY <2>1 DEF Change
<1>7. CASE TakeCall \/ Call \/ HandlerOk \/ Report
  <2>1. Keep
    BY <1>7, UnmovedKeeps DEF TakeCall, Call, HandlerOk, Report, StartHandler,
       FirstPoll, Running, socketVars, sinkVars
  <2>2. QED
    BY <2>1 DEF Change
<1>8. CASE TakeData \/ TakeError
  <2>1. Keep
    BY <1>8, UnmovedKeeps DEF TakeData, TakeError, StartHandler, FirstPoll, Recv,
       Running, sinkVars
  <2>2. QED
    BY <2>1 DEF Change
<1>9. CASE Below \/ UNCHANGED vars
  <2>1. UNCHANGED <<submitted, session, to_socket>>
    BY <1>9, TransportHolds DEF Below, vars, sessionVars, socketVars, messages
  <2>2. [SocketNext]_socketVars
    BY <1>9, BelowIsSocket DEF vars
  <2>3. Quiet \/ Taken \/ Done \/ Lost \/ Beat
    BY <1>0, <2>1, <2>2, BelowEffects
  <2>4. QED
    BY <1>0, <2>1, <2>3, BelowChanges DEF Running
<1>10. QED
  BY <1>1, <1>2, <1>4, <1>5, <1>6, <1>7, <1>8, <1>9
     DEF Next, Actor, Outgoing, Handlers

(* An actor that is gone has no queue.                                       *)
GoneInv == ~Running => to_socket = <<>>

LEMMA GoneStep == GoneInv /\ [Next]_vars => GoneInv'
<1> SUFFICES ASSUME GoneInv, [Next]_vars PROVE GoneInv'
  OBVIOUS
<1> USE DEF GoneInv, Running
<1>1. ASSUME NEW m \in Messages, Send(m) PROVE GoneInv'
  BY <1>1 DEF Send
<1>2. ASSUME NEW m \in Messages, Forward(m) \/ ForwardFails(m) \/ ForwardClose(m)
      PROVE  GoneInv'
  BY <1>2 DEF Forward, ForwardFails, ForwardClose, AfterClose, Return, LeaveRun
<1>3. CASE TakeClose \/ TakeEnd \/ HandlerErr
  BY <1>3 DEF TakeClose, TakeEnd, HandlerErr, Return, LeaveRun
<1>4. CASE PollToSocket \/ PollCalls \/ PollSocket \/ Wake \/ Report \/ HandlerOk
  BY <1>4 DEF PollToSocket, PollCalls, PollSocket, Wake, Poll, Report, HandlerOk,
     FirstPoll
<1>5. CASE TakeCall \/ TakeData \/ TakeError \/ Call
  BY <1>5 DEF TakeCall, TakeData, TakeError, StartHandler, FirstPoll, Call
<1>6. CASE Below \/ UNCHANGED vars
  BY <1>6 DEF Below, vars, sessionVars
<1>7. QED
  BY <1>1, <1>2, <1>3, <1>4, <1>5, <1>6 DEF Next, Actor, Outgoing, Handlers

(* Both queues, the sink actor, the signals and the wire agree on every      *)
(* message, and on the order of them all.                                    *)
SessionInv == Idle /\ WaitInv /\ PastInv /\ GoneInv

THEOREM SessionInvariant == Spec => []SessionInv
<1>1. Init => SessionInv
  <2>1. SUFFICES ASSUME Init PROVE SessionInv
    OBVIOUS
  <2>2. Idle /\ GoneInv
    BY <2>1 DEF Init, SocketInit, Idle, GoneInv
  <2>3. /\ sink = <<>> /\ to_socket = <<>> /\ inflight = NoFrame
        /\ submitted = <<>> /\ wire = <<>>
        /\ \A m \in Messages : signal[m] = "none"
    BY <2>1 DEF Init, SocketInit
  <2>4. \A m \in Messages : ~Waiting(m)
    BY <2>3, SocketAssumption DEF Waiting, InSink, InQueue
  <2>5. WaitInv
    BY <2>3, <2>4, AheadWaits DEF WaitInv
  <2>6. PastInv
    BY <2>3 DEF PastInv
  <2>7. QED
    BY <2>2, <2>5, <2>6 DEF SessionInv
<1>2. SessionTypeOK /\ (Idle /\ HeldInv) /\ SessionInv /\ [Next]_vars => SessionInv'
  <2> SUFFICES ASSUME SessionTypeOK, HeldInv, SessionInv, [Next]_vars PROVE SessionInv'
    OBVIOUS
  <2>1. SocketTypes /\ Idle /\ WaitInv /\ PastInv /\ GoneInv
    BY SessionTypeParts DEF SessionInv
  <2>2. Change
    BY <2>1, StepChanges
  <2>3. WaitInv' /\ PastInv'
    BY <2>1, <2>2, WaitStep, PastStep
  <2>4. Idle' /\ GoneInv'
    BY <2>1, HeldStep, GoneStep
  <2>5. QED
    BY <2>3, <2>4 DEF SessionInv
<1>3. QED
  BY <1>1, <1>2, SessionType, HeldAlways, PTL DEF Spec

(* A message that says Sending is in one of the two queues or in the hands   *)
(* of the sink actor, and only a session that runs has a queue.              *)
THEOREM SessionSignals == Spec => []SessionSignalsAccounted
<1>1. SessionTypeOK /\ SessionInv => SessionSignalsAccounted
  <2> SUFFICES ASSUME SessionTypeOK, SessionInv PROVE SessionSignalsAccounted
    OBVIOUS
  <2>1. \A m \in Messages : signal[m] = "Sending" <=> Waiting(m)
    BY DEF SessionInv, WaitInv
  <2>2. \A m : (m \in InSession <=> InQueue(m)) /\ (m \in Queued <=> InSink(m))
    BY InQueued DEF InSession, InQueue
  <2>3. to_socket \in Seq(Messages)
    BY SessionTypeParts DEF OwnTypes
  <2>4. InSession \subseteq Messages
    BY <2>3 DEF InSession
  <2>5. ~Running => InSession = {}
    BY DEF SessionInv, GoneInv, InSession
  <2>6. QED
    BY <2>1, <2>2, <2>4, <2>5 DEF SessionSignalsAccounted, Waiting
<1>2. QED
  BY <1>1, SessionType, SessionInvariant, PTL

(* Through both queues, with the session free to end at any step: messages   *)
(* reach the wire in the order of their submission and without a gap, and    *)
(* each signal settles once.                                                 *)
THEOREM SessionImplementsDelivery == Spec => EndToEndDelivery
<1>1. Init => D!Init
  BY DEF Init, SocketInit, D!Init
<1>2. SessionTypeOK /\ SessionInv /\ [Next]_vars => [D!Next]_D!vars
  <2> SUFFICES ASSUME SessionTypeOK, SessionInv, [Next]_vars PROVE [D!Next]_D!vars
    OBVIOUS
  <2>1. SocketTypes /\ Idle /\ WaitInv /\ PastInv
    BY SessionTypeParts DEF SessionInv
  <2>2. Change
    BY <2>1, StepChanges
  <2>3. QED
    BY <2>1, <2>2, ChangeDelivers
<1>3. QED
  BY <1>1, <1>2, SessionType, SessionInvariant, PTL
     DEF Spec, EndToEndDelivery, D!Spec

=============================================================================
