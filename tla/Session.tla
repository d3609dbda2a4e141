------------------------------ MODULE Session -------------------------------
(* A Session handle and its SessionActor (session.rs), as the owner of the   *)
(* Socket of module Socket.  A message travels through two queues: the       *)
(* session's own and then the sink's.  The actor polls its three sources in  *)
(* order, and more may arrive between two polls.                             *)
EXTENDS Socket

CONSTANT MaxCalls    \* bound: calls queued at a time

ASSUME SessionAssumption == MaxCalls \in Nat

VARIABLES
    to_socket,    \* queue of messages from the Session handles
    calls,        \* number of calls queued
    session,      \* what SessionActor::run is doing
    result,       \* what run returned
    close_waits,  \* history: a Close of ours waits in to_socket
    overtaken     \* history: handlers started while it waited

sessionVars == <<to_socket, calls, session, result, close_waits, overtaken>>
vars == <<socketVars, sessionVars>>

(* "to_socket", "calls" and "socket" are the polls of the biased select, in  *)
(* this order; "parked" waits for any of the three.                          *)
SessionStates == {"to_socket", "calls", "socket", "parked", "handler",
                  "dropped", "reported"}

SessionTypeOK ==
    /\ SocketTypeOK
    /\ to_socket \in Seq(Messages)
    /\ calls \in 0..MaxCalls
    /\ session \in SessionStates
    /\ result \in {"running", "own_close", "peer_close", "none", "error"}
    /\ close_waits \in BOOLEAN
    /\ overtaken \in Nat

Init ==
    /\ SocketInit
    /\ to_socket = <<>>
    /\ calls = 0
    /\ session = "to_socket"
    /\ result = "running"
    /\ close_waits = FALSE
    /\ overtaken = 0

(* The actor holds the receivers and the Socket until run returns.           *)
Running == session \notin {"dropped", "reported"}

-----------------------------------------------------------------------------
(* The handles.                                                              *)

MutEnqueue(q, m) == IF m \in Closes THEN <<m>> \o q ELSE Append(q, m)

Enqueue(q, m) == Append(q, m)

(* Session::text, binary and close: all of them queue an InMessage.  When    *)
(* the actor is gone the send fails and the message is dropped.              *)
Send(m) ==
    /\ signal[m] = "none"
    /\ submitted' = Append(submitted, m)
    /\ IF Running
       THEN /\ to_socket' = Enqueue(to_socket, m)
            /\ signal' = [signal EXCEPT ![m] = "Sending"]
            /\ close_waits' = (close_waits \/ m \in Closes)
       ELSE /\ signal' = [signal EXCEPT ![m] = "Failed"]
            /\ UNCHANGED <<to_socket, close_waits>>
    /\ UNCHANGED <<sinkVars, streamVars, transport, wire, tasks, calls,
                   session, result, overtaken>>

(* Session::call and call_with; a dead actor's channel refuses the call.     *)
Call ==
    /\ Running
    /\ calls < MaxCalls
    /\ calls' = calls + 1
    /\ UNCHANGED <<socketVars, to_socket, session, result, close_waits, overtaken>>

-----------------------------------------------------------------------------
(* SessionActor::run.                                                        *)

MutUnsent == {}

(* The messages that the tokio channel drops with its receiver.              *)
Unsent == {to_socket[i] : i \in 1..Len(to_socket)}

(* run returns `res`, and its actor is dropped before the result goes any    *)
(* further: the extension, both receivers with all they hold, the Socket     *)
(* with its Sink and its Stream.                                             *)
LeaveRun(res) ==
    /\ session' = "dropped"
    /\ result' = res
    /\ to_socket' = <<>>
    /\ calls' = 0
    /\ close_waits' = FALSE
    /\ sink_held' = FALSE
    /\ stream_held' = FALSE
    /\ UNCHANGED <<sink_actor, inflight, sink_abort, sink_result, stream_actor,
                   transport, submitted, wire, tasks, overtaken>>

Return(res) ==
    /\ LeaveRun(res)
    /\ Release(sink_actor, FALSE, heartbeat, Dropped(signal, Unsent))

(* The head of to_socket goes to the sink, and the actor loops.              *)
Forward(m) ==
    /\ session = "to_socket"
    /\ to_socket # <<>>
    /\ Head(to_socket) = m
    /\ m \notin Closes
    /\ SinkOpen
    /\ sink' = Append(sink, m)
    /\ to_socket' = Tail(to_socket)
    /\ UNCHANGED <<sink_actor, inflight, sink_held, sink_abort, sink_result,
                   streamVars, transport, messages, tasks, calls, session,
                   result, close_waits, overtaken>>

(* The sink is closed: the message fails, and without a Close to report the  *)
(* actor returns Ok(None).                                                   *)
ForwardFails(m) ==
    /\ session = "to_socket"
    /\ to_socket # <<>>
    /\ Head(to_socket) = m
    /\ m \notin Closes
    /\ ~SinkOpen
    /\ Return("none")
    /\ UNCHANGED stream

MutAfterClose(m) ==
    /\ sink' = Append(sink, m)
    /\ to_socket' = Tail(to_socket)
    /\ close_waits' = FALSE
    /\ UNCHANGED <<sink_actor, inflight, sink_held, sink_abort, sink_result,
                   streamVars, transport, messages, tasks, calls, session,
                   result, overtaken>>

(* A Close of the application is sent, and run returns with its frame.       *)
AfterClose(m) ==
    /\ LeaveRun("own_close")
    /\ sink' = Append(sink, m)
    /\ signal' = Dropped(signal, Unsent \ {m})
    /\ UNCHANGED stream

(* It returns so even if the sink was closed.                                *)
ForwardClose(m) ==
    /\ session = "to_socket"
    /\ to_socket # <<>>
    /\ Head(to_socket) = m
    /\ m \in Closes
    /\ IF SinkOpen
       THEN AfterClose(m)
       ELSE Return("own_close") /\ UNCHANGED stream

MutFirstPoll == "calls"

(* Where each turn of the biased select begins.                              *)
FirstPoll == "to_socket"

(* A poll that finds its channel empty moves on to the next one.             *)
Poll(at, empty, next) ==
    /\ session = at
    /\ empty
    /\ session' = next
    /\ UNCHANGED <<socketVars, to_socket, calls, result, close_waits, overtaken>>

MutStreamOver == FALSE

(* Socket::recv returns None.                                                *)
StreamOver == stream = <<>> /\ stream_actor = "ended"

NothingToRecv == stream = <<>> /\ ~StreamOver

PollToSocket == Poll("to_socket", to_socket = <<>>, "calls")
PollCalls == Poll("calls", calls = 0, "socket")
PollSocket == Poll("socket", NothingToRecv, "parked")

(* Any of the three wakes the task.                                          *)
Wake == Poll("parked", to_socket # <<>> \/ calls > 0 \/ ~NothingToRecv, FirstPoll)

(* A handler begins; it counts as overtaking if a Close of ours is waiting.  *)
StartHandler ==
    /\ session' = "handler"
    /\ overtaken' = IF close_waits THEN overtaken + 1 ELSE overtaken
    /\ UNCHANGED <<to_socket, result, close_waits>>

(* on_call.                                                                  *)
TakeCall ==
    /\ session = "calls"
    /\ calls > 0
    /\ calls' = calls - 1
    /\ StartHandler
    /\ UNCHANGED socketVars

(* on_text and on_binary.                                                    *)
TakeData ==
    /\ session = "socket"
    /\ stream # <<>>
    /\ Head(stream) = "data"
    /\ Recv
    /\ StartHandler
    /\ UNCHANGED calls

(* An error from the connection is logged, and nothing else.                 *)
TakeError ==
    /\ session = "socket"
    /\ stream # <<>>
    /\ Head(stream) = "error"
    /\ Recv
    /\ session' = FirstPoll
    /\ UNCHANGED <<to_socket, calls, result, close_waits, overtaken>>

(* Closed by the client.                                                     *)
TakeClose ==
    /\ session = "socket"
    /\ stream # <<>>
    /\ Head(stream) = "close"
    /\ stream' = Tail(stream)
    /\ Return("peer_close")

(* The Stream is over: break, and Ok(None).                                  *)
TakeEnd ==
    /\ session = "socket"
    /\ StreamOver
    /\ Return("none")
    /\ UNCHANGED stream

HandlerOk ==
    /\ session = "handler"
    /\ session' = FirstPoll
    /\ UNCHANGED <<socketVars, to_socket, calls, result, close_waits, overtaken>>

(* The handler returns an error or panics.                                   *)
HandlerErr ==
    /\ session = "handler"
    /\ Return("error")
    /\ UNCHANGED stream

(* The task of Session::create passes the result on to await_close.          *)
Report ==
    /\ session = "dropped"
    /\ session' = "reported"
    /\ UNCHANGED <<socketVars, to_socket, calls, result, close_waits, overtaken>>

-----------------------------------------------------------------------------
Outgoing == \E m \in Messages : Forward(m) \/ ForwardFails(m) \/ ForwardClose(m)

Handlers == HandlerOk \/ HandlerErr

Actor ==
    \/ Outgoing \/ PollToSocket \/ PollCalls \/ PollSocket \/ Wake
    \/ TakeCall \/ TakeData \/ TakeError \/ TakeClose \/ TakeEnd \/ Report

Below == TransportNext /\ UNCHANGED sessionVars

Next ==
    \/ \E m \in Messages : Send(m)
    \/ Call
    \/ Actor
    \/ Handlers
    \/ Below

Spec == Init /\ [][Next]_vars

(* The session task is polled, its handlers return, and the tasks below are  *)
(* scheduled as in Socket.  Nobody has to send, call or answer.              *)
SessionFairness ==
    /\ WF_vars(Actor)
    /\ WF_vars(Handlers)
    /\ WF_vars(SinkStep /\ UNCHANGED sessionVars)
    /\ WF_vars(StreamStep /\ UNCHANGED sessionVars)
    /\ WF_vars(SupervisorStep /\ UNCHANGED sessionVars)
    /\ WF_vars(HeartbeatAborted /\ UNCHANGED sessionVars)

FairSpec == Spec /\ SessionFairness

(* A peer that follows the protocol.                                         *)
PeerFair == WF_vars(PeerAnswersClose /\ UNCHANGED sessionVars)

-----------------------------------------------------------------------------
(* Properties.                                                               *)

InSession == {to_socket[i] : i \in 1..Len(to_socket)}

(* A message whose signal says Sending is in the session's queue, in the     *)
(* sink's queue or in the sink actor's hands; once the session is over it is *)
(* not in the session's any more (the drop precedes the report).             *)
SessionSignalsAccounted ==
    /\ \A m \in Messages :
          signal[m] = "Sending" => m \in InSession \cup Queued \cup {inflight}
    /\ \A m \in InSession \cup (Queued \cap Messages) : signal[m] = "Sending"
    /\ ~Running => InSession = {}

(* Through both queues: the order of text, binary and close is the order on  *)
(* the wire, without a gap, and each MessageSignal settles once.             *)
EndToEndDelivery == D!Spec

(* The task as others see it: before the poll of to_socket, past it, in a    *)
(* handler, or over.                                                         *)
Seen ==
    CASE session \in {"to_socket", "parked"} -> "select"
      [] session \in {"calls", "socket"} -> "polled"
      [] session = "handler" -> "handler"
      [] OTHER -> "over"

Life == INSTANCE SessionLife WITH phase <- Seen, closing <- close_waits

(* The task and its queues do what the server counts on: a Close that a poll *)
(* finds is the last thing it does, one that arrives behind the poll waits   *)
(* for one handler at most, and only the task ends the session.              *)
LivesAs == Life!Spec

(* The select is biased to outgoing messages: after Session::close is called,*)
(* at most one more handler starts before the Close is on its way, however   *)
(* many calls and messages keep coming.                                      *)
CloseOvertakenOnce == overtaken <= 1

(* Nothing of the application follows its Close to the sink, and the session *)
(* that sent it keeps no hold on the socket.                                 *)
NothingBehindClose ==
    \A i \in 1..Len(sink) :
        sink[i] \in Closes =>
            /\ ~sink_held /\ ~stream_held
            /\ \A j \in (i + 1)..Len(sink) : sink[j] \notin Messages

(* Session::close ends the session: its result is reported, whatever the     *)
(* peer and the socket do.                                                   *)
CloseEndsSession == close_waits ~> session = "reported"

(* The end of the socket's stream ends the session, provided that calls do   *)
(* not keep coming: the biased select reads the socket only when it finds no *)
(* call queued.                                                              *)
StreamEndEndsSession ==
    <>[](calls = 0) => (stream_actor = "ended" ~> session = "reported")

(* With a peer that answers a Close, a session that closes itself or is      *)
(* closed by its peer leaves no task of its socket behind, and no message    *)
(* without a final status.                                                   *)
ClosedSessionReleasesSocket ==
    PeerFair =>
        (result \in {"own_close", "peer_close"} ~>
            /\ Disconnected /\ heartbeat = "ended"
            /\ \A m \in Messages : signal[m] # "Sending")

=============================================================================
