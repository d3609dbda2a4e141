------------------------------- MODULE Client -------------------------------
(* A Client handle and its actor (client.rs): connecting with retries,       *)
(* forwarding the user's messages to the Socket of the current connection,   *)
(* and reconnecting when the extension asks for it.  A Socket is reduced to  *)
(* what its owner sees: one sink queue per connection, which outlives the    *)
(* connection's turn, and the stream and sink result of the current one.     *)
EXTENDS Naturals, Sequences, FiniteSets

CONSTANTS
    Messages,                      \* what the users submit, each once
    Closes,                        \* the messages that are Close frames
    max_initial_connect_attempts,
    max_reconnect_attempts,
    MaxConnections,                \* bound: connections that succeed
    MaxInbound,                    \* bound: items waiting in the stream
    MaxCalls                       \* bound: calls queued at a time

ASSUME ClientAssumption ==
    /\ Closes \subseteq Messages
    /\ max_initial_connect_attempts \in Nat
    /\ max_reconnect_attempts \in Nat
    /\ MaxConnections \in Nat
    /\ MaxInbound \in Nat
    /\ MaxCalls \in Nat

VARIABLES
    actor,         \* where the client task is
    connected,     \* the first connection has been made
    attempts,      \* attempts of the running client_connect
    closed_self,   \* handle_outgoing_msg is about a Close of the user
    to_socket,     \* queue from the handles
    calls,         \* number of calls queued
    handles,       \* what the users hold: "both" senders, only "calls", "none"
    conn,          \* number of the current connection, 0 before the first
    sink,          \* queue of each connection's sink
    sink_open,     \* the connections whose sink actor lives
    sink_result,   \* how the current one's sink actor ended
    result_taken,  \* await_sink_close has consumed that result
    stream,        \* items of the current connection's stream
    stream_over,   \* and whether its end follows them
    signal,        \* MessageSignal of each message
    born,          \* history: the connection a message was submitted on, or 0
    delivered,     \* history: the connection a message was put on, or 0
    close_taken    \* history: a Close of the user has left to_socket

handleVars == <<to_socket, calls, handles>>
sinkVars == <<conn, sink, sink_open>>
streamVars == <<sink_result, result_taken, stream, stream_over>>
socketVars == <<sinkVars, streamVars>>
history == <<born, delivered, close_taken>>
vars == <<actor, connected, attempts, closed_self, handleVars, socketVars,
          signal, history>>

Connections == 1..MaxConnections

(* "drain", "connecting", "on_connect", "on_connect_fail" and "retry_sleep"  *)
(* are client_connect; "handler" is on_text, on_binary or on_call.           *)
ActorStates == {"drain", "connecting", "on_connect", "on_connect_fail",
                "retry_sleep", "select", "handler", "await_sink",
                "on_disconnect", "on_close", "close_sleep", "done"}

ClientFlags ==
    /\ connected \in BOOLEAN
    /\ closed_self \in BOOLEAN
    /\ result_taken \in BOOLEAN
    /\ stream_over \in BOOLEAN
    /\ close_taken \in BOOLEAN

Statuses == {"none", "Sending", "Sent", "Failed"}

ClientTypes ==
    /\ actor \in ActorStates
    /\ attempts \in Nat
    /\ to_socket \in Seq(Messages)
    /\ calls \in 0..MaxCalls
    /\ handles \in {"both", "calls", "none"}
    /\ conn \in 0..MaxConnections
    /\ sink \in [Connections -> Seq(Messages)]
    /\ sink_open \in SUBSET Connections
    /\ sink_result \in {"none", "ok", "lost", "other"}
    /\ stream \in Seq({"data", "close", "error"})
    /\ signal \in [Messages -> Statuses]
    /\ born \in [Messages -> 0..MaxConnections]
    /\ delivered \in [Messages -> 0..MaxConnections]

ClientTypeOK == ClientFlags /\ ClientTypes

(* connect_with has spawned the task, which begins with client_connect.      *)
Init ==
    /\ actor = "drain"
    /\ connected = FALSE
    /\ attempts = 0
    /\ closed_self = FALSE
    /\ to_socket = <<>>
    /\ calls = 0
    /\ handles = "both"
    /\ conn = 0
    /\ sink = [e \in Connections |-> <<>>]
    /\ sink_open = {}
    /\ sink_result = "none"
    /\ result_taken = FALSE
    /\ stream = <<>>
    /\ stream_over = FALSE
    /\ signal = [m \in Messages |-> "none"]
    /\ born = [m \in Messages |-> 0]
    /\ delivered = [m \in Messages |-> 0]
    /\ close_taken = FALSE

-----------------------------------------------------------------------------
(* The channels are async_channels: without a receiver sends fail, and what  *)
(* is queued is dropped with the last sender.                                *)

Contents(q) == {q[i] : i \in 1..Len(q)}

MutDropped(lost) == signal

(* impl Drop for InMessage and InRawMessage.                                 *)
Dropped(lost) ==
    [m \in Messages |-> IF m \in lost THEN "Failed" ELSE signal[m]]

(* The Socket is dropped with what its stream still holds.                   *)
DropSocket ==
    /\ sink_result' = "none"
    /\ result_taken' = FALSE
    /\ stream' = <<>>
    /\ stream_over' = FALSE

(* The task is over: its receivers are dropped with `left` in to_socket.     *)
Finish(left, lost) ==
    /\ actor' = "done"
    /\ attempts' = 0
    /\ closed_self' = FALSE
    /\ DropSocket
    /\ IF handles = "both"
       THEN to_socket' = left /\ signal' = Dropped(lost)
       ELSE to_socket' = <<>> /\ signal' = Dropped(lost \cup Contents(left))
    /\ calls' = IF handles = "none" THEN 0 ELSE calls

(* ... for any reason but a message it has just taken.                       *)
Quit ==
    /\ Finish(to_socket, {})
    /\ UNCHANGED <<connected, handles, sinkVars, history>>

(* The task only moves on.                                                   *)
Goto(next) ==
    /\ actor' = next
    /\ UNCHANGED <<connected, attempts, closed_self, handleVars, socketVars,
                   signal, history>>

-----------------------------------------------------------------------------
(* client_connect.                                                           *)

MutDrained == to_socket = <<>> \/ attempts = 0

(* The loop over try_recv ends when the queue is empty.                      *)
Drained == to_socket = <<>>

(* A message that is found there is discarded.                               *)
Discard(m) ==
    /\ actor = "drain"
    /\ ~Drained
    /\ m = Head(to_socket)
    /\ m \notin Closes
    /\ to_socket' = Tail(to_socket)
    /\ signal' = Dropped({m})
    /\ UNCHANGED <<actor, connected, attempts, closed_self, calls, handles,
                   socketVars, history>>

(* The client closes itself while connecting.                                *)
CloseWhileConnecting(m) ==
    /\ actor = "drain"
    /\ ~Drained
    /\ m = Head(to_socket)
    /\ m \in Closes
    /\ Finish(Tail(to_socket), {m})
    /\ close_taken' = TRUE
    /\ UNCHANGED <<connected, handles, sinkVars, born, delivered>>

StartAttempt ==
    /\ actor = "drain"
    /\ Drained
    /\ handles = "both"
    /\ actor' = "connecting"
    /\ attempts' = attempts + 1
    /\ UNCHANGED <<connected, closed_self, handleVars, socketVars, signal, history>>

(* All senders are gone: an error.                                           *)
NobodyLeft ==
    /\ actor = "drain"
    /\ Drained
    /\ handles # "both"
    /\ Quit

(* The connector's answer; the bound on connections is one on its successes. *)
ConnectorConnects ==
    /\ actor = "connecting"
    /\ conn < MaxConnections
    /\ Goto("on_connect")

ConnectorFails ==
    /\ actor = "connecting"
    /\ Goto("on_connect_fail")

(* on_connect returns Ok: a new Socket.                                      *)
NewSocket ==
    /\ actor = "on_connect"
    /\ actor' = "select"
    /\ connected' = TRUE
    /\ conn' = conn + 1
    /\ sink_open' = sink_open \cup {conn + 1}
    /\ attempts' = 0
    /\ UNCHANGED <<closed_self, handleVars, sink, streamVars, signal, history>>

max_attempts ==
    IF connected THEN max_reconnect_attempts ELSE max_initial_connect_attempts

MutAttemptsLeft == attempts <= max_attempts

AttemptsLeft == attempts < max_attempts

(* on_connect_fail asks for a reconnection, which may be one too many.       *)
Retry ==
    /\ actor = "on_connect_fail"
    /\ IF AttemptsLeft THEN Goto("retry_sleep") ELSE Quit

RetrySleepElapsed ==
    /\ actor = "retry_sleep"
    /\ Goto("drain")

-----------------------------------------------------------------------------
(* ClientActor::run and its handlers.                                        *)

MutClosesClient(m) == FALSE

ClosesClient(m) == m \in Closes

(* The head of to_socket goes to the sink.  A Close ends the actor.          *)
Forward(m) ==
    /\ actor = "select"
    /\ to_socket # <<>>
    /\ m = Head(to_socket)
    /\ conn \in sink_open
    /\ sink' = [sink EXCEPT ![conn] = Append(@, m)]
    /\ delivered' = [delivered EXCEPT ![m] = conn]
    /\ close_taken' = (m \in Closes)
    /\ IF ClosesClient(m)
       THEN Finish(Tail(to_socket), {})
       ELSE /\ to_socket' = Tail(to_socket)
            /\ UNCHANGED <<actor, attempts, closed_self, calls, streamVars, signal>>
    /\ UNCHANGED <<connected, handles, conn, sink_open, born>>

(* The sink is closed: the message fails, and the reason is asked for.       *)
ForwardFails(m) ==
    /\ actor = "select"
    /\ to_socket # <<>>
    /\ m = Head(to_socket)
    /\ conn \notin sink_open
    /\ to_socket' = Tail(to_socket)
    /\ signal' = Dropped({m})
    /\ actor' = "await_sink"
    /\ closed_self' = (m \in Closes)
    /\ close_taken' = (m \in Closes)
    /\ UNCHANGED <<connected, attempts, calls, handles, socketVars, born,
                   delivered>>

(* The result of the sink can be had once, after the stream has ended too;   *)
(* asked again, await_sink_close says AlreadyClosed.  "lost" stands for the  *)
(* errors that may be cured by reconnecting.                                 *)
SinkResult ==
    IF result_taken THEN "lost" ELSE sink_result

MutGivesUp == SinkResult = "other"

(* Only a message that is not a Close goes on to on_disconnect or an error.  *)
GivesUp == closed_self \/ SinkResult = "other"

MutSinkReported == conn \notin sink_open

(* The supervisor joins the stream actor, then the sink actor.               *)
SinkReported == stream_over /\ conn \notin sink_open

(* await_sink_close, after which the message that failed is dropped.         *)
AwaitSinkClose ==
    /\ actor = "await_sink"
    /\ result_taken \/ SinkReported
    /\ IF GivesUp
       THEN Finish(to_socket, {})
       ELSE /\ actor' = IF SinkResult = "ok" THEN "select" ELSE "on_disconnect"
            /\ result_taken' = TRUE
            /\ closed_self' = FALSE
            /\ UNCHANGED <<attempts, to_socket, signal, calls, sink_result,
                           stream, stream_over>>
    /\ UNCHANGED <<connected, handles, sinkVars, history>>

MutSendersGone == FALSE

(* recv fails: the senders of messages, or of calls, are gone.               *)
SendersGone ==
    \/ to_socket = <<>> /\ handles # "both"
    \/ calls = 0 /\ handles = "none"

Break ==
    /\ actor = "select"
    /\ SendersGone
    /\ Quit

CallWaiting == calls > 0

TakeCall ==
    /\ actor = "select"
    /\ CallWaiting
    /\ calls' = calls - 1
    /\ actor' = "handler"
    /\ UNCHANGED <<connected, attempts, closed_self, to_socket, handles,
                   socketVars, signal, history>>

(* What the stream returns decides which callback starts.                    *)
TakeItem ==
    /\ actor = "select"
    /\ stream # <<>>
    /\ stream' = Tail(stream)
    /\ actor' = CASE Head(stream) = "data"  -> "handler"
                  [] Head(stream) = "close" -> "on_close"
                  [] Head(stream) = "error" -> "on_disconnect"
    /\ UNCHANGED <<connected, attempts, closed_self, handleVars, conn, sink,
                   sink_open, sink_result, result_taken, stream_over, signal,
                   history>>

MutAtEnd == FALSE

(* recv returns None.                                                        *)
AtEnd == stream = <<>> /\ stream_over

TakeEnd ==
    /\ actor = "select"
    /\ AtEnd
    /\ Goto("on_disconnect")

HandlerOk ==
    /\ actor = "handler"
    /\ Goto("select")

(* on_disconnect or on_close asks for a reconnection, the latter after a     *)
(* sleep.                                                                    *)
Reconnect ==
    /\ actor \in {"on_disconnect", "on_close"}
    /\ actor' = IF actor = "on_close" THEN "close_sleep" ELSE "drain"
    /\ DropSocket
    /\ UNCHANGED <<connected, attempts, closed_self, handleVars, sinkVars,
                   signal, history>>

CloseSleepElapsed ==
    /\ actor = "close_sleep"
    /\ Goto("drain")

(* The callback says Close or returns an error, or panics.                   *)
CallbackCloses ==
    /\ actor \in {"on_disconnect", "on_close", "on_connect_fail", "on_connect",
                  "handler"}
    /\ Quit

-----------------------------------------------------------------------------
(* The handles.                                                              *)

Up == actor \in {"select", "handler", "await_sink"}

(* Client::text, binary and close.                                           *)
Send(m) ==
    /\ handles = "both"
    /\ signal[m] = "none"
    /\ IF actor = "done"
       THEN /\ signal' = Dropped({m})
            /\ UNCHANGED to_socket
       ELSE /\ signal' = [signal EXCEPT ![m] = "Sending"]
            /\ to_socket' = Append(to_socket, m)
    /\ born' = [born EXCEPT ![m] = IF Up THEN conn ELSE 0]
    /\ UNCHANGED <<actor, connected, attempts, closed_self, calls, handles,
                   socketVars, delivered, close_taken>>

(* Client::call and call_with; a dead actor's channel refuses the call.      *)
Call ==
    /\ handles # "none"
    /\ actor # "done"
    /\ calls < MaxCalls
    /\ calls' = calls + 1
    /\ UNCHANGED <<actor, connected, attempts, closed_self, to_socket, handles,
                   socketVars, signal, history>>

(* The last Client is turned into its Sender of calls, or the last handle is *)
(* dropped, and with it what a dead actor has left in the queues.            *)
DropHandles(left) ==
    /\ handles # "none"
    /\ handles # left
    /\ left \in {"calls", "none"}
    /\ handles' = left
    /\ IF actor = "done"
       THEN to_socket' = <<>> /\ signal' = Dropped(Contents(to_socket))
       ELSE UNCHANGED <<to_socket, signal>>
    /\ calls' = IF actor = "done" /\ left = "none" THEN 0 ELSE calls
    /\ UNCHANGED <<actor, connected, attempts, closed_self, socketVars, history>>

-----------------------------------------------------------------------------
(* The sockets, as module Socket lets their owner see them.                  *)

Held(e) == e = conn /\ (Up \/ actor \in {"on_disconnect", "on_close"})

(* The sink actor of any connection goes on with what is queued.             *)
SinkSends(e) ==
    /\ e \in sink_open
    /\ sink[e] # <<>>
    /\ signal' = [signal EXCEPT ![Head(sink[e])] = "Sent"]
    /\ sink' = [sink EXCEPT ![e] = Tail(@)]
    /\ UNCHANGED <<actor, connected, attempts, closed_self, handleVars, conn,
                   sink_open, sink_result, result_taken, stream, stream_over,
                   history>>

(* The messages `lost` fail and leave `rest` in the queue of e.              *)
SinkLoses(e, lost, rest) ==
    /\ signal' = Dropped(lost)
    /\ sink' = [sink EXCEPT ![e] = rest]

(* The queue of a closed sink is dropped with the last Sink: at once, or     *)
(* when the heartbeat's is.                                                  *)
SinkKeeps(e) ==
    \/ UNCHANGED <<signal, sink>>
    \/ ~Held(e) /\ SinkLoses(e, Contents(sink[e]), <<>>)

(* A send fails, of a queued message or of a frame of the heartbeat.         *)
SinkFails(e) ==
    /\ e \in sink_open
    /\ sink_open' = sink_open \ {e}
    /\ \/ sink[e] # <<>> /\ SinkLoses(e, {Head(sink[e])}, Tail(sink[e]))
       \/ SinkKeeps(e)
    /\ IF Held(e) THEN \E res \in {"lost", "other"} : sink_result' = res
                  ELSE UNCHANGED sink_result
    /\ UNCHANGED <<actor, connected, attempts, closed_self, handleVars, conn,
                   result_taken, stream, stream_over, history>>

(* The supervisor aborts the sink actor after the end of the stream; one     *)
(* whose Socket was dropped may also find all its senders gone.              *)
SinkStops(e) ==
    /\ e \in sink_open
    /\ Held(e) => stream_over
    /\ sink_open' = sink_open \ {e}
    /\ SinkKeeps(e)
    /\ sink_result' = IF Held(e) THEN "ok" ELSE sink_result
    /\ UNCHANGED <<actor, connected, attempts, closed_self, handleVars, conn,
                   result_taken, stream, stream_over, history>>

SinkDrops(e) ==
    /\ e \notin sink_open
    /\ ~Held(e)
    /\ sink[e] # <<>>
    /\ SinkLoses(e, Contents(sink[e]), <<>>)
    /\ UNCHANGED <<actor, connected, attempts, closed_self, handleVars, conn,
                   sink_open, sink_result, result_taken, stream, stream_over,
                   history>>

StreamYields(item) ==
    /\ Held(conn)
    /\ ~stream_over
    /\ Len(stream) < MaxInbound
    /\ stream' = Append(stream, item)
    /\ UNCHANGED <<actor, connected, attempts, closed_self, handleVars, conn,
                   sink, sink_open, sink_result, result_taken, stream_over,
                   signal, history>>

StreamEnds ==
    /\ Held(conn)
    /\ ~stream_over
    /\ stream_over' = TRUE
    /\ UNCHANGED <<actor, connected, attempts, closed_self, handleVars, conn,
                   sink, sink_open, sink_result, result_taken, stream, signal,
                   history>>

-----------------------------------------------------------------------------
Draining ==
    \/ \E m \in Messages : Discard(m) \/ CloseWhileConnecting(m)
    \/ StartAttempt \/ NobodyLeft

Connector == ConnectorConnects \/ ConnectorFails

Callbacks == NewSocket \/ Retry \/ HandlerOk \/ Reconnect \/ CallbackCloses

Sleeps == RetrySleepElapsed \/ CloseSleepElapsed

Outgoing == \E m \in Messages : Forward(m) \/ ForwardFails(m)

Incoming == TakeItem \/ TakeEnd

Users ==
    \/ \E m \in Messages : Send(m)
    \/ Call
    \/ \E left \in {"calls", "none"} : DropHandles(left)

Sockets ==
    \/ \E e \in Connections : SinkSends(e) \/ SinkFails(e) \/ SinkStops(e) \/ SinkDrops(e)
    \/ \E item \in {"data", "close", "error"} : StreamYields(item)
    \/ StreamEnds

Next ==
    \/ Draining \/ Connector \/ Callbacks \/ Sleeps
    \/ Outgoing \/ Incoming \/ AwaitSinkClose \/ Break \/ TakeCall
    \/ Users \/ Sockets

Spec == Init /\ [][Next]_vars

(* The runtime polls the task; futures::select! has no favourite, so a       *)
(* branch that is ready again and again is taken.  Callbacks return, the     *)
(* connector answers, sleeps elapse.  As in Socket a sink goes on as long as *)
(* it can.  Nothing makes a stream yield or end, or a user act.              *)
Fairness ==
    /\ WF_vars(Draining)
    /\ WF_vars(Connector)
    /\ WF_vars(Callbacks)
    /\ WF_vars(Sleeps)
    /\ SF_vars(Outgoing)
    /\ SF_vars(Incoming)
    /\ SF_vars(Break)
    /\ SF_vars(TakeCall)
    /\ WF_vars(AwaitSinkClose)
    /\ \A e \in Connections : WF_vars(SinkSends(e) \/ SinkDrops(e))

FairSpec == Spec /\ Fairness

(* The peer also hangs up on a client that has stopped sending.              *)
PeerFairness == WF_vars(StreamEnds /\ conn \notin sink_open)

-----------------------------------------------------------------------------
(* Properties.                                                               *)

(* Every message whose signal says Sending is in the client's queue or in a  *)
(* sink's, and the other way round: reconnecting loses none without a word.  *)
ClientSignalsAccounted ==
    \A m \in Messages :
        signal[m] = "Sending" <=>
            \/ m \in Contents(to_socket)
            \/ \E e \in Connections : m \in Contents(sink[e])

(* client.rs promises that a message is not sent "across" a reconnect cycle: *)
(* what was submitted on one connection, before on_disconnect or on_close    *)
(* starts, never gets onto a later one.                                      *)
NotAcrossReconnects ==
    \A m \in Messages :
        born[m] # 0 /\ delivered[m] # 0 => delivered[m] = born[m]

(* Once the user's Close has left the queue, from wherever it was taken and  *)
(* whatever the sink says, the client never connects again.                  *)
CloseIsFinal == close_taken => actor \in {"await_sink", "done"}

(* client_connect stays within the configured number of attempts.  The first *)
(* attempt is made before they are counted, even where none is configured.   *)
AttemptsWithinMaximum ==
    attempts <= IF max_attempts = 0 THEN 1 ELSE max_attempts

(* Each connection's socket, from the time before its connection on; of the  *)
(* messages those that were put on it.                                       *)
QueueOn(e) == IF e \in sink_open THEN sink[e] ELSE <<>>

SignalsOn(e) ==
    [m \in Messages |-> IF delivered[m] = e THEN signal[m] ELSE "none"]

Owned(e) == INSTANCE OwnedSocket WITH
    queue <- QueueOn(e),
    signal <- SignalsOn(e),
    open <- e > conn \/ e \in sink_open,
    result <- IF ~Held(e) THEN "none"
              ELSE IF sink_result \in {"lost", "other"} THEN "failed" ELSE sink_result,
    sink_held <- e > conn \/ Held(e),
    stream_held <- e > conn \/ Held(e),
    items <- IF Held(e) THEN stream ELSE <<>>,
    over <- Held(e) /\ stream_over,
    told <- Held(e) /\ result_taken

SocketsFresh == \A e \in Connections : Owned(e)!Init

SocketsStep == \A e \in Connections : [Owned(e)!Next]_(Owned(e)!vars)

(* The client treats every socket as its owner may, and its sockets do no    *)
(* more than a Socket does.                                                  *)
UsesSockets == SocketsFresh /\ [][SocketsStep]_vars

(* A connection that is over is noticed, however busy the handles are.       *)
LossNoticed == stream_over /\ Up ~> ~Up

(* Client::close ends the client whatever it is doing: connecting, sleeping, *)
(* in a callback, connected to a peer that hangs up after a failed send.     *)
CloseEndsClient ==
    Contents(to_socket) \cap Closes # {} ~> actor = "done"

(* A client without handles ends.                                            *)
OrphanEnds == handles = "none" ~> actor = "done"

(* client.rs, on text: "Returns a `MessageSignal` which will report if       *)
(* sending succeeds/fails."                                                  *)
SignalsReport ==
    \A m \in Messages : signal[m] = "Sending" ~> signal[m] # "Sending"

=============================================================================
