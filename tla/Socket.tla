------------------------------- MODULE Socket -------------------------------
(* One Socket (socket.rs): the sink actor, the stream actor, the heartbeat   *)
(* and the supervisor that Socket::new spawns around a WebSocket transport,  *)
(* the two channels between them and the owner of the Socket, and the        *)
(* signals of the owner's messages.  Time is abstracted: the heartbeat may   *)
(* ping or give up at any moment.                                            *)
EXTENDS Naturals, Sequences, FiniteSets

CONSTANTS
    Messages,    \* what the owner submits, each once
    Closes,      \* the messages that are Close frames
    MaxPings,    \* bound: pings queued in the sink at a time
    MaxInbound,  \* bound: frames of the peer on their way to the owner, its
                 \* Close and a final error apart
    NoFrame      \* the sink actor is sending nothing

ASSUME SocketAssumption ==
    /\ Closes \subseteq Messages
    /\ MaxPings \in Nat
    /\ MaxInbound \in Nat
    /\ NoFrame \notin Messages
    /\ Messages \cap {"ping", "timeout_close"} = {}
    /\ NoFrame \notin {"ping", "timeout_close"}

VARIABLES
    sink,         \* queue of the channel into the sink actor
    sink_actor,   \* "recv", "sending" or "ended"
    inflight,     \* the frame the sink actor is sending
    sink_held,    \* the owner holds a Sink
    stream,       \* queue of the channel out of the stream actor
    stream_actor, \* "run" or "ended"
    stream_held,  \* the owner holds the Stream
    heartbeat,    \* "run" or "ended"; a running one holds a Sink
    sink_abort,   \* a message waits in the sink's abort channel
    sink_result,  \* what SinkActor::run returned, "none" while it runs
    hearbeat_abort,
    supervisor,   \* "await_stream", "await_sink" or "done"
    closer,       \* await_sink_close: "idle", "waiting" or "returned"
    link,         \* the transport below: "open" or "broken"
    close_sent,   \* the transport has sent a Close of ours
    close_read,   \* the transport has read the peer's Close
    inbound,      \* frames of the peer that the transport has not returned
    submitted,    \* history: the owner's messages in order of submission
    signal,       \* MessageSignal of each of them
    wire          \* history: those handed to the transport, in order

sinkVars == <<sink, sink_actor, inflight, sink_held, sink_abort, sink_result>>
streamVars == <<stream, stream_actor, stream_held>>
transport == <<link, close_sent, close_read, inbound>>
messages == <<submitted, signal, wire>>
tasks == <<heartbeat, hearbeat_abort, supervisor, closer>>
socketVars == <<sinkVars, streamVars, transport, messages, tasks>>

(* What the heartbeat itself sends.                                          *)
HeartbeatFrames == {"ping", "timeout_close"}
Frames == Messages \cup HeartbeatFrames

IsClose(f) == f \in Closes \/ f = "timeout_close"

SocketTypes ==
    /\ sink \in Seq(Frames)
    /\ sink_actor \in {"recv", "sending", "ended"}
    /\ sink_result \in {"none", "ok", "failed"}
    /\ inflight \in Frames \cup {NoFrame}
    /\ stream \in Seq({"data", "close", "error"})
    /\ stream_actor \in {"run", "ended"}
    /\ heartbeat \in {"run", "ended"}
    /\ supervisor \in {"await_stream", "await_sink", "done"}
    /\ closer \in {"idle", "waiting", "returned"}
    /\ link \in {"open", "broken"}
    /\ inbound \in Seq({"data", "control", "close", "error"})
    /\ submitted \in Seq(Messages)
    /\ signal \in [Messages -> {"none", "Sending", "Sent", "Failed"}]
    /\ wire \in Seq(Messages)

SocketFlags ==
    /\ sink_held \in BOOLEAN
    /\ sink_abort \in BOOLEAN
    /\ stream_held \in BOOLEAN
    /\ hearbeat_abort \in BOOLEAN
    /\ close_sent \in BOOLEAN
    /\ close_read \in BOOLEAN

SocketTypeOK == SocketTypes /\ SocketFlags

(* Socket::new on a transport whose handshake is over.                       *)
SocketInit ==
    /\ sink = <<>>
    /\ sink_actor = "recv"
    /\ inflight = NoFrame
    /\ sink_held = TRUE
    /\ sink_abort = FALSE
    /\ sink_result = "none"
    /\ stream = <<>>
    /\ stream_actor = "run"
    /\ stream_held = TRUE
    /\ heartbeat = "run"
    /\ hearbeat_abort = FALSE
    /\ supervisor = "await_stream"
    /\ closer = "idle"
    /\ link = "open"
    /\ close_sent = FALSE
    /\ close_read = FALSE
    /\ inbound = <<>>
    /\ submitted = <<>>
    /\ signal = [m \in Messages |-> "none"]
    /\ wire = <<>>

-----------------------------------------------------------------------------
(* The channel into the sink.  It is an async_channel: when its receiver is  *)
(* dropped, sends fail at once, but what is queued is only dropped with the  *)
(* last Sink; a message that is dropped unsent sets its signal to Failed.    *)

SinkOpen == sink_actor # "ended"

Queued == {sink[i] : i \in 1..Len(sink)}

(* Setting the signals of the dropped messages, impl Drop for InRawMessage.  *)
MutDropped(old, frames) == old

Dropped(old, frames) ==
    [m \in Messages |-> IF m \in frames THEN "Failed" ELSE old[m]]

(* The queue after a step that leaves a sink actor in state `actor`, an      *)
(* owner's Sink if `held` and a heartbeat in state `beat`; `old` is what the *)
(* step itself makes of the signals.                                         *)
Release(actor, held, beat, old) ==
    IF actor = "ended" /\ ~held /\ beat = "ended"
    THEN sink' = <<>> /\ signal' = Dropped(old, Queued)
    ELSE UNCHANGED sink /\ signal' = old

-----------------------------------------------------------------------------
(* The sink actor.                                                           *)

SinkRecv ==
    /\ sink_actor = "recv"
    /\ sink # <<>>
    /\ sink_actor' = "sending"
    /\ inflight' = Head(sink)
    /\ sink' = Tail(sink)
    /\ UNCHANGED <<sink_held, sink_abort, sink_result, streamVars, transport,
                   messages, tasks>>

(* The transport takes frames until one side's Close has passed it.          *)
Writable == link = "open" /\ ~close_sent /\ ~close_read

MutSettled(f, status) ==
    [m \in Messages |-> IF m = f THEN "Failed" ELSE signal[m]]

(* The signal that a completed send sets, for good: set_signal takes it out  *)
(* of the message before the message is dropped.  Heartbeat frames have none *)
(* that anybody sees.                                                        *)
Settled(f, status) ==
    [m \in Messages |-> IF m = f THEN status ELSE signal[m]]

SinkSent ==
    /\ sink_actor = "sending"
    /\ Writable
    /\ sink_actor' = "recv"
    /\ inflight' = NoFrame
    /\ close_sent' = IsClose(inflight)
    /\ signal' = Settled(inflight, "Sent")
    /\ wire' = IF inflight \in Messages THEN Append(wire, inflight) ELSE wire
    /\ UNCHANGED <<sink, sink_held, sink_abort, sink_result, streamVars, link,
                   close_read, inbound, submitted, tasks>>

(* A failed send is the end of the sink actor.                               *)
SinkFailed ==
    /\ sink_actor = "sending"
    /\ ~Writable
    /\ sink_actor' = "ended"
    /\ inflight' = NoFrame
    /\ sink_result' = "failed"
    /\ Release("ended", sink_held, heartbeat, Settled(inflight, "Failed"))
    /\ UNCHANGED <<sink_held, sink_abort, streamVars, transport, submitted,
                   wire, tasks>>

(* recv fails: nothing queued and every Sink dropped.                        *)
SinkClosed ==
    /\ sink_actor = "recv"
    /\ sink = <<>>
    /\ ~sink_held
    /\ heartbeat = "ended"
    /\ sink_actor' = "ended"
    /\ sink_result' = "ok"
    /\ UNCHANGED <<sink, inflight, sink_held, sink_abort, streamVars,
                   transport, messages, tasks>>

(* The abort branch of the select; the other branch has no priority.         *)
SinkAborted ==
    /\ sink_actor = "recv"
    /\ sink_abort
    /\ sink_actor' = "ended"
    /\ sink_abort' = FALSE
    /\ sink_result' = "ok"
    /\ Release("ended", sink_held, heartbeat, signal)
    /\ UNCHANGED <<inflight, sink_held, streamVars, transport, submitted,
                   wire, tasks>>

-----------------------------------------------------------------------------
(* The stream actor.                                                         *)

(* Everything else, errors included, is forwarded; the actor ends if the     *)
(* Stream was dropped.                                                       *)
Forwarded == {"data", "close", "error"}

(* Ping and Pong (control frames) are consumed here; they only refresh       *)
(* last_alive.                                                               *)
StreamSkip ==
    /\ stream_actor = "run"
    /\ inbound # <<>>
    /\ Head(inbound) \notin Forwarded
    /\ inbound' = Tail(inbound)
    /\ UNCHANGED <<sinkVars, streamVars, link, close_sent, close_read,
                   messages, tasks>>

StreamForward ==
    /\ stream_actor = "run"
    /\ inbound # <<>>
    /\ Head(inbound) \in Forwarded
    /\ inbound' = Tail(inbound)
    /\ close_read' = (close_read \/ Head(inbound) = "close")
    /\ IF stream_held
       THEN /\ stream' = Append(stream, Head(inbound))
            /\ UNCHANGED stream_actor
       ELSE /\ stream_actor' = "ended"
            /\ UNCHANGED stream
    /\ UNCHANGED <<sinkVars, stream_held, link, close_sent, messages, tasks>>

(* stream.next() returns None: after the closing handshake, or when the      *)
(* transport has reported its failure.                                       *)
StreamEnd ==
    /\ stream_actor = "run"
    /\ inbound = <<>>
    /\ close_read \/ link = "broken"
    /\ stream_actor' = "ended"
    /\ UNCHANGED <<sinkVars, stream, stream_held, transport, messages, tasks>>

-----------------------------------------------------------------------------
(* The heartbeat, socket_heartbeat and handle_heartbeat_sleep_elapsed.       *)

EndHeartbeat ==
    /\ heartbeat' = "ended"
    /\ Release(sink_actor, sink_held, "ended", signal)

PingsQueued == Cardinality({i \in 1..Len(sink) : sink[i] = "ping"})

(* The sleep elapses after a silence of at least `heartbeat`: ping, or end   *)
(* if the sink is closed.                                                    *)
HeartbeatPing ==
    /\ heartbeat = "run"
    /\ IF SinkOpen
       THEN /\ PingsQueued < MaxPings
            /\ sink' = Append(sink, "ping")
            /\ UNCHANGED <<heartbeat, signal>>
       ELSE EndHeartbeat
    /\ UNCHANGED <<sink_actor, inflight, sink_held, sink_abort, sink_result,
                   streamVars, transport, submitted, wire, hearbeat_abort,
                   supervisor, closer>>

(* The silence is longer than `timeout`: Close(Abnormal), and the heartbeat  *)
(* is over whether or not the sink takes it.                                 *)
HeartbeatTimeout ==
    /\ heartbeat = "run"
    /\ IF SinkOpen
       THEN /\ sink' = Append(sink, "timeout_close")
            /\ heartbeat' = "ended"
            /\ UNCHANGED signal
       ELSE EndHeartbeat
    /\ UNCHANGED <<sink_actor, inflight, sink_held, sink_abort, sink_result,
                   streamVars, transport, submitted, wire, hearbeat_abort,
                   supervisor, closer>>

HeartbeatAborted ==
    /\ heartbeat = "run"
    /\ hearbeat_abort
    /\ hearbeat_abort' = FALSE
    /\ EndHeartbeat
    /\ UNCHANGED <<sink_actor, inflight, sink_held, sink_abort, sink_result,
                   streamVars, transport, submitted, wire, supervisor, closer>>

-----------------------------------------------------------------------------
(* The supervisor: the task at the end of Socket::new.                       *)

MutAborts == sink_abort' = FALSE /\ hearbeat_abort' = TRUE

MutHeartbeatStays == sink_abort' = TRUE /\ hearbeat_abort' = FALSE

Aborts == sink_abort' = TRUE /\ hearbeat_abort' = TRUE

SupervisorAborts ==
    /\ supervisor = "await_stream"
    /\ stream_actor = "ended"
    /\ Aborts
    /\ supervisor' = "await_sink"
    /\ UNCHANGED <<sink, sink_actor, inflight, sink_held, sink_result,
                   streamVars, transport, messages, heartbeat, closer>>

MutSinkJoined == TRUE

SinkJoined == sink_actor = "ended"

(* The sink's result goes into a channel of capacity one.                    *)
SupervisorReports ==
    /\ supervisor = "await_sink"
    /\ SinkJoined
    /\ supervisor' = "done"
    /\ UNCHANGED <<sinkVars, streamVars, transport, messages, heartbeat,
                   hearbeat_abort, closer>>

-----------------------------------------------------------------------------
(* The owner of the Socket.                                                  *)

(* Sink::send of a new InMessage; a closed channel drops the message.        *)
Submit(m) ==
    /\ sink_held
    /\ signal[m] = "none"
    /\ submitted' = Append(submitted, m)
    /\ IF SinkOpen
       THEN /\ sink' = Append(sink, m)
            /\ signal' = [signal EXCEPT ![m] = "Sending"]
       ELSE /\ signal' = [signal EXCEPT ![m] = "Failed"]
            /\ UNCHANGED sink
    /\ UNCHANGED <<sink_actor, inflight, sink_held, sink_abort, sink_result,
                   streamVars, transport, wire, tasks>>

(* Socket::recv.                                                             *)
Recv ==
    /\ stream_held
    /\ stream # <<>>
    /\ stream' = Tail(stream)
    /\ UNCHANGED <<sinkVars, stream_actor, stream_held, transport, messages,
                   tasks>>

(* await_sink_close takes the result receiver and waits on it.               *)
AwaitSinkClose ==
    /\ sink_held /\ stream_held
    /\ closer = "idle"
    /\ closer' = "waiting"
    /\ UNCHANGED <<sinkVars, streamVars, transport, messages, heartbeat,
                   hearbeat_abort, supervisor>>

SinkCloseReturns ==
    /\ closer = "waiting"
    /\ supervisor = "done"
    /\ closer' = "returned"
    /\ UNCHANGED <<sinkVars, streamVars, transport, messages, heartbeat,
                   hearbeat_abort, supervisor>>

(* The owner drops its Sink, its Stream, or both with the Socket.            *)
DropSink ==
    /\ sink_held
    /\ closer # "waiting"
    /\ sink_held' = FALSE
    /\ Release(sink_actor, FALSE, heartbeat, signal)
    /\ UNCHANGED <<sink_actor, inflight, sink_abort, sink_result, streamVars,
                   transport, submitted, wire, tasks>>

DropStream ==
    /\ stream_held
    /\ closer # "waiting"
    /\ stream_held' = FALSE
    /\ UNCHANGED <<sinkVars, stream, stream_actor, transport, messages, tasks>>

-----------------------------------------------------------------------------
(* The transport and the peer (tungstenite, and the network below it).       *)

(* The transport is dropped, and the connection with it, when both of its    *)
(* halves are.                                                               *)
Disconnected == sink_actor = "ended" /\ stream_actor = "ended"

PeerClosed == close_read \/ \E i \in 1..Len(inbound) : inbound[i] = "close"

PeerSends(f) ==
    /\ link = "open" /\ ~Disconnected
    /\ ~PeerClosed
    /\ f # "close" => Len(inbound) + Len(stream) < MaxInbound
    /\ inbound' = Append(inbound, f)
    /\ UNCHANGED <<sinkVars, streamVars, link, close_sent, close_read,
                   messages, tasks>>

(* A peer that has our Close answers with its own.                           *)
PeerAnswersClose == close_sent /\ PeerSends("close")

(* The connection fails: an error unless the peer had said goodbye.          *)
LinkBreaks ==
    /\ link = "open" /\ ~Disconnected
    /\ link' = "broken"
    /\ inbound' = IF PeerClosed THEN inbound ELSE Append(inbound, "error")
    /\ UNCHANGED <<sinkVars, streamVars, close_sent, close_read, messages, tasks>>

-----------------------------------------------------------------------------
SinkStep == SinkRecv \/ SinkSent \/ SinkFailed \/ SinkClosed \/ SinkAborted
StreamStep == StreamSkip \/ StreamForward \/ StreamEnd
HeartbeatStep == HeartbeatPing \/ HeartbeatTimeout \/ HeartbeatAborted
SupervisorStep == SupervisorAborts \/ SupervisorReports
PeerStep == LinkBreaks \/ \E f \in {"data", "control", "close"} : PeerSends(f)

OwnerStep ==
    \/ \E m \in Messages : Submit(m)
    \/ Recv \/ AwaitSinkClose \/ SinkCloseReturns \/ DropSink \/ DropStream

(* What goes on below any owner of the Socket.                               *)
TransportNext ==
    SinkStep \/ StreamStep \/ HeartbeatStep \/ SupervisorStep \/ PeerStep

SocketNext == TransportNext \/ OwnerStep

SocketSpec == SocketInit /\ [][SocketNext]_socketVars

(* The runtime polls its tasks, and a send completes because the peer reads. *)
(* Neither the heartbeat's clock nor the peer has to do anything, except     *)
(* that an aborted heartbeat ends.                                           *)
TaskFairness ==
    /\ WF_socketVars(SinkStep)
    /\ WF_socketVars(StreamStep)
    /\ WF_socketVars(SupervisorStep)
    /\ WF_socketVars(HeartbeatAborted)
    /\ WF_socketVars(SinkCloseReturns)

(* A peer that follows the protocol answers our Close, unless the connection *)
(* breaks.                                                                   *)
PeerFairness == WF_socketVars(PeerAnswersClose)

-----------------------------------------------------------------------------
(* Properties.                                                               *)

(* No message is lost without a word: one whose signal says Sending is in    *)
(* the sink's queue, once, or in the hands of the sink actor; one that is    *)
(* there says Sending.                                                       *)
SignalsAccounted ==
    /\ \A m \in Messages : signal[m] = "Sending" <=> m \in Queued \cup {inflight}
    /\ \A i, j \in 1..Len(sink) :
          sink[i] \in Messages /\ sink[i] = sink[j] => i = j
    /\ inflight \in Messages => inflight \notin Queued

(* Through the sink's queue and its actor, with the heartbeat's own frames   *)
(* in between: messages reach the transport in order and without a gap, and  *)
(* a signal settles once.                                                    *)
D == INSTANCE Delivery
ImplementsDelivery == D!Spec

(* What the owner has submitted and an open sink has yet to send.            *)
Pending ==
    IF SinkOpen THEN SubSeq(submitted, Len(wire) + 1, Len(submitted)) ELSE <<>>

Owned == INSTANCE OwnedSocket WITH
    queue <- Pending,
    open <- SinkOpen,
    result <- IF sink_held \/ stream_held THEN sink_result ELSE "none",
    items <- IF stream_held THEN stream ELSE <<>>,
    over <- (sink_held \/ stream_held) /\ stream_actor = "ended",
    told <- sink_held /\ stream_held /\ closer = "returned"

(* The tasks, the two channels and the supervisor keep what a Socket         *)
(* promises its owner: when the sink closes and with which result, what      *)
(* becomes of the messages it has not sent, and when await_sink_close        *)
(* returns.                                                                  *)
KeepsPromise == Owned!Spec

(* When the stream is over, the supervisor brings down the sink actor and    *)
(* the heartbeat, whatever is queued and whoever holds the Socket.           *)
StreamEndStopsTasks ==
    stream_actor = "ended" ~> Disconnected /\ heartbeat = "ended" /\ supervisor = "done"

(* A submitted message is sent or fails, unless the sink actor is gone; and  *)
(* once the stream is over and the last Sink of the owner is dropped, no     *)
(* signal is left at Sending.                                                *)
SignalsSettle ==
    /\ \A m \in Messages :
          signal[m] = "Sending" ~> signal[m] # "Sending" \/ ~SinkOpen
    /\ stream_actor = "ended" /\ ~sink_held ~>
          \A m \in Messages : signal[m] # "Sending"

(* The closing handshake: after our Close is sent to a peer that answers,    *)
(* all tasks of the socket end, and await_sink_close returns.                *)
CloseCompletes ==
    PeerFairness =>
        /\ close_sent ~> Disconnected
        /\ close_sent /\ closer = "waiting" ~> closer = "returned"

(* CHANGELOG.md, v0.2.0: "close connection on heartbeat failure"; socket.rs  *)
(* logs "closing connection due to timeout" before it queues its Close: a    *)
(* heartbeat that gives up on a silent peer ends the connection.             *)
TimeoutEndsConnection ==
    inflight = "timeout_close" ~> Disconnected

-----------------------------------------------------------------------------
(* The inductive invariant behind the safety properties (SocketProofs).      *)

(* The wire is what was submitted, up to some point; while the sink actor    *)
(* lives, everything behind that point is still on its way.                  *)
HistoryInv ==
    /\ \A i, j \in 1..Len(submitted) : submitted[i] = submitted[j] => i = j
    /\ \A m \in Messages :
          signal[m] # "none" <=> \E i \in 1..Len(submitted) : submitted[i] = m
    /\ Len(wire) <= Len(submitted)
    /\ \A i \in 1..Len(wire) : wire[i] = submitted[i] /\ signal[wire[i]] = "Sent"
    /\ SinkOpen => \A i \in (Len(wire) + 1)..Len(submitted) :
                      signal[submitted[i]] = "Sending"

Before(order, m, n) ==
    \A i, j \in 1..Len(order) : order[i] = m /\ order[j] = n => i < j

(* What is on its way is in the order of submission.                         *)
OrderInv ==
    /\ sink_actor = "sending" <=> inflight # NoFrame
    /\ \A i, j \in 1..Len(sink) :
          i < j /\ sink[i] \in Messages /\ sink[j] \in Messages =>
              Before(submitted, sink[i], sink[j])
    /\ inflight \in Messages =>
          \A i \in 1..Len(sink) :
              sink[i] \in Messages => Before(submitted, inflight, sink[i])

(* The tasks end in order: stream, sink, supervisor, await_sink_close; only  *)
(* the supervisor aborts the sink; and the sink's result is there from its   *)
(* end on.                                                                   *)
TaskInv ==
    /\ sink_abort => stream_actor = "ended"
    /\ supervisor # "await_stream" => stream_actor = "ended"
    /\ supervisor = "done" => sink_actor = "ended"
    /\ closer = "returned" => supervisor = "done"
    /\ sink_result = "none" <=> SinkOpen

(* Queue, sink actor, signals and wire agree on every message at every step. *)
SocketInv == SignalsAccounted /\ HistoryInv /\ OrderInv

=============================================================================
