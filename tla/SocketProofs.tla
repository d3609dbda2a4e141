---------------------------- MODULE SocketProofs ----------------------------
(* Safety of one Socket for any set of messages, any Close frames among them *)
(* and any bounds on pings and inbound frames.                               *)
EXTENDS Socket, TLAPS

(* What taking the head of a queue does.                                     *)
LEMMA TakeHead ==
    ASSUME NEW S, NEW q \in Seq(S), q # <<>>
    PROVE  /\ Head(q) \in S
           /\ Tail(q) \in Seq(S)
           /\ Len(q) \in Nat /\ Len(q) > 0
           /\ Len(Tail(q)) = Len(q) - 1
           /\ Head(q) = q[1]
           /\ \A i \in 1..Len(Tail(q)) : Tail(q)[i] = q[i + 1] /\ i + 1 \in 1..Len(q)
           /\ \A i \in 2..Len(q) : q[i] = Tail(q)[i - 1] /\ i - 1 \in 1..Len(Tail(q))
  OBVIOUS

(* What adding to the end of a queue does.                                   *)
LEMMA AddLast ==
    ASSUME NEW S, NEW q \in Seq(S), NEW x \in S
    PROVE  /\ Append(q, x) \in Seq(S)
           /\ Len(q) \in Nat
           /\ Len(Append(q, x)) = Len(q) + 1
           /\ \A i \in 1..Len(q) : Append(q, x)[i] = q[i] /\ q[i] \in S
           /\ Append(q, x)[Len(q) + 1] = x
           /\ Len(q) + 1 \in 1..Len(Append(q, x))
           /\ \A i \in 1..Len(q) : i \in 1..Len(Append(q, x))
           /\ \A i \in 1..Len(Append(q, x)) : i \in 1..Len(q) \/ i = Len(q) + 1
  OBVIOUS

-----------------------------------------------------------------------------
(* Every variable keeps its type.                                            *)
LEMMA TypeInit == SocketInit => SocketTypeOK
<1>1. SocketInit => SocketFlags
  BY DEF SocketInit, SocketFlags
<1>2. SocketInit => SocketTypes
  BY DEF SocketInit, SocketTypes
<1>3. QED
  BY <1>1, <1>2 DEF SocketTypeOK

LEMMA FlagsStep == SocketFlags /\ [SocketNext]_socketVars => SocketFlags'
<1> SUFFICES ASSUME SocketFlags, [SocketNext]_socketVars PROVE SocketFlags'
  OBVIOUS
<1> USE DEF SocketFlags, sinkVars, streamVars, transport, messages, tasks
<1>1. CASE SinkStep
  BY <1>1 DEF SinkStep, SinkRecv, SinkSent, SinkFailed, SinkClosed,
     SinkAborted, IsClose
<1>2. CASE StreamStep
  BY <1>2 DEF StreamStep, StreamSkip, StreamForward, StreamEnd
<1>3. CASE HeartbeatStep
  BY <1>3 DEF HeartbeatStep, HeartbeatPing, HeartbeatTimeout, HeartbeatAborted,
     EndHeartbeat
<1>4. CASE SupervisorStep
  BY <1>4 DEF SupervisorStep, SupervisorAborts, SupervisorReports, Aborts
<1>5. CASE PeerStep
  BY <1>5 DEF PeerStep, LinkBreaks, PeerSends
<1>6. CASE OwnerStep
  BY <1>6 DEF OwnerStep, Submit, Recv, AwaitSinkClose, SinkCloseReturns,
     DropSink, DropStream
<1>7. CASE UNCHANGED socketVars
  BY <1>7 DEF socketVars
<1>8. QED
  BY <1>1, <1>2, <1>3, <1>4, <1>5, <1>6, <1>7 DEF SocketNext, TransportNext

LEMMA DroppedType ==
    ASSUME NEW frames, NEW old \in [Messages -> {"none", "Sending", "Sent", "Failed"}]
    PROVE  Dropped(old, frames) \in [Messages -> {"none", "Sending", "Sent", "Failed"}]
  BY DEF Dropped

LEMMA SettledType ==
    ASSUME NEW f, NEW status \in {"Sent", "Failed"},
           signal \in [Messages -> {"none", "Sending", "Sent", "Failed"}]
    PROVE  Settled(f, status) \in [Messages -> {"none", "Sending", "Sent", "Failed"}]
  BY DEF Settled

LEMMA ReleaseCases ==
    ASSUME NEW a, NEW held, NEW beat, NEW old, Release(a, held, beat, old)
    PROVE  \/ a = "ended" /\ sink' = <<>> /\ signal' = Dropped(old, Queued)
           \/ sink' = sink /\ signal' = old
  BY Zenon DEF Release

LEMMA ReleaseType ==
    ASSUME NEW a, NEW held, NEW beat,
           NEW old \in [Messages -> {"none", "Sending", "Sent", "Failed"}],
           sink \in Seq(Frames), Release(a, held, beat, old)
    PROVE  /\ sink' \in Seq(Frames)
           /\ signal' \in [Messages -> {"none", "Sending", "Sent", "Failed"}]
<1>1. CASE sink' = <<>> /\ signal' = Dropped(old, Queued)
  BY <1>1, DroppedType
<1>2. CASE sink' = sink /\ signal' = old
  BY <1>2
<1>3. QED
  BY <1>1, <1>2, ReleaseCases

LEMMA TypesStep == SocketTypes /\ [SocketNext]_socketVars => SocketTypes'
<1> SUFFICES ASSUME SocketTypes, [SocketNext]_socketVars PROVE SocketTypes'
  OBVIOUS
<1> USE DEF SocketTypes, sinkVars, streamVars, transport, messages, tasks
<1>1. CASE SinkRecv
  <2>1. Head(sink) \in Frames /\ Tail(sink) \in Seq(Frames)
    BY <1>1, TakeHead DEF SinkRecv
  <2>2. QED
    BY <1>1, <2>1 DEF SinkRecv
<1>2. CASE SinkSent
  <2>1. Settled(inflight, "Sent") \in [Messages -> {"none", "Sending", "Sent", "Failed"}]
    BY SettledType
  <2>2. inflight \in Messages => Append(wire, inflight) \in Seq(Messages)
    OBVIOUS
  <2>3. QED
    BY <1>2, <2>1, <2>2 DEF SinkSent
<1>3. CASE SinkFailed
  <2>1. Settled(inflight, "Failed") \in [Messages -> {"none", "Sending", "Sent", "Failed"}]
    BY SettledType
  <2>2. /\ sink' \in Seq(Frames)
        /\ signal' \in [Messages -> {"none", "Sending", "Sent", "Failed"}]
    BY <1>3, <2>1, ReleaseType DEF SinkFailed
  <2>3. QED
    BY <1>3, <2>2 DEF SinkFailed
<1>4. CASE SinkClosed
  BY <1>4 DEF SinkClosed
<1>5. CASE SinkAborted
  <2>1. /\ sink' \in Seq(Frames)
        /\ signal' \in [Messages -> {"none", "Sending", "Sent", "Failed"}]
    BY <1>5, ReleaseType DEF SinkAborted
  <2>2. QED
    BY <1>5, <2>1 DEF SinkAborted
<1>6. CASE StreamSkip
  BY <1>6, TakeHead DEF StreamSkip
<1>7. CASE StreamForward
  <2>1. /\ inbound' \in Seq({"data", "control", "close", "error"})
        /\ Head(inbound) \in {"data", "close", "error"}
    BY <1>7, TakeHead DEF StreamForward, Forwarded
  <2>2. Append(stream, Head(inbound)) \in Seq({"data", "close", "error"})
    BY <2>1
  <2>3. QED
    BY <1>7, <2>1, <2>2 DEF StreamForward
<1>8. CASE StreamEnd
  BY <1>8 DEF StreamEnd
<1>9. ASSUME HeartbeatPing \/ HeartbeatTimeout \/ HeartbeatAborted
      PROVE  SocketTypes'
  <2>1. ASSUME EndHeartbeat
        PROVE  /\ heartbeat' = "ended"
               /\ sink' \in Seq(Frames)
               /\ signal' \in [Messages -> {"none", "Sending", "Sent", "Failed"}]
    BY <2>1, ReleaseType DEF EndHeartbeat
  <2>2. \A f \in HeartbeatFrames : Append(sink, f) \in Seq(Frames)
    BY DEF Frames
  <2>3. CASE HeartbeatPing
    BY <2>1, <2>2, <2>3 DEF HeartbeatPing, HeartbeatFrames
  <2>4. CASE HeartbeatTimeout
    BY <2>1, <2>2, <2>4 DEF HeartbeatTimeout, HeartbeatFrames
  <2>5. CASE HeartbeatAborted
    BY <2>1, <2>5 DEF HeartbeatAborted
  <2>6. QED
    BY <1>9, <2>3, <2>4, <2>5
<1>10. CASE SupervisorStep
  BY <1>10 DEF SupervisorStep, SupervisorAborts, SupervisorReports
<1>11. ASSUME NEW m \in Messages, Submit(m) PROVE SocketTypes'
  <2>1. /\ Append(submitted, m) \in Seq(Messages)
        /\ Append(sink, m) \in Seq(Frames)
    BY DEF Frames
  <2>2. QED
    BY <1>11, <2>1 DEF Submit
<1>12. CASE Recv
  BY <1>12, TakeHead DEF Recv
<1>13. CASE AwaitSinkClose \/ SinkCloseReturns
  BY <1>13 DEF AwaitSinkClose, SinkCloseReturns
<1>14. CASE DropSink
  <2>1. /\ sink' \in Seq(Frames)
        /\ signal' \in [Messages -> {"none", "Sending", "Sent", "Failed"}]
    BY <1>14, ReleaseType DEF DropSink
  <2>2. QED
    BY <1>14, <2>1 DEF DropSink
<1>15. CASE DropStream
  BY <1>15 DEF DropStream
<1>16. ASSUME NEW f \in {"data", "control", "close"}, PeerSends(f)
       PROVE  SocketTypes'
  BY <1>16 DEF PeerSends
<1>17. CASE LinkBreaks
  <2>1. Append(inbound, "error") \in Seq({"data", "control", "close", "error"})
    OBVIOUS
  <2>2. inbound' \in Seq({"data", "control", "close", "error"})
    BY <1>17, <2>1 DEF LinkBreaks
  <2>3. QED
    BY <1>17, <2>2 DEF LinkBreaks
<1>18. CASE UNCHANGED socketVars
  BY <1>18 DEF socketVars
<1> HIDE DEF SocketTypes, sinkVars, streamVars, transport, messages, tasks
<1>19. QED
  BY <1>1, <1>2, <1>3, <1>4, <1>5, <1>6, <1>7, <1>8, <1>9, <1>10, <1>11,
     <1>12, <1>13, <1>14, <1>15, <1>16, <1>17, <1>18
     DEF SocketNext, TransportNext, SinkStep, StreamStep, HeartbeatStep,
         PeerStep, OwnerStep

(* The socket's variables stay in their sets: queues, task states, signals.  *)
THEOREM SocketType == SocketSpec => []SocketTypeOK
<1>1. SocketTypeOK /\ [SocketNext]_socketVars => SocketTypeOK'
  BY FlagsStep, TypesStep DEF SocketTypeOK
<1>2. QED
  BY TypeInit, <1>1, PTL DEF SocketSpec

-----------------------------------------------------------------------------
(* What a step can do to the messages: nothing, ...                          *)
Quiet ==
    /\ UNCHANGED <<sink, inflight, submitted, signal, wire>>
    /\ SinkOpen' => SinkOpen
    /\ sink_actor' = "sending" <=> sink_actor = "sending"

(* ... hand the head of the queue to the sink actor, ...                     *)
Taken ==
    /\ sink # <<>>
    /\ sink_actor = "recv"
    /\ sink_actor' = "sending"
    /\ inflight' = Head(sink)
    /\ sink' = Tail(sink)
    /\ UNCHANGED <<submitted, signal, wire>>

(* ... put what the sink actor holds on the wire, ...                        *)
Done ==
    /\ sink_actor = "sending"
    /\ sink_actor' = "recv"
    /\ inflight' = NoFrame
    /\ signal' = Settled(inflight, "Sent")
    /\ wire' = IF inflight \in Messages THEN Append(wire, inflight) ELSE wire
    /\ UNCHANGED <<sink, submitted>>

(* ... fail it, and perhaps the whole queue, behind a dead sink actor, ...   *)
Lost ==
    /\ sink_actor' = "ended"
    /\ inflight' = NoFrame
    /\ \/ sink' = <<>> /\ signal' = Dropped(signal, Queued \cup {inflight})
       \/ sink' = sink /\ signal' = Dropped(signal, {inflight})
    /\ UNCHANGED <<submitted, wire>>

(* ... or queue a frame of the heartbeat.                                    *)
Beat ==
    /\ \E f \in HeartbeatFrames : sink' = Append(sink, f)
    /\ UNCHANGED <<sink_actor, inflight, submitted, signal, wire>>

(* Nothing is in flight but in a sink actor that is sending.                 *)
Idle == sink_actor # "sending" => inflight = NoFrame

(* Releasing a queue whose messages are not in flight.                       *)
LEMMA ReleaseLost ==
    ASSUME SocketTypes, inflight = NoFrame, inflight' = NoFrame,
           NEW a, NEW held, NEW beat, Release(a, held, beat, signal),
           sink_actor' = a, UNCHANGED <<submitted, wire>>
    PROVE  \/ Lost
           \/ UNCHANGED <<sink, inflight, submitted, signal, wire>>
<1>1. Dropped(signal, Queued) = Dropped(signal, Queued \cup {inflight})
  BY SocketAssumption DEF Dropped
<1>2. CASE a = "ended" /\ sink' = <<>> /\ signal' = Dropped(signal, Queued)
  BY <1>1, <1>2 DEF Lost
<1>3. CASE sink' = sink /\ signal' = signal
  BY <1>3
<1>4. QED
  BY <1>2, <1>3, ReleaseCases

LEMMA Effects ==
    ASSUME SocketTypes, Idle, [SocketNext]_socketVars
    PROVE  \/ Quiet \/ Taken \/ Done \/ Lost \/ Beat
           \/ \E m \in Messages : Submit(m)
<1> USE DEF sinkVars, streamVars, transport, messages, tasks
<1>1. CASE SinkRecv
  BY <1>1 DEF SinkRecv, Taken
<1>2. CASE SinkSent
  BY <1>2 DEF SinkSent, Done
<1>3. CASE SinkFailed
  <2>1. Settled(inflight, "Failed") = Dropped(signal, {inflight})
    BY DEF Settled, Dropped
  <2>2. Dropped(Settled(inflight, "Failed"), Queued)
            = Dropped(signal, Queued \cup {inflight})
    BY DEF Settled, Dropped
  <2>3. \/ /\ sink' = <<>>
           /\ signal' = Dropped(Settled(inflight, "Failed"), Queued)
        \/ sink' = sink /\ signal' = Settled(inflight, "Failed")
    BY <1>3, ReleaseCases DEF SinkFailed
  <2>4. QED
    BY <1>3, <2>1, <2>2, <2>3 DEF SinkFailed, Lost
<1>4. CASE SinkClosed
  BY <1>4 DEF SinkClosed, Quiet, SinkOpen
<1>5. CASE SinkAborted
  <2>1. Lost \/ UNCHANGED <<sink, inflight, submitted, signal, wire>>
    BY <1>5, ReleaseLost DEF SinkAborted, Idle
  <2>2. QED
    BY <1>5, <2>1 DEF SinkAborted, Quiet, SinkOpen
<1>6. CASE StreamStep
  BY <1>6 DEF StreamStep, StreamSkip, StreamForward, StreamEnd, Quiet, SinkOpen
<1>7. CASE HeartbeatStep
  <2>1. ASSUME EndHeartbeat, UNCHANGED <<sink_actor, inflight, submitted, wire>>
        PROVE  Quiet \/ Lost
    <3>1. Release(sink_actor, sink_held, "ended", signal)
      BY <2>1 DEF EndHeartbeat
    <3>2. CASE sink_actor = "ended"
      <4>1. Lost \/ UNCHANGED <<sink, inflight, submitted, signal, wire>>
        BY <2>1, <3>1, <3>2, ReleaseLost DEF Idle
      <4>2. QED
        BY <2>1, <4>1 DEF Quiet, SinkOpen
    <3>3. CASE sink_actor # "ended"
      BY <2>1, <3>1, <3>3, ReleaseCases DEF Quiet, SinkOpen
    <3>4. QED
      BY <3>2, <3>3
  <2>2. CASE HeartbeatPing
    BY <2>1, <2>2 DEF HeartbeatPing, HeartbeatFrames, Beat
  <2>3. CASE HeartbeatTimeout
    BY <2>1, <2>3 DEF HeartbeatTimeout, HeartbeatFrames, Beat
  <2>4. CASE HeartbeatAborted
    BY <2>1, <2>4 DEF HeartbeatAborted
  <2>5. QED
    BY <1>7, <2>2, <2>3, <2>4 DEF HeartbeatStep
<1>8. CASE SupervisorStep
  BY <1>8 DEF SupervisorStep, SupervisorAborts, SupervisorReports, Quiet, SinkOpen
<1>9. CASE PeerStep
  BY <1>9 DEF PeerStep, LinkBreaks, PeerSends, Quiet, SinkOpen
<1>10. CASE Recv \/ AwaitSinkClose \/ SinkCloseReturns \/ DropStream
  BY <1>10 DEF Recv, AwaitSinkClose, SinkCloseReturns, DropStream, Quiet, SinkOpen
<1>11. CASE DropSink
  <2>1. Release(sink_actor, FALSE, heartbeat, signal)
    BY <1>11 DEF DropSink
  <2>2. CASE sink_actor = "ended"
    <3>1. Lost \/ UNCHANGED <<sink, inflight, submitted, signal, wire>>
      BY <1>11, <2>1, <2>2, ReleaseLost DEF Idle, DropSink
    <3>2. QED
      BY <1>11, <3>1 DEF Quiet, SinkOpen, DropSink
  <2>3. CASE sink_actor # "ended"
    BY <1>11, <2>1, <2>3, ReleaseCases DEF Quiet, SinkOpen, DropSink
  <2>4. QED
    BY <2>2, <2>3
<1>12. CASE UNCHANGED socketVars
  BY <1>12 DEF socketVars, Quiet, SinkOpen
<1> HIDE DEF sinkVars, streamVars, transport, messages, tasks
<1>13. QED
  BY <1>1, <1>2, <1>3, <1>4, <1>5, <1>6, <1>7, <1>8, <1>9, <1>10, <1>11, <1>12
     DEF SocketNext, TransportNext, SinkStep, OwnerStep

-----------------------------------------------------------------------------
(* The three parts of the invariant, through each of these effects.          *)

LEMMA InvInit == SocketInit => SocketInv
  BY SocketAssumption
     DEF SocketInit, SocketInv, SignalsAccounted, HistoryInv, OrderInv, Queued

(* The queue's messages are among the frames, and a Sending message is never *)
(* one of the heartbeat's.                                                   *)
LEMMA AccountedStep ==
    ASSUME SocketTypes, SocketInv,
           Quiet \/ Taken \/ Done \/ Lost \/ Beat \/ \E m \in Messages : Submit(m)
    PROVE  SignalsAccounted'
<1> sink \in Seq(Frames)
  BY DEF SocketTypes
<1>0. /\ \A m \in Messages :
             signal[m] = "Sending" <=>
                 (\E i \in 1..Len(sink) : sink[i] = m) \/ m = inflight
      /\ \A i, j \in 1..Len(sink) :
             sink[i] \in Messages /\ sink[i] = sink[j] => i = j
      /\ inflight \in Messages => \A i \in 1..Len(sink) : sink[i] # inflight
  <2>1. \A m : m \in Queued <=> \E i \in 1..Len(sink) : sink[i] = m
    BY DEF Queued
  <2>2. \A m \in Messages : signal[m] = "Sending" <=> m \in Queued \/ m = inflight
    BY DEF SocketInv, SignalsAccounted
  <2>3. /\ \A i, j \in 1..Len(sink) :
               sink[i] \in Messages /\ sink[i] = sink[j] => i = j
        /\ inflight \in Messages => inflight \notin Queued
    BY DEF SocketInv, SignalsAccounted
  <2>4. QED
    BY <2>1, <2>2, <2>3
<1> SUFFICES /\ \A m \in Messages :
                   signal'[m] = "Sending" <=>
                       (\E i \in 1..Len(sink') : sink'[i] = m) \/ m = inflight'
             /\ \A i, j \in 1..Len(sink') :
                   sink'[i] \in Messages /\ sink'[i] = sink'[j] => i = j
             /\ inflight' \in Messages => \A i \in 1..Len(sink') : sink'[i] # inflight'
  BY DEF SignalsAccounted, Queued
<1>1. CASE Quiet
  BY <1>0, <1>1 DEF Quiet
<1>2. CASE Taken
  <2>1. inflight = NoFrame
    BY <1>2 DEF Taken, SocketInv, OrderInv
  <2>2. /\ inflight' = sink[1]
        /\ Len(sink') = Len(sink) - 1
        /\ Len(sink) \in Nat /\ Len(sink) > 0
        /\ signal' = signal
        /\ \A i \in 1..Len(sink') : sink'[i] = sink[i + 1] /\ i + 1 \in 1..Len(sink)
        /\ \A i \in 2..Len(sink) : sink[i] = sink'[i - 1] /\ i - 1 \in 1..Len(sink')
    BY <1>2, TakeHead DEF Taken
  <2>3. ASSUME NEW m \in Messages
        PROVE  (\E i \in 1..Len(sink) : sink[i] = m)
                   <=> (\E i \in 1..Len(sink') : sink'[i] = m) \/ m = inflight'
    <3>1. ASSUME NEW i \in 1..Len(sink), sink[i] = m
          PROVE  (\E k \in 1..Len(sink') : sink'[k] = m) \/ m = inflight'
      <4>1. CASE i = 1
        BY <2>2, <3>1, <4>1
      <4>2. CASE i \in 2..Len(sink)
        BY <2>2, <3>1, <4>2
      <4>3. QED
        BY <2>2, <4>1, <4>2
    <3>2. ASSUME NEW i \in 1..Len(sink'), sink'[i] = m
          PROVE  \E k \in 1..Len(sink) : sink[k] = m
      BY <2>2, <3>2
    <3>3. m = inflight' => \E k \in 1..Len(sink) : sink[k] = m
      BY <2>2
    <3>4. QED
      BY <3>1, <3>2, <3>3
  <2>4. QED
    BY <1>0, <2>1, <2>2, <2>3, SocketAssumption
<1>3. CASE Done
  BY <1>0, <1>3, SocketAssumption DEF Done, Settled
<1>4. CASE Lost
  <2>1. \A m \in Messages : m # inflight'
    BY <1>4, SocketAssumption DEF Lost
  <2>2. CASE sink' = <<>> /\ signal' = Dropped(signal, Queued \cup {inflight})
    BY <1>0, <2>1, <2>2 DEF Dropped, Queued
  <2>3. CASE sink' = sink /\ signal' = Dropped(signal, {inflight})
    BY <1>0, <2>1, <2>3 DEF Dropped
  <2>4. QED
    BY <1>4, <2>2, <2>3 DEF Lost
<1>5. CASE Beat
  <2>1. PICK f \in HeartbeatFrames : sink' = Append(sink, f)
    BY <1>5 DEF Beat
  <2>2. /\ f \notin Messages
        /\ f \in Frames
    BY SocketAssumption DEF HeartbeatFrames, Frames
  <2>3. /\ Len(sink) + 1 \in 1..Len(sink')
        /\ sink'[Len(sink) + 1] = f
        /\ \A i \in 1..Len(sink) : i \in 1..Len(sink') /\ sink'[i] = sink[i]
        /\ \A i \in 1..Len(sink') : i \in 1..Len(sink) \/ i = Len(sink) + 1
    BY <2>1, <2>2, AddLast
  <2>4. UNCHANGED <<inflight, signal>>
    BY <1>5 DEF Beat
  <2>5. \A m \in Messages :
            (\E i \in 1..Len(sink') : sink'[i] = m)
                <=> \E i \in 1..Len(sink) : sink[i] = m
    BY <2>2, <2>3
  <2>6. \A i, j \in 1..Len(sink') :
            sink'[i] \in Messages /\ sink'[i] = sink'[j] => i = j
    BY <1>0, <2>2, <2>3
  <2>7. inflight' \in Messages => \A i \in 1..Len(sink') : sink'[i] # inflight'
    BY <1>0, <2>2, <2>3, <2>4
  <2>8. QED
    BY <1>0, <2>4, <2>5, <2>6, <2>7
<1>6. ASSUME NEW m \in Messages, Submit(m)
      PROVE  /\ \A n \in Messages :
                   signal'[n] = "Sending" <=>
                       (\E i \in 1..Len(sink') : sink'[i] = n) \/ n = inflight'
             /\ \A i, j \in 1..Len(sink') :
                   sink'[i] \in Messages /\ sink'[i] = sink'[j] => i = j
             /\ inflight' \in Messages => \A i \in 1..Len(sink') : sink'[i] # inflight'
  <2>1. signal[m] = "none" /\ inflight' = inflight
    BY <1>6 DEF Submit
  <2>2. CASE SinkOpen
    <3>1. /\ sink' = Append(sink, m)
          /\ signal' = [signal EXCEPT ![m] = "Sending"]
          /\ m \in Frames
      BY <1>6, <2>2 DEF Submit, Frames
    <3>2. /\ Len(sink) + 1 \in 1..Len(sink')
          /\ sink'[Len(sink) + 1] = m
          /\ \A i \in 1..Len(sink) : i \in 1..Len(sink') /\ sink'[i] = sink[i]
          /\ \A i \in 1..Len(sink') : i \in 1..Len(sink) \/ i = Len(sink) + 1
      BY <3>1, AddLast
    <3>3. \A i \in 1..Len(sink) : sink[i] # m
      BY <1>0, <2>1
    <3>4. m # inflight
      BY <1>0, <2>1
    <3>5. \A n \in Messages :
              (\E i \in 1..Len(sink') : sink'[i] = n)
                  <=> (\E i \in 1..Len(sink) : sink[i] = n) \/ n = m
      BY <3>2
    <3>6. \A i, j \in 1..Len(sink') :
              sink'[i] \in Messages /\ sink'[i] = sink'[j] => i = j
      BY <1>0, <3>2, <3>3
    <3>7. inflight' \in Messages => \A i \in 1..Len(sink') : sink'[i] # inflight'
      BY <1>0, <2>1, <3>2, <3>4
    <3>8. \A n \in Messages :
              signal'[n] = "Sending" <=> signal[n] = "Sending" \/ n = m
      BY <3>1, <2>1 DEF SocketTypes
    <3>9. QED
      BY <1>0, <2>1, <3>5, <3>6, <3>7, <3>8
  <2>3. CASE ~SinkOpen
    <3>1. sink' = sink /\ signal' = [signal EXCEPT ![m] = "Failed"]
      BY <1>6, <2>3 DEF Submit
    <3>2. \A n \in Messages : signal'[n] = "Sending" <=> signal[n] = "Sending"
      BY <2>1, <3>1 DEF SocketTypes
    <3>3. QED
      BY <1>0, <2>1, <3>1, <3>2
  <2>4. QED
    BY <2>2, <2>3
<1>7. QED
  BY <1>1, <1>2, <1>3, <1>4, <1>5, <1>6

(* A message in the hands of the sink actor is the next one for the wire.    *)
LEMMA NextOnWire ==
    ASSUME SocketTypes, SocketInv, inflight \in Messages
    PROVE  /\ SinkOpen
           /\ signal[inflight] = "Sending"
           /\ Len(wire) \in Nat /\ Len(submitted) \in Nat
           /\ Len(wire) < Len(submitted)
           /\ submitted[Len(wire) + 1] = inflight
<1>1. /\ Len(wire) \in Nat /\ Len(submitted) \in Nat
      /\ \A i \in 1..Len(submitted) : submitted[i] \in Messages
  BY DEF SocketTypes
<1>2. HistoryInv /\ OrderInv /\ SignalsAccounted
  BY DEF SocketInv
<1>3. SinkOpen
  BY <1>2, SocketAssumption DEF OrderInv, SinkOpen
<1>4. signal[inflight] = "Sending"
  BY <1>2 DEF SignalsAccounted
<1>5. PICK b \in 1..Len(submitted) : submitted[b] = inflight
  BY <1>2, <1>4 DEF HistoryInv
<1>6. b > Len(wire)
  <2>1. SUFFICES ASSUME b \in 1..Len(wire) PROVE FALSE
    BY <1>1
  <2>2. wire[b] = inflight /\ signal[wire[b]] = "Sent"
    BY <1>2, <1>5, <2>1 DEF HistoryInv
  <2>3. QED
    BY <1>4, <2>2
<1>7. Len(wire) + 1 \in 1..Len(submitted)
  BY <1>1, <1>6
<1> DEFINE n == submitted[Len(wire) + 1]
<1>8. n = inflight
  <2>1. SUFFICES ASSUME n # inflight PROVE FALSE
    OBVIOUS
  <2>2. n \in Messages /\ signal[n] = "Sending"
    <3>1. Len(wire) + 1 \in (Len(wire) + 1)..Len(submitted)
      BY <1>1, <1>7
    <3>2. QED
      BY <1>1, <1>2, <1>3, <1>7, <3>1 DEF HistoryInv
  <2>3. n \in Queued
    BY <1>2, <2>1, <2>2 DEF SignalsAccounted
  <2>4. PICK i \in 1..Len(sink) : sink[i] = n
    BY <2>3 DEF Queued
  <2>5. Before(submitted, inflight, n)
    BY <1>2, <2>2, <2>4 DEF OrderInv
  <2>6. b < Len(wire) + 1
    BY <1>5, <1>7, <2>5 DEF Before
  <2>7. QED
    BY <1>1, <1>6, <2>6
<1>9. QED
  BY <1>1, <1>3, <1>4, <1>7, <1>8

LEMMA HistoryStep ==
    ASSUME SocketTypes, SocketInv,
           Quiet \/ Taken \/ Done \/ Lost \/ Beat \/ \E m \in Messages : Submit(m)
    PROVE  HistoryInv'
<1> /\ submitted \in Seq(Messages)
    /\ wire \in Seq(Messages)
    /\ signal \in [Messages -> {"none", "Sending", "Sent", "Failed"}]
  BY DEF SocketTypes
<1> HistoryInv
  BY DEF SocketInv
<1>1. CASE Quiet
  BY <1>1 DEF Quiet, HistoryInv
<1>2. CASE Taken
  BY <1>2 DEF Taken, HistoryInv, SinkOpen
<1>3. CASE Beat
  BY <1>3 DEF Beat, HistoryInv, SinkOpen
<1>4. CASE Lost
  <2>1. PICK frames : signal' = Dropped(signal, frames)
                      /\ frames \subseteq Queued \cup {inflight}
                      /\ inflight \in frames
    BY <1>4 DEF Lost
  <2>2. \A m \in Messages \cap frames : signal[m] = "Sending"
    BY <2>1 DEF SocketInv, SignalsAccounted
  <2>3. \A m \in Messages :
            /\ signal'[m] # "none" <=> signal[m] # "none"
            /\ signal[m] = "Sent" => signal'[m] = "Sent"
    BY <2>1, <2>2 DEF Dropped
  <2>4. UNCHANGED <<submitted, wire>> /\ ~SinkOpen'
    BY <1>4 DEF Lost, SinkOpen
  <2>5. QED
    BY <2>3, <2>4 DEF HistoryInv
<1>5. ASSUME NEW m \in Messages, Submit(m) PROVE HistoryInv'
  <2>1. /\ signal[m] = "none"
        /\ submitted' = Append(submitted, m)
        /\ wire' = wire
        /\ SinkOpen' <=> SinkOpen
        /\ SinkOpen => signal' = [signal EXCEPT ![m] = "Sending"]
        /\ ~SinkOpen => signal' = [signal EXCEPT ![m] = "Failed"]
    BY <1>5 DEF Submit, SinkOpen
  <2>2. /\ Len(submitted) \in Nat
        /\ Len(submitted') = Len(submitted) + 1
        /\ submitted'[Len(submitted) + 1] = m
        /\ \A i \in 1..Len(submitted) : submitted'[i] = submitted[i]
        /\ \A i \in 1..Len(submitted) :
              i \in 1..Len(submitted') /\ submitted[i] \in Messages
        /\ \A i \in 1..Len(submitted') : i \in 1..Len(submitted) \/ i = Len(submitted) + 1
    BY <2>1, AddLast
  <2>3. /\ signal'[m] \in {"Sending", "Failed"}
        /\ SinkOpen => signal'[m] = "Sending"
        /\ \A n \in Messages : n # m => signal'[n] = signal[n]
    BY <2>1
  <2>4. \A i \in 1..Len(submitted) : submitted[i] # m
    BY <2>1 DEF HistoryInv
  <2>5. \A i, j \in 1..Len(submitted') : submitted'[i] = submitted'[j] => i = j
    BY <2>2, <2>4 DEF HistoryInv
  <2>6. \A n \in Messages :
            signal'[n] # "none" <=> \E i \in 1..Len(submitted') : submitted'[i] = n
    <3>1. ASSUME NEW n \in Messages, n # m
          PROVE  (\E i \in 1..Len(submitted') : submitted'[i] = n)
                     <=> \E i \in 1..Len(submitted) : submitted[i] = n
      BY <2>2, <3>1
    <3>2. \E i \in 1..Len(submitted') : submitted'[i] = m
      BY <2>2
    <3>3. QED
      BY <2>3, <3>1, <3>2 DEF HistoryInv
  <2>7. Len(wire) \in Nat /\ Len(wire) <= Len(submitted)
    BY DEF HistoryInv
  <2>8. \A i \in 1..Len(wire') : wire'[i] = submitted'[i] /\ signal'[wire'[i]] = "Sent"
    <3>1. \A i \in 1..Len(wire) : /\ i \in 1..Len(submitted)
                                  /\ wire[i] = submitted[i]
                                  /\ signal[wire[i]] = "Sent"
      BY <2>2, <2>7 DEF HistoryInv
    <3>2. QED
      BY <2>1, <2>2, <2>3, <2>4, <3>1
  <2>9. SinkOpen' => \A i \in (Len(wire') + 1)..Len(submitted') :
                         signal'[submitted'[i]] = "Sending"
    <3>1. SUFFICES ASSUME SinkOpen, NEW i \in (Len(wire) + 1)..Len(submitted')
                   PROVE  signal'[submitted'[i]] = "Sending"
      BY <2>1
    <3>2. CASE i = Len(submitted) + 1
      BY <2>2, <2>3, <3>1, <3>2
    <3>3. CASE i \in (Len(wire) + 1)..Len(submitted)
      <4>1. i \in 1..Len(submitted) /\ signal[submitted[i]] = "Sending"
        BY <2>7, <3>1, <3>3 DEF HistoryInv
      <4>2. QED
        BY <2>2, <2>3, <2>4, <4>1
    <3>4. QED
      BY <2>2, <2>7, <3>1, <3>2, <3>3
  <2>10. QED
    BY <2>1, <2>2, <2>5, <2>6, <2>7, <2>8, <2>9 DEF HistoryInv
<1>6. CASE Done
  <2>1. /\ signal' = Settled(inflight, "Sent")
        /\ submitted' = submitted
        /\ SinkOpen
    BY <1>6 DEF Done, SinkOpen
  <2>2. CASE inflight \notin Messages
    <3>1. wire' = wire
      BY <1>6, <2>2 DEF Done
    <3>2. \A m \in Messages : signal'[m] = signal[m]
      BY <2>1, <2>2 DEF Settled
    <3>3. QED
      BY <2>1, <3>1, <3>2 DEF HistoryInv
  <2>3. CASE inflight \in Messages
    <3>1. /\ signal[inflight] = "Sending"
          /\ Len(wire) \in Nat /\ Len(submitted) \in Nat
          /\ Len(wire) < Len(submitted)
          /\ submitted[Len(wire) + 1] = inflight
      BY <2>3, NextOnWire
    <3>2. wire' = Append(wire, inflight)
      BY <1>6, <2>3 DEF Done
    <3>3. /\ Len(wire') = Len(wire) + 1
          /\ wire'[Len(wire) + 1] = inflight
          /\ \A i \in 1..Len(wire) : wire'[i] = wire[i] /\ wire[i] \in Messages
          /\ \A i \in 1..Len(wire') : i \in 1..Len(wire) \/ i = Len(wire) + 1
      BY <2>3, <3>2, AddLast
    <3>4. /\ signal'[inflight] = "Sent"
          /\ \A m \in Messages : m # inflight => signal'[m] = signal[m]
      BY <2>1, <2>3 DEF Settled
    <3>5. \A i, j \in 1..Len(submitted) : submitted[i] = submitted[j] => i = j
      BY DEF HistoryInv
    <3>6. \A m \in Messages :
              signal'[m] # "none" <=> \E i \in 1..Len(submitted') : submitted'[i] = m
      BY <2>1, <3>1, <3>4 DEF HistoryInv
    <3>7. \A i \in 1..Len(wire') :
              wire'[i] = submitted'[i] /\ signal'[wire'[i]] = "Sent"
      BY <2>1, <3>1, <3>3, <3>4 DEF HistoryInv
    <3>8. \A i \in (Len(wire') + 1)..Len(submitted') :
              signal'[submitted'[i]] = "Sending"
      <4>1. SUFFICES ASSUME NEW i \in (Len(wire) + 2)..Len(submitted)
                     PROVE  signal'[submitted[i]] = "Sending"
        BY <2>1, <3>1, <3>3
      <4>2. /\ i \in (Len(wire) + 1)..Len(submitted)
            /\ i \in 1..Len(submitted)
            /\ Len(wire) + 1 \in 1..Len(submitted)
            /\ i # Len(wire) + 1
        BY <3>1, <4>1
      <4>3. submitted[i] # inflight /\ submitted[i] \in Messages
        BY <3>1, <3>5, <4>2
      <4>4. signal[submitted[i]] = "Sending"
        BY <2>1, <4>2 DEF HistoryInv
      <4>5. QED
        BY <3>4, <4>3, <4>4
    <3>9. QED
      BY <2>1, <3>1, <3>3, <3>5, <3>6, <3>7, <3>8 DEF HistoryInv
  <2>4. QED
    BY <2>2, <2>3
<1>7. QED
  BY <1>1, <1>2, <1>3, <1>4, <1>5, <1>6

(* Submitting a message that was not submitted before: it comes after all,   *)
(* and the others stay as they were.                                         *)
LEMMA BeforeSubmit ==
    ASSUME SocketTypes, SocketInv, NEW m \in Messages, signal[m] = "none",
           submitted' = Append(submitted, m), NEW k \in Messages, k # m
    PROVE  /\ Before(submitted', k, m)
           /\ \A n \in Messages : n # m /\ Before(submitted, k, n) => Before(submitted', k, n)
<1>1. /\ Len(submitted) \in Nat
      /\ submitted'[Len(submitted) + 1] = m
      /\ \A i \in 1..Len(submitted) : submitted'[i] = submitted[i]
      /\ \A i \in 1..Len(submitted') : i \in 1..Len(submitted) \/ i = Len(submitted) + 1
  BY AddLast DEF SocketTypes
<1>2. \A i \in 1..Len(submitted) : submitted[i] # m
  BY DEF SocketInv, HistoryInv
<1>3. QED
  BY <1>1, <1>2 DEF Before

LEMMA OrderStep ==
    ASSUME SocketTypes, SocketInv,
           Quiet \/ Taken \/ Done \/ Lost \/ Beat \/ \E m \in Messages : Submit(m)
    PROVE  OrderInv'
<1> sink \in Seq(Frames) /\ inflight \in Frames \cup {NoFrame}
  BY DEF SocketTypes
<1>0. /\ sink_actor = "sending" <=> inflight # NoFrame
      /\ \A i, j \in 1..Len(sink) :
             i < j /\ sink[i] \in Messages /\ sink[j] \in Messages =>
                 Before(submitted, sink[i], sink[j])
      /\ inflight \in Messages =>
             \A i \in 1..Len(sink) :
                 sink[i] \in Messages => Before(submitted, inflight, sink[i])
  BY DEF SocketInv, OrderInv
<1>a. ASSUME submitted' = submitted
      PROVE  \A m, n : Before(submitted', m, n) <=> Before(submitted, m, n)
  BY <1>a DEF Before
<1>1. CASE Quiet
  BY <1>0, <1>1, <1>a DEF Quiet, OrderInv
<1>2. CASE Taken
  <2>1. /\ inflight' = sink[1]
        /\ inflight' \in Frames
        /\ Len(sink') = Len(sink) - 1
        /\ Len(sink) \in Nat /\ Len(sink) > 0
        /\ sink_actor' = "sending"
        /\ \A i \in 1..Len(sink') : sink'[i] = sink[i + 1] /\ i + 1 \in 1..Len(sink)
    BY <1>2, TakeHead DEF Taken
  <2>2. \A m, n : Before(submitted', m, n) <=> Before(submitted, m, n)
    BY <1>2, <1>a DEF Taken
  <2>3. inflight' # NoFrame
    BY <2>1, SocketAssumption DEF Frames, HeartbeatFrames
  <2>4. \A i, j \in 1..Len(sink') :
            i < j /\ sink'[i] \in Messages /\ sink'[j] \in Messages =>
                Before(submitted', sink'[i], sink'[j])
    <3>1. SUFFICES ASSUME NEW i \in 1..Len(sink'), NEW j \in 1..Len(sink'), i < j,
                          sink'[i] \in Messages, sink'[j] \in Messages
                   PROVE  Before(submitted, sink'[i], sink'[j])
      BY <2>2
    <3>2. /\ i + 1 \in 1..Len(sink) /\ j + 1 \in 1..Len(sink) /\ i + 1 < j + 1
          /\ sink[i + 1] = sink'[i] /\ sink[j + 1] = sink'[j]
      BY <2>1, <3>1
    <3>3. QED
      BY <1>0, <3>1, <3>2
  <2>5. inflight' \in Messages =>
            \A i \in 1..Len(sink') :
                sink'[i] \in Messages => Before(submitted', inflight', sink'[i])
    <3>1. SUFFICES ASSUME inflight' \in Messages, NEW i \in 1..Len(sink'),
                          sink'[i] \in Messages
                   PROVE  Before(submitted, inflight', sink'[i])
      BY <2>2
    <3>2. /\ 1 \in 1..Len(sink) /\ i + 1 \in 1..Len(sink) /\ 1 < i + 1
          /\ sink[1] = inflight' /\ sink[i + 1] = sink'[i]
      BY <2>1, <3>1
    <3>3. QED
      BY <1>0, <3>1, <3>2
  <2>6. QED
    BY <2>1, <2>3, <2>4, <2>5 DEF OrderInv
<1>3. CASE Done
  BY <1>0, <1>3, <1>a, SocketAssumption DEF Done, OrderInv
<1>4. CASE Lost
  <2>1. /\ sink_actor' = "ended" /\ inflight' = NoFrame
        /\ sink' = <<>> \/ sink' = sink
        /\ submitted' = submitted
    BY <1>4 DEF Lost
  <2>2. \A m, n : Before(submitted', m, n) <=> Before(submitted, m, n)
    BY <2>1, <1>a
  <2>3. CASE sink' = <<>>
    BY <2>1, <2>3, SocketAssumption DEF OrderInv
  <2>4. CASE sink' = sink
    BY <1>0, <2>1, <2>2, <2>4, SocketAssumption DEF OrderInv
  <2>5. QED
    BY <2>1, <2>3, <2>4
<1>5. CASE Beat
  <2>1. PICK f \in HeartbeatFrames : sink' = Append(sink, f)
    BY <1>5 DEF Beat
  <2>2. f \notin Messages /\ f \in Frames
    BY SocketAssumption DEF HeartbeatFrames, Frames
  <2>3. /\ sink'[Len(sink) + 1] = f
        /\ \A i \in 1..Len(sink) : sink'[i] = sink[i]
        /\ \A i \in 1..Len(sink') : i \in 1..Len(sink) \/ i = Len(sink) + 1
    BY <2>1, <2>2, AddLast
  <2>4. UNCHANGED <<sink_actor, inflight, submitted>>
    BY <1>5 DEF Beat
  <2>5. \A m, n : Before(submitted', m, n) <=> Before(submitted, m, n)
    BY <2>4, <1>a
  <2>6. \A i \in 1..Len(sink') :
            sink'[i] \in Messages => i \in 1..Len(sink) /\ sink'[i] = sink[i]
    BY <2>2, <2>3
  <2>7. QED
    BY <1>0, <2>4, <2>5, <2>6 DEF OrderInv
<1>6. ASSUME NEW m \in Messages, Submit(m) PROVE OrderInv'
  <2>1. /\ signal[m] = "none" /\ submitted' = Append(submitted, m)
        /\ UNCHANGED <<sink_actor, inflight>>
        /\ sink' = Append(sink, m) \/ sink' = sink
    BY <1>6 DEF Submit
  <2>2. /\ inflight # m
        /\ \A i \in 1..Len(sink) : sink[i] # m
    BY <2>1 DEF SocketInv, SignalsAccounted, Queued
  <2>3. \A k \in Messages : k # m =>
            /\ Before(submitted', k, m)
            /\ \A n \in Messages : n # m /\ Before(submitted, k, n) => Before(submitted', k, n)
    BY <2>1, BeforeSubmit
  <2>4. m \in Frames
    BY DEF Frames
  <2>5. \A i \in 1..Len(sink') :
            \/ i \in 1..Len(sink) /\ sink'[i] = sink[i]
            \/ i = Len(sink) + 1 /\ sink'[i] = m
    BY <2>1, <2>4, AddLast
  <2>6. Len(sink) \in Nat
    OBVIOUS
  <2>7. \A i, j \in 1..Len(sink') :
            i < j /\ sink'[i] \in Messages /\ sink'[j] \in Messages =>
                Before(submitted', sink'[i], sink'[j])
    <3>1. SUFFICES ASSUME NEW i \in 1..Len(sink'), NEW j \in 1..Len(sink'), i < j,
                          sink'[i] \in Messages, sink'[j] \in Messages
                   PROVE  Before(submitted', sink'[i], sink'[j])
      OBVIOUS
    <3>2. i \in 1..Len(sink) /\ sink'[i] = sink[i] /\ sink[i] # m
      <4>1. i # Len(sink) + 1 \/ j \notin 1..(Len(sink) + 1)
        BY <2>6, <3>1
      <4>2. j \in 1..(Len(sink) + 1)
        BY <2>5, <2>6
      <4>3. QED
        BY <2>2, <2>5, <4>1, <4>2
    <3>3. CASE j \in 1..Len(sink) /\ sink'[j] = sink[j]
      <4>1. Before(submitted, sink[i], sink[j]) /\ sink[j] # m
        BY <1>0, <2>2, <3>1, <3>2, <3>3
      <4>2. QED
        BY <2>3, <3>1, <3>2, <3>3, <4>1
    <3>4. CASE sink'[j] = m
      BY <2>3, <3>1, <3>2, <3>4
    <3>5. QED
      BY <2>5, <3>3, <3>4
  <2>8. inflight' \in Messages =>
            \A i \in 1..Len(sink') :
                sink'[i] \in Messages => Before(submitted', inflight', sink'[i])
    <3>1. SUFFICES ASSUME inflight \in Messages, NEW i \in 1..Len(sink'),
                          sink'[i] \in Messages
                   PROVE  Before(submitted', inflight, sink'[i])
      BY <2>1
    <3>2. CASE i \in 1..Len(sink) /\ sink'[i] = sink[i]
      BY <1>0, <2>2, <2>3, <3>1, <3>2
    <3>3. CASE sink'[i] = m
      BY <2>2, <2>3, <3>1, <3>3
    <3>4. QED
      BY <2>5, <3>2, <3>3
  <2>9. QED
    BY <1>0, <2>1, <2>7, <2>8 DEF OrderInv
<1>7. QED
  BY <1>1, <1>2, <1>3, <1>4, <1>5, <1>6

LEMMA InvStep ==
    SocketTypes /\ SocketInv /\ [SocketNext]_socketVars => SocketInv'
<1> SUFFICES ASSUME SocketTypes, SocketInv, [SocketNext]_socketVars
             PROVE  SocketInv'
  OBVIOUS
<1>1. Idle
  BY DEF SocketInv, OrderInv, Idle
<1>2. Quiet \/ Taken \/ Done \/ Lost \/ Beat \/ \E m \in Messages : Submit(m)
  BY <1>1, Effects
<1>3. QED
  BY <1>2, AccountedStep, HistoryStep, OrderStep DEF SocketInv

-----------------------------------------------------------------------------
(* Queue, sink actor, signals and wire agree on every message.               *)
THEOREM SocketInvariant == SocketSpec => []SocketInv
<1>1. SocketTypeOK => SocketTypes
  BY DEF SocketTypeOK
<1>2. QED
  BY InvInit, SocketType, <1>1, InvStep, PTL DEF SocketSpec

(* No message is lost without a word: Sending means queued once or in the    *)
(* hands of the sink actor, and what is there says Sending.                  *)
THEOREM SocketSignals == SocketSpec => []SignalsAccounted
<1>1. SocketInv => SignalsAccounted
  BY DEF SocketInv
<1>2. QED
  BY SocketInvariant, <1>1, PTL

-----------------------------------------------------------------------------
(* A step of the socket is a step of Delivery or leaves it alone.            *)
LEMMA DeliveryStep ==
    ASSUME SocketTypes, SocketInv, [SocketNext]_socketVars
    PROVE  [D!Next]_D!vars
<1>1. Idle
  BY DEF SocketInv, OrderInv, Idle
<1>2. Quiet \/ Taken \/ Done \/ Lost \/ Beat \/ \E m \in Messages : Submit(m)
  BY <1>1, Effects
<1>3. CASE Quiet \/ Taken \/ Beat
  BY <1>3 DEF Quiet, Taken, Beat, D!vars
<1>4. CASE Done
  <2>1. CASE inflight \in Messages
    <3>1. /\ signal[inflight] = "Sending"
          /\ Len(wire) < Len(submitted)
          /\ submitted[Len(wire) + 1] = inflight
      BY <2>1, NextOnWire
    <3>2. Settled(inflight, "Sent") = [signal EXCEPT ![inflight] = "Sent"]
      BY <2>1 DEF Settled, SocketTypes
    <3>3. D!Deliver(inflight)
      BY <1>4, <2>1, <3>1, <3>2 DEF Done, D!Deliver
    <3>4. QED
      BY <2>1, <3>3 DEF D!Next
  <2>2. CASE inflight \notin Messages
    <3>1. Settled(inflight, "Sent") = signal
      BY <2>2 DEF Settled, SocketTypes
    <3>2. QED
      BY <1>4, <2>2, <3>1 DEF Done, D!vars
  <2>3. QED
    BY <2>1, <2>2
<1>5. CASE Lost
  <2>1. PICK frames \in SUBSET (Queued \cup {inflight}) :
            signal' = Dropped(signal, frames)
    BY <1>5 DEF Lost
  <2>2. \A m \in Messages \cap frames : signal[m] = "Sending"
    BY <2>1 DEF SocketInv, SignalsAccounted
  <2>3. Messages \cap frames \in SUBSET {m \in Messages : signal[m] = "Sending"}
    BY <2>2
  <2>4. signal' = [m \in Messages |->
                      IF m \in Messages \cap frames THEN "Failed" ELSE signal[m]]
    BY <2>1 DEF Dropped
  <2>5. UNCHANGED <<submitted, wire>>
    BY <1>5 DEF Lost
  <2>6. D!Fail
    BY <2>3, <2>4, <2>5 DEF D!Fail
  <2>7. QED
    BY <2>6 DEF D!Next
<1>6. ASSUME NEW m \in Messages, Submit(m) PROVE [D!Next]_D!vars
  <2>1. D!Submit(m)
    BY <1>6 DEF Submit, D!Submit
  <2>2. QED
    BY <2>1 DEF D!Next
<1>7. QED
  BY <1>2, <1>3, <1>4, <1>5, <1>6

(* Through both channels and the heartbeat's frames, messages reach the      *)
(* transport in the order of their submission and without a gap, and each    *)
(* signal settles at most once.                                              *)
THEOREM SocketImplementsDelivery == SocketSpec => ImplementsDelivery
<1>1. SocketInit => D!Init
  BY DEF SocketInit, D!Init
<1>2. SocketTypeOK => SocketTypes
  BY DEF SocketTypeOK
<1>3. SocketTypes /\ SocketInv /\ [SocketNext]_socketVars => [D!Next]_D!vars
  BY DeliveryStep
<1>4. QED
  BY <1>1, <1>2, <1>3, SocketType, SocketInvariant, PTL
     DEF SocketSpec, ImplementsDelivery, D!Spec

-----------------------------------------------------------------------------
(* What the tasks know of each other.                                        *)
LEMMA TaskInit == SocketInit => TaskInv
  BY DEF SocketInit, TaskInv, SinkOpen

LEMMA TaskStep == ASSUME TaskInv, [SocketNext]_socketVars PROVE TaskInv'
<1> USE DEF TaskInv, SinkOpen, sinkVars, streamVars, transport, messages, tasks
<1>1. CASE SinkStep
  BY <1>1 DEF SinkStep, SinkRecv, SinkSent, SinkFailed, SinkClosed, SinkAborted
<1>2. CASE StreamStep
  BY <1>2 DEF StreamStep, StreamSkip, StreamForward, StreamEnd
<1>3. CASE HeartbeatStep
  BY <1>3 DEF HeartbeatStep, HeartbeatPing, HeartbeatTimeout, HeartbeatAborted
<1>4. CASE SupervisorStep
  BY <1>4 DEF SupervisorStep, SupervisorAborts, SupervisorReports, SinkJoined
<1>5. CASE PeerStep
  BY <1>5 DEF PeerStep, LinkBreaks, PeerSends
<1>6. CASE OwnerStep
  <2>1. ASSUME NEW m \in Messages, Submit(m) PROVE TaskInv'
    BY <2>1 DEF Submit
  <2>2. CASE Recv \/ AwaitSinkClose \/ SinkCloseReturns \/ DropStream
    BY <2>2 DEF Recv, AwaitSinkClose, SinkCloseReturns, DropStream
  <2>3. CASE DropSink
    BY <2>3 DEF DropSink
  <2>4. QED
    BY <1>6, <2>1, <2>2, <2>3 DEF OwnerStep
<1>7. CASE UNCHANGED socketVars
  BY <1>7 DEF socketVars
<1>8. QED
  BY <1>1, <1>2, <1>3, <1>4, <1>5, <1>6, <1>7 DEF SocketNext, TransportNext

(* The supervisor reports on a sink actor that has ended, after the stream's *)
(* end, and await_sink_close returns after that.                             *)
THEOREM SocketTasks == SocketSpec => []TaskInv
<1>1. TaskInv /\ [SocketNext]_socketVars => TaskInv'
  BY TaskStep
<1>2. QED
  BY TaskInit, <1>1, PTL DEF SocketSpec

-----------------------------------------------------------------------------
(* What is still to be sent, behind what is on the wire.                     *)
LEMMA PendingSubmit ==
    ASSUME SocketTypes, HistoryInv, SinkOpen, SinkOpen', NEW m \in Messages,
           submitted' = Append(submitted, m), wire' = wire
    PROVE  Pending' = Append(Pending, m)
<1> DEFINE n == Len(submitted)
           k == Len(wire) + 1
<1>1. /\ submitted \in Seq(Messages) /\ n \in Nat
      /\ k \in Nat \ {0} /\ k <= n + 1
  BY DEF SocketTypes, HistoryInv
<1>2. /\ submitted' \in Seq(Messages) /\ Len(submitted') = n + 1
      /\ submitted'[n + 1] = m
      /\ \A i \in 1..n : submitted'[i] = submitted[i]
  BY <1>1, AddLast
<1>3. /\ Pending = SubSeq(submitted, k, n)
      /\ Pending' = SubSeq(submitted', k, n + 1)
  BY <1>2 DEF Pending
<1> HIDE DEF n, k
<1>4. /\ SubSeq(submitted, k, n) \in Seq(Messages)
      /\ Len(SubSeq(submitted, k, n)) = n - k + 1
      /\ \A i \in 1..(n - k + 1) : SubSeq(submitted, k, n)[i] = submitted[k + i - 1]
  BY <1>1 DEF n
<1>5. /\ SubSeq(submitted', k, n + 1) \in Seq(Messages)
      /\ Len(SubSeq(submitted', k, n + 1)) = n - k + 2
      /\ \A i \in 1..(n - k + 2) :
            SubSeq(submitted', k, n + 1)[i] = submitted'[k + i - 1]
  BY <1>1, <1>2 DEF n
<1> DEFINE p == SubSeq(submitted, k, n)
           r == SubSeq(submitted', k, n + 1)
<1> HIDE DEF p, r
<1>6. p \in Seq(Messages) /\ Len(p) = n - k + 1 /\ r \in Seq(Messages) /\ Len(r) = Len(p) + 1
  <2>1. /\ SubSeq(submitted, k, n) \in Seq(Messages)
        /\ SubSeq(submitted', k, n + 1) \in Seq(Messages)
    BY <1>4, <1>5
  <2>2. /\ Len(SubSeq(submitted, k, n)) = n - k + 1
        /\ Len(SubSeq(submitted', k, n + 1)) = Len(SubSeq(submitted, k, n)) + 1
    BY <1>1, <1>4, <1>5
  <2>3. QED
    BY <2>1, <2>2 DEF p, r
<1>7. ASSUME NEW i \in 1..Len(r) PROVE r[i] = Append(p, m)[i]
  <2>1. CASE i \in 1..Len(p)
    <3>1. k + i - 1 \in 1..n
      BY <1>1, <1>6, <2>1
    <3>2. p[i] = submitted[k + i - 1] /\ r[i] = submitted'[k + i - 1]
      BY <1>1, <1>4, <1>5, <1>6, <2>1 DEF p, r
    <3>3. Append(p, m)[i] = p[i]
      BY <1>6, <2>1, AddLast
    <3>4. QED
      BY <1>2, <3>1, <3>2, <3>3
  <2>2. CASE i = Len(p) + 1
    <3>1. k + i - 1 = n + 1 /\ i \in 1..(n - k + 2)
      BY <1>1, <1>6, <2>2
    <3>2. r[i] = submitted'[n + 1]
      BY <1>5, <3>1 DEF r
    <3>3. Append(p, m)[i] = m
      BY <1>6, <2>2, AddLast
    <3>4. QED
      BY <1>2, <3>2, <3>3
  <2>3. QED
    BY <1>6, <2>1, <2>2
<1>8. Append(p, m) \in Seq(Messages) /\ Len(Append(p, m)) = Len(r)
  BY <1>6, AddLast
<1>9. r = Append(p, m)
  BY <1>6, <1>7, <1>8
<1>10. QED
  BY <1>3, <1>9 DEF p, r

(* Its head is the next message of the sink actor, and leaves it last.       *)
LEMMA PendingHead ==
    ASSUME SocketTypes, SocketInv, inflight \in Messages
    PROVE  /\ Pending # <<>>
           /\ Head(Pending) = inflight
           /\ Tail(Pending) = SubSeq(submitted, Len(wire) + 2, Len(submitted))
<1> DEFINE n == Len(submitted)
           k == Len(wire) + 1
<1>1. /\ SinkOpen
      /\ submitted \in Seq(Messages) /\ n \in Nat
      /\ k \in Nat \ {0} /\ k <= n
      /\ submitted[k] = inflight
  BY NextOnWire DEF SocketTypes
<1>2. Pending = SubSeq(submitted, k, n)
  BY <1>1 DEF Pending
<1>3. Len(SubSeq(submitted, k, n)) = n - k + 1
  BY <1>1
<1>4. Head(SubSeq(submitted, k, n)) = submitted[k]
  BY <1>1
<1>5. Tail(SubSeq(submitted, k, n)) = SubSeq(submitted, k + 1, n)
  BY <1>1
<1>6. SubSeq(submitted, k, n) # <<>>
  <2>1. Len(SubSeq(submitted, k, n)) # 0
    BY <1>1, <1>3
  <2>2. Len(<<>>) = 0
    OBVIOUS
  <2>3. QED
    BY <2>1, <2>2, Zenon
<1>7. k + 1 = Len(wire) + 2
  BY <1>1
<1>8. QED
  BY <1>1, <1>2, <1>4, <1>5, <1>6, <1>7

-----------------------------------------------------------------------------
(* A step of the socket is one that OwnedSocket allows, or not seen at all.  *)

LEMMA SamePending ==
    ASSUME UNCHANGED <<submitted, wire>>, SinkOpen' = SinkOpen
    PROVE  Pending' = Pending
  BY DEF Pending

LEMMA Unseen ==
    ASSUME UNCHANGED <<signal, sink_held, stream_held, sink_result, stream,
                       stream_actor, submitted, wire>>,
           SinkOpen' = SinkOpen,
           closer' = "returned" <=> closer = "returned"
    PROVE  UNCHANGED Owned!vars
  BY SamePending DEF Owned!vars, Owned!sinkVars, Owned!heldVars, Owned!ownerVars

(* The messages that fail with the queue of a sink actor that has ended.     *)
LEMMA QueueFails ==
    ASSUME SocketTypes, SocketInv, NEW a, NEW held, NEW beat,
           NEW old \in [Messages -> {"none", "Sending", "Sent", "Failed"}],
           \A m \in Messages : m # inflight => old[m] = signal[m],
           inflight \in Messages => old[inflight] = "Failed",
           Release(a, held, beat, old)
    PROVE  signal' = old \/ (~held /\ a = "ended" /\ Owned!Fails(Owned!Sending))
<1>1. CASE UNCHANGED sink /\ signal' = old
  BY <1>1
<1>2. CASE ~(UNCHANGED sink /\ signal' = old)
  <2>1. ~held /\ a = "ended" /\ signal' = Dropped(old, Queued)
    BY <1>2, Zenon DEF Release
  <2>2. ASSUME NEW m \in Messages
        PROVE  Dropped(old, Queued)[m]
                   = IF m \in Owned!Sending THEN "Failed" ELSE signal[m]
    <3>1. m \in Owned!Sending <=> m \in Queued \/ m = inflight
      BY DEF SocketInv, SignalsAccounted, Owned!Sending
    <3>2. CASE m = inflight
      BY <3>1, <3>2 DEF Dropped
    <3>3. CASE m # inflight
      BY <3>1, <3>3 DEF Dropped
    <3>4. QED
      BY <3>2, <3>3
  <2>3. Dropped(old, Queued)
            = [m \in Messages |-> IF m \in Owned!Sending THEN "Failed" ELSE signal[m]]
    BY <2>2 DEF Dropped
  <2>4. QED
    BY <2>1, <2>3 DEF Owned!Fails
<1>3. QED
  BY <1>1, <1>2

(* The sink actor ends by itself only when it is let go, or after the end of *)
(* the stream.                                                               *)
LEMMA SinkStopsPromise ==
    ASSUME SocketTypes, SocketInv, TaskInv, SinkFailed \/ SinkClosed \/ SinkAborted
    PROVE  \E res \in {"ok", "failed"} : Owned!Stop(res)
<1> USE DEF sinkVars, streamVars, transport, messages, tasks
<1>1. SinkOpen /\ ~SinkOpen'
  BY DEF SinkFailed, SinkClosed, SinkAborted, SinkOpen
<1>2. UNCHANGED <<sink_held, stream_held, stream, stream_actor, closer, heartbeat>>
  BY DEF SinkFailed, SinkClosed, SinkAborted
<1>3. Pending' = <<>>
  BY <1>1 DEF Pending
<1>4. signal \in [Messages -> {"none", "Sending", "Sent", "Failed"}]
  BY DEF SocketTypes
<1>5. CASE SinkFailed
  <2>1. sink_result' = "failed"
    BY <1>5 DEF SinkFailed
  <2>2. \/ UNCHANGED signal
        \/ Pending # <<>> /\ Owned!Fails({Head(Pending)})
        \/ ~sink_held /\ Owned!Fails(Owned!Sending)
    <3> DEFINE old == Settled(inflight, "Failed")
    <3>1. /\ old \in [Messages -> {"none", "Sending", "Sent", "Failed"}]
          /\ \A m \in Messages : m # inflight => old[m] = signal[m]
          /\ inflight \in Messages => old[inflight] = "Failed"
      BY <1>4, SettledType DEF Settled
    <3>2. Release("ended", sink_held, heartbeat, old)
      BY <1>5 DEF SinkFailed
    <3>3. signal' = old \/ (~sink_held /\ Owned!Fails(Owned!Sending))
      BY <3>1, <3>2, QueueFails
    <3>4. CASE inflight \in Messages /\ signal' = old
      <4>1. old = [m \in Messages |-> IF m \in {inflight} THEN "Failed" ELSE signal[m]]
        BY DEF Settled
      <4>2. Pending # <<>> /\ Head(Pending) = inflight
        BY <3>4, PendingHead
      <4>3. QED
        BY <3>4, <4>1, <4>2 DEF Owned!Fails
    <3>5. CASE inflight \notin Messages /\ signal' = old
      <4>1. old = signal
        BY <1>4, <3>5 DEF Settled
      <4>2. QED
        BY <3>5, <4>1
    <3>6. QED
      BY <3>3, <3>4, <3>5
  <2>3. Owned!Stop("failed")
    BY <1>1, <1>2, <1>3, <2>1, <2>2 DEF Owned!Stop, Owned!Held, Owned!heldVars
  <2>4. QED
    BY <2>3
<1>6. CASE SinkClosed
  <2>1. sink_result' = "ok" /\ ~sink_held /\ signal' = signal
    BY <1>6 DEF SinkClosed
  <2>2. Owned!Stop("ok")
    BY <1>1, <1>2, <1>3, <2>1 DEF Owned!Stop, Owned!Held, Owned!heldVars
  <2>3. QED
    BY <2>2
<1>7. CASE SinkAborted
  <2>1. sink_result' = "ok" /\ stream_actor = "ended"
    BY <1>7 DEF SinkAborted, TaskInv
  <2>2. signal' = signal \/ (~sink_held /\ Owned!Fails(Owned!Sending))
    <3>1. inflight \notin Messages
      BY <1>7, SocketAssumption DEF SinkAborted, SocketInv, OrderInv
    <3>2. Release("ended", sink_held, heartbeat, signal)
      BY <1>7 DEF SinkAborted
    <3>3. QED
      BY <1>4, <3>1, <3>2, QueueFails
  <2>3. Owned!Stop("ok")
    BY <1>1, <1>2, <1>3, <2>1, <2>2 DEF Owned!Stop, Owned!Held, Owned!heldVars
  <2>4. QED
    BY <2>3
<1>8. QED
  BY <1>5, <1>6, <1>7

(* A sent message of the owner was the next one; a frame of the heartbeat is *)
(* not seen.                                                                 *)
LEMMA SentPromise ==
    ASSUME SocketTypes, SocketInv, SinkSent
    PROVE  Owned!Deliver \/ UNCHANGED Owned!vars
<1> USE DEF sinkVars, streamVars, transport, messages, tasks
<1>1. /\ UNCHANGED <<sink_held, stream_held, sink_result, stream, stream_actor,
                     closer, submitted>>
      /\ SinkOpen /\ SinkOpen'
      /\ signal' = Settled(inflight, "Sent")
  BY DEF SinkSent, SinkOpen
<1>2. CASE inflight \in Messages
  <2>1. /\ Pending # <<>>
        /\ Head(Pending) = inflight
        /\ Tail(Pending) = SubSeq(submitted, Len(wire) + 2, Len(submitted))
    BY <1>2, PendingHead
  <2>2. Len(wire') = Len(wire) + 1 /\ Len(wire) \in Nat
    BY <1>2, AddLast DEF SinkSent, SocketTypes
  <2>3. Len(wire') + 1 = Len(wire) + 2
    BY <2>2
  <2>4. Pending' = Tail(Pending)
    BY <1>1, <2>1, <2>3 DEF Pending
  <2>5. signal' = [signal EXCEPT ![inflight] = "Sent"]
    BY <1>1, <1>2 DEF Settled, SocketTypes
  <2>6. Owned!Deliver
    BY <1>1, <2>1, <2>4, <2>5 DEF Owned!Deliver, Owned!heldVars, Owned!ownerVars
  <2>7. QED
    BY <2>6
<1>3. CASE inflight \notin Messages
  <2>1. wire' = wire
    BY <1>3 DEF SinkSent
  <2>2. signal' = signal
    BY <1>1, <1>3 DEF Settled, SocketTypes
  <2>3. QED
    BY <1>1, <2>1, <2>2, Unseen
<1>4. QED
  BY <1>2, <1>3

LEMMA StreamPromise ==
    ASSUME SocketTypes, StreamStep
    PROVE  Owned!Next \/ UNCHANGED Owned!vars
<1> USE DEF sinkVars, streamVars, transport, messages, tasks
<1>1. /\ UNCHANGED <<sink_held, stream_held, sink_result, closer, submitted, wire,
                     signal, sink_actor>>
      /\ stream_actor = "run"
  BY DEF StreamStep, StreamSkip, StreamForward, StreamEnd
<1>2. SinkOpen' = SinkOpen /\ Pending' = Pending
  BY <1>1, SamePending DEF SinkOpen
<1>3. ASSUME stream_actor' = "ended", stream' = stream
      PROVE  Owned!End \/ UNCHANGED Owned!vars
  <2>1. CASE sink_held \/ stream_held
    BY <1>1, <1>2, <1>3, <2>1 DEF Owned!End, Owned!Held, Owned!sinkVars, Owned!heldVars
  <2>2. CASE ~(sink_held \/ stream_held)
    BY <1>1, <1>2, <1>3, <2>2
       DEF Owned!vars, Owned!sinkVars, Owned!heldVars, Owned!ownerVars
  <2>3. QED
    BY <2>1, <2>2
<1>4. CASE StreamSkip
  BY <1>1, <1>2, <1>4, Unseen DEF StreamSkip
<1>5. CASE StreamForward
  <2>1. CASE stream_held
    <3>1. /\ Head(inbound) \in {"data", "close", "error"}
          /\ stream' = Append(stream, Head(inbound)) /\ stream_actor' = stream_actor
      BY <1>5, <2>1 DEF StreamForward, Forwarded
    <3>2. Owned!Yield(Head(inbound))
      BY <1>1, <1>2, <2>1, <3>1 DEF Owned!Yield, Owned!sinkVars, Owned!heldVars
    <3>3. QED
      BY <3>1, <3>2 DEF Owned!Next, Owned!SocketStep
  <2>2. CASE ~stream_held
    <3>1. stream_actor' = "ended" /\ stream' = stream
      BY <1>5, <2>2 DEF StreamForward
    <3>2. QED
      BY <1>3, <3>1 DEF Owned!Next, Owned!SocketStep
  <2>3. QED
    BY <2>1, <2>2
<1>6. CASE StreamEnd
  BY <1>3, <1>6 DEF StreamEnd, Owned!Next, Owned!SocketStep
<1>7. QED
  BY <1>4, <1>5, <1>6 DEF StreamStep

(* Without an owner's Sink the heartbeat's may be the last one.              *)
LEMMA HeartbeatPromise ==
    ASSUME SocketTypes, SocketInv, HeartbeatStep
    PROVE  Owned!DropRest \/ UNCHANGED Owned!vars
<1> USE DEF sinkVars, streamVars, transport, messages, tasks
<1>1. /\ UNCHANGED <<sink_held, stream_held, sink_result, stream, stream_actor,
                     closer, submitted, wire, sink_actor, inflight>>
      /\ UNCHANGED signal \/ EndHeartbeat
  BY DEF HeartbeatStep, HeartbeatPing, HeartbeatTimeout, HeartbeatAborted
<1>2. SinkOpen' = SinkOpen /\ Pending' = Pending
  BY <1>1, SamePending DEF SinkOpen
<1>3. CASE UNCHANGED signal
  BY <1>1, <1>2, <1>3, Unseen
<1>4. CASE EndHeartbeat
  <2>1. CASE sink_actor = "ended"
    <3>1. inflight \notin Messages
      BY <2>1, SocketAssumption DEF SocketInv, OrderInv
    <3>2. signal' = signal \/ (~sink_held /\ Owned!Fails(Owned!Sending))
      BY <1>4, <3>1, QueueFails DEF EndHeartbeat, SocketTypes
    <3>3. CASE ~sink_held /\ Owned!Fails(Owned!Sending)
      BY <1>1, <1>2, <2>1, <3>3 DEF Owned!DropRest, Owned!heldVars, Owned!ownerVars, SinkOpen
    <3>4. QED
      BY <1>3, <3>2, <3>3
  <2>2. CASE sink_actor # "ended"
    BY <1>3, <1>4, <2>2, ReleaseCases DEF EndHeartbeat
  <2>3. QED
    BY <2>1, <2>2
<1>5. QED
  BY <1>1, <1>3, <1>4

LEMMA OwnerPromise ==
    ASSUME SocketTypes, SocketInv, TaskInv, OwnerStep
    PROVE  Owned!OwnerStep \/ UNCHANGED Owned!vars
<1> USE DEF sinkVars, streamVars, transport, messages, tasks
<1>1. ASSUME NEW m \in Messages, Submit(m) PROVE Owned!Submit(m)
  <2>1. /\ UNCHANGED <<sink_held, stream_held, sink_result, stream, stream_actor,
                       closer, wire, sink_actor>>
        /\ sink_held /\ signal[m] = "none" /\ submitted' = Append(submitted, m)
        /\ SinkOpen' = SinkOpen
    BY <1>1 DEF Submit, SinkOpen
  <2>2. /\ SinkOpen => signal' = [signal EXCEPT ![m] = "Sending"]
        /\ ~SinkOpen => signal' = [signal EXCEPT ![m] = "Failed"]
    BY <1>1 DEF Submit
  <2>3. SinkOpen => Pending' = Append(Pending, m)
    BY <2>1, PendingSubmit DEF SocketInv
  <2>4. ~SinkOpen => Pending' = Pending
    BY <2>1 DEF Pending
  <2>5. Owned!LetGo
    BY <2>1 DEF Owned!LetGo
  <2>6. QED
    BY <2>1, <2>2, <2>3, <2>4, <2>5 DEF Owned!Submit
<1>2. CASE Recv
  <2>1. SinkOpen' = SinkOpen /\ Pending' = Pending
    BY <1>2, SamePending DEF Recv, SinkOpen
  <2>2. Owned!Take
    BY <1>2, <2>1 DEF Recv, Owned!Take, Owned!sinkVars, Owned!heldVars
  <2>3. QED
    BY <2>2 DEF Owned!OwnerStep
<1>3. CASE AwaitSinkClose
  BY <1>3, Unseen DEF AwaitSinkClose, SinkOpen
<1>4. CASE SinkCloseReturns
  <2>1. SinkOpen' = SinkOpen /\ Pending' = Pending
    BY <1>4, SamePending DEF SinkCloseReturns, SinkOpen
  <2>2. CASE sink_held /\ stream_held
    <3>1. stream_actor = "ended" /\ ~SinkOpen
      BY <1>4 DEF SinkCloseReturns, TaskInv, SinkOpen
    <3>2. Owned!Tell
      BY <1>4, <2>1, <2>2, <3>1
         DEF SinkCloseReturns, Owned!Tell, Owned!sinkVars, Owned!heldVars
    <3>3. QED
      BY <3>2 DEF Owned!OwnerStep
  <2>3. CASE ~(sink_held /\ stream_held)
    BY <1>4, <2>1, <2>3 DEF SinkCloseReturns, Owned!vars, Owned!sinkVars,
       Owned!heldVars, Owned!ownerVars
  <2>4. QED
    BY <2>2, <2>3
<1>5. CASE DropSink
  <2>1. SinkOpen' = SinkOpen /\ Pending' = Pending
    BY <1>5, SamePending DEF DropSink, SinkOpen
  <2>2. \/ signal' = signal
        \/ ~SinkOpen /\ Owned!Fails(Owned!Sending)
    <3>1. CASE sink_actor = "ended"
      <4>1. inflight \notin Messages
        BY <3>1, SocketAssumption DEF SocketInv, OrderInv
      <4>2. QED
        BY <1>5, <3>1, <4>1, QueueFails DEF DropSink, SocketTypes, SinkOpen
    <3>2. CASE sink_actor # "ended"
      BY <1>5, <3>2, ReleaseCases DEF DropSink
    <3>3. QED
      BY <3>1, <3>2
  <2>3. /\ sink_held' = FALSE
        /\ UNCHANGED <<sink_result, stream, stream_actor, stream_held, closer>>
    BY <1>5 DEF DropSink
  <2>4. Owned!LetGo
    BY <2>3 DEF Owned!LetGo
  <2>5. Owned!Leave
    BY <2>1, <2>2, <2>3, <2>4 DEF Owned!Leave
  <2>6. QED
    BY <2>5 DEF Owned!OwnerStep
<1>6. CASE DropStream
  <2>1. SinkOpen' = SinkOpen /\ Pending' = Pending
    BY <1>6, SamePending DEF DropStream, SinkOpen
  <2>2. Owned!LetGo
    BY <1>6 DEF DropStream, Owned!LetGo
  <2>3. Owned!Leave
    BY <1>6, <2>1, <2>2 DEF DropStream, Owned!Leave
  <2>4. QED
    BY <2>3 DEF Owned!OwnerStep
<1>7. QED
  BY <1>1, <1>2, <1>3, <1>4, <1>5, <1>6 DEF OwnerStep, Owned!OwnerStep

LEMMA PromiseStep ==
    ASSUME SocketTypes, SocketInv, TaskInv, [SocketNext]_socketVars
    PROVE  [Owned!Next]_Owned!vars
<1> USE DEF sinkVars, streamVars, transport, messages, tasks
<1>1. CASE SinkRecv
  BY <1>1, Unseen DEF SinkRecv, SinkOpen
<1>2. CASE SinkSent
  BY <1>2, SentPromise DEF Owned!Next, Owned!SocketStep
<1>3. CASE SinkFailed \/ SinkClosed \/ SinkAborted
  BY <1>3, SinkStopsPromise DEF Owned!Next, Owned!SocketStep
<1>4. CASE StreamStep
  BY <1>4, StreamPromise
<1>5. CASE HeartbeatStep
  BY <1>5, HeartbeatPromise DEF Owned!Next, Owned!SocketStep
<1>6. CASE SupervisorStep
  BY <1>6, Unseen DEF SupervisorStep, SupervisorAborts, SupervisorReports, SinkOpen
<1>7. CASE PeerStep
  BY <1>7, Unseen DEF PeerStep, LinkBreaks, PeerSends, SinkOpen
<1>8. CASE OwnerStep
  BY <1>8, OwnerPromise DEF Owned!Next
<1>9. CASE UNCHANGED socketVars
  BY <1>9, Unseen DEF socketVars, SinkOpen
<1>10. QED
  BY <1>1, <1>2, <1>3, <1>4, <1>5, <1>6, <1>7, <1>8, <1>9
     DEF SocketNext, TransportNext, SinkStep

(* The four tasks and their channels keep the promise of OwnedSocket to      *)
(* whoever owns the Socket.                                                  *)
THEOREM SocketKeepsPromise == SocketSpec => KeepsPromise
<1>1. SocketInit => Owned!Init
  BY DEF SocketInit, Owned!Init, Pending, SinkOpen
<1>2. SocketTypeOK => SocketTypes
  BY DEF SocketTypeOK
<1>3. SocketTypes /\ SocketInv /\ TaskInv /\ [SocketNext]_socketVars
          => [Owned!Next]_Owned!vars
  BY PromiseStep
<1>4. QED
  BY <1>1, <1>2, <1>3, SocketType, SocketInvariant, SocketTasks, PTL
     DEF SocketSpec, KeepsPromise, Owned!Spec

LEMMA OwnerInformedStep ==
    Owned!OwnerInformed /\ [Owned!Next]_Owned!vars => Owned!OwnerInformed'
<1> SUFFICES ASSUME Owned!OwnerInformed, [Owned!Next]_Owned!vars
             PROVE  Owned!OwnerInformed'
  OBVIOUS
<1> USE DEF Owned!OwnerInformed, Owned!sinkVars, Owned!heldVars, Owned!ownerVars
<1>1. ASSUME NEW m \in Messages, Owned!Submit(m) PROVE Owned!OwnerInformed'
  BY <1>1 DEF Owned!Submit, Owned!LetGo
<1>2. CASE Owned!Leave
  <2>1. Owned!LetGo /\ SinkOpen' = SinkOpen
    BY <1>2 DEF Owned!Leave
  <2>2. sink_held' \in {sink_held, FALSE}
    BY <2>1 DEF Owned!LetGo
  <2>3. sink_held' => sink_held
    BY <2>2
  <2>4. QED
    BY <2>1, <2>3 DEF Owned!LetGo
<1>3. CASE Owned!Take \/ Owned!Tell
  BY <1>3 DEF Owned!Take, Owned!Tell
<1>4. CASE Owned!Deliver \/ Owned!DropRest \/ Owned!End
  BY <1>4 DEF Owned!Deliver, Owned!DropRest, Owned!End
<1>5. ASSUME NEW res \in {"ok", "failed"}, Owned!Stop(res) PROVE Owned!OwnerInformed'
  BY <1>5 DEF Owned!Stop, Owned!Held
<1>6. ASSUME NEW item \in {"data", "close", "error"}, Owned!Yield(item)
      PROVE  Owned!OwnerInformed'
  BY <1>6 DEF Owned!Yield
<1>7. CASE UNCHANGED Owned!vars
  BY <1>7 DEF Owned!vars
<1>8. QED
  BY <1>1, <1>2, <1>3, <1>4, <1>5, <1>6, <1>7
     DEF Owned!Next, Owned!OwnerStep, Owned!SocketStep

(* So the owner is told the truth: when await_sink_close returns, the sink   *)
(* is closed, the stream over and the result a real one; and a sink that     *)
(* ends well under its owner does so after the end of the stream only.       *)
THEOREM SocketOwnerInformed == SocketSpec => []Owned!OwnerInformed
<1>1. Owned!Init => Owned!OwnerInformed
  BY DEF Owned!Init, Owned!OwnerInformed
<1>2. Owned!OwnerInformed /\ [Owned!Next]_Owned!vars => Owned!OwnerInformed'
  BY OwnerInformedStep
<1>3. QED
  BY <1>1, <1>2, SocketKeepsPromise, PTL DEF KeepsPromise, Owned!Spec

=============================================================================
