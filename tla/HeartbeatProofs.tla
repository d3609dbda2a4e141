--------------------------- MODULE HeartbeatProofs ---------------------------
(* The bounds of the heartbeat for every configuration, lag and round trip.  *)
EXTENDS Heartbeat, TLAPS

(* A configuration's fields are numbers.                                     *)
LEMMA ConfigNumbers ==
    ASSUME config \in Configs
    PROVE  /\ config.heartbeat \in Nat
           /\ config.timeout \in Nat
           /\ Lag \in Nat
           /\ RoundTrip \in Nat
           /\ Period \in Nat
           /\ Period = config.heartbeat + 3 * Lag
  BY HeartbeatAssumption DEF Period

-----------------------------------------------------------------------------
(* Every variable keeps its type.                                            *)
LEMMA TypeInit == Init => HeartbeatTypeOK
<1> SUFFICES ASSUME Init PROVE HeartbeatTypeOK
  OBVIOUS
<1>1. config.heartbeat \in Nat /\ 0 \in 0..Lag
  BY ConfigNumbers DEF Init
<1>2. abort \in BOOLEAN /\ sink_open \in BOOLEAN /\ unanswered \in BOOLEAN
  BY DEF Init
<1>3. QED
  BY <1>1, <1>2 DEF Init, HeartbeatTypeOK

LEMMA TypeStep == HeartbeatTypeOK /\ [Next]_vars => HeartbeatTypeOK'
<1> SUFFICES ASSUME HeartbeatTypeOK, [Next]_vars PROVE HeartbeatTypeOK'
  OBVIOUS
<1> USE DEF HeartbeatTypeOK, taskVars, peerVars
<1>0. /\ config.heartbeat \in Nat /\ config.timeout \in Nat
      /\ Lag \in Nat /\ RoundTrip \in Nat /\ Period \in Nat
  BY ConfigNumbers
<1>1. CASE ReadLastAlive
  BY <1>0, <1>1 DEF ReadLastAlive
<1>2. CASE Aborted
  BY <1>0, <1>2 DEF Aborted
<1>3. CASE GiveUp
  BY <1>0, <1>3 DEF GiveUp
<1>4. CASE SleepOn
  <2>1. Remaining \in Nat
    BY <1>0 DEF Remaining
  <2>2. QED
    BY <1>0, <1>4, <2>1 DEF SleepOn
<1>5. CASE Ping
  <2>1. CASE sink_open
    BY <1>0, <1>5, <2>1 DEF Ping, SleepAfterPing
  <2>2. CASE ~sink_open
    BY <1>0, <1>5, <2>2 DEF Ping
  <2>3. QED
    BY <2>1, <2>2
<1>6. CASE FrameRead
  BY <1>0, <1>6 DEF FrameRead, Refresh
<1>7. CASE PeerDies
  BY <1>0, <1>7 DEF PeerDies
<1>8. CASE StreamEnds
  BY <1>0, <1>8 DEF StreamEnds
<1>9. CASE SinkCloses
  BY <1>0, <1>9 DEF SinkCloses
<1>10. CASE Tick
  BY <1>0, <1>10 DEF Tick
<1>11. CASE UNCHANGED vars
  BY <1>11 DEF vars
<1>12. QED
  BY <1>1, <1>2, <1>3, <1>4, <1>5, <1>6, <1>7, <1>8, <1>9, <1>10, <1>11
     DEF Next, Task

(* The variables keep their types, for any set of configurations.            *)
THEOREM HeartbeatType == Spec => []HeartbeatTypeOK
<1>1. QED
  BY TypeInit, TypeStep, PTL DEF Spec

-----------------------------------------------------------------------------
(* The five parts of HeartbeatInv hold at first and in every step.           *)
LEMMA InvInit == Init => HeartbeatInv
<1> SUFFICES ASSUME Init PROVE HeartbeatInv
  OBVIOUS
<1>1. /\ config.heartbeat \in Nat /\ config.timeout \in Nat
      /\ Lag \in Nat /\ RoundTrip \in Nat /\ Period \in Nat
  BY ConfigNumbers DEF Init
<1>2. QED
  BY <1>1 DEF Init, HeartbeatInv, CheckInv, SleepInv, TrafficInv, SpacingInv, LiveInv

LEMMA InvStep == HeartbeatTypeOK /\ HeartbeatInv /\ [Next]_vars => HeartbeatInv'
<1> SUFFICES ASSUME HeartbeatTypeOK, HeartbeatInv, [Next]_vars
             PROVE  HeartbeatInv'
  OBVIOUS
<1> USE DEF HeartbeatTypeOK, taskVars, peerVars, HeartbeatInv
<1>0. /\ config.heartbeat \in Nat /\ config.timeout \in Nat
      /\ Lag \in Nat /\ RoundTrip \in Nat
      /\ Period = config.heartbeat + 3 * Lag
  BY ConfigNumbers
<1>p. config' = config => Period' = Period
  BY DEF Period
<1>1. CASE ReadLastAlive
  BY <1>0, <1>p, <1>1 DEF ReadLastAlive, CheckInv, SleepInv, TrafficInv, SpacingInv, LiveInv
<1>2. CASE Aborted
  BY <1>0, <1>p, <1>2 DEF Aborted, CheckInv, SleepInv, TrafficInv, SpacingInv, LiveInv
<1>3. CASE GiveUp
  BY <1>0, <1>p, <1>3 DEF GiveUp, CheckInv, SleepInv, TrafficInv, SpacingInv, LiveInv
<1>4. CASE SleepOn
  BY <1>0, <1>p, <1>4 DEF SleepOn, Heard, Remaining, CheckInv, SleepInv, TrafficInv,
     SpacingInv, LiveInv
<1>5. CASE Ping
  BY <1>0, <1>p, <1>5 DEF Ping, Heard, TimedOut, SleepAfterPing, CheckInv, SleepInv,
     TrafficInv, SpacingInv, LiveInv
<1>6. CASE FrameRead
  BY <1>0, <1>p, <1>6 DEF FrameRead, Refresh, CheckInv, SleepInv, TrafficInv,
     SpacingInv, LiveInv
<1>7. CASE PeerDies
  BY <1>0, <1>p, <1>7 DEF PeerDies, CheckInv, SleepInv, TrafficInv, SpacingInv, LiveInv
<1>8. CASE StreamEnds
  BY <1>0, <1>p, <1>8 DEF StreamEnds, CheckInv, SleepInv, TrafficInv, SpacingInv, LiveInv
<1>9. CASE SinkCloses
  BY <1>0, <1>p, <1>9 DEF SinkCloses, CheckInv, SleepInv, TrafficInv, SpacingInv, LiveInv
<1>10. CASE Tick
  <2> USE <1>0, <1>p, <1>10 DEF Tick
  <2>1. CheckInv'
    BY DEF CheckInv, Runnable
  <2>2. SleepInv'
    BY DEF SleepInv, Runnable
  <2>3. TrafficInv'
    BY DEF CheckInv, TrafficInv, Runnable
  <2>4. SpacingInv'
    BY DEF SpacingInv, CheckInv
  <2>5. LiveInv'
    BY DEF LiveInv, CheckInv, Runnable, AnswerDue
  <2>6. QED
    BY <2>1, <2>2, <2>3, <2>4, <2>5
<1>11. CASE UNCHANGED vars
  BY <1>0, <1>p, <1>11 DEF vars, CheckInv, SleepInv, TrafficInv, SpacingInv, LiveInv
<1>12. QED
  BY <1>1, <1>2, <1>3, <1>4, <1>5, <1>6, <1>7, <1>8, <1>9, <1>10, <1>11
     DEF Next, Task

(* The inductive invariant: each phase bounds the silence, the age of the    *)
(* last ping and what a live peer still has to answer.                       *)
THEOREM HeartbeatInvariant == Spec => []HeartbeatInv
<1>1. QED
  BY TypeInit, TypeStep, InvInit, InvStep, PTL DEF Spec

-----------------------------------------------------------------------------
(* A peer that answers its pings is never given up under a Patient           *)
(* configuration, for every heartbeat, timeout, lag and round trip.          *)
THEOREM LivePeer == Spec => []LivePeerKept
<1>1. HeartbeatTypeOK /\ HeartbeatInv => LivePeerKept
  BY ConfigNumbers DEF HeartbeatTypeOK, HeartbeatInv, LiveInv, LivePeerKept,
     Patient, TimedOut
<1>2. QED
  BY <1>1, HeartbeatType, HeartbeatInvariant, PTL

(* No running heartbeat looks on at a silence longer than timeout, heartbeat *)
(* and the delays of its polls.                                              *)
THEOREM Silence == Spec => []SilenceBounded
<1>1. HeartbeatTypeOK /\ HeartbeatInv => SilenceBounded
  BY ConfigNumbers DEF HeartbeatTypeOK, HeartbeatInv, CheckInv, SleepInv,
     SilenceBounded
<1>2. QED
  BY <1>1, HeartbeatType, HeartbeatInvariant, PTL

(* Within every Period a frame is read or a ping sent.                       *)
THEOREM KeepAlive == Spec => []KeepAliveTraffic
<1>1. HeartbeatTypeOK /\ HeartbeatInv => KeepAliveTraffic
  BY ConfigNumbers DEF HeartbeatTypeOK, HeartbeatInv, CheckInv, TrafficInv,
     KeepAliveTraffic
<1>2. QED
  BY <1>1, HeartbeatType, HeartbeatInvariant, PTL

(* Two pings are at least a heartbeat apart.                                 *)
THEOREM Spacing == Spec => PingsSpaced
<1>1. HeartbeatTypeOK /\ HeartbeatInv /\ [Next]_vars =>
          [ Ping /\ sink_open => pinged >= config.heartbeat ]_vars
  BY DEF HeartbeatInv, SpacingInv, Ping
<1>2. QED
  BY <1>1, HeartbeatType, HeartbeatInvariant, PTL DEF Spec, PingsSpaced

=============================================================================
