------------------------------ MODULE Heartbeat ------------------------------
(* The timing of a Socket's heartbeat (socket_heartbeat and                  *)
(* handle_heartbeat_sleep_elapsed in socket.rs) in discrete time: the sleep, *)
(* the age of last_alive, the pings and a peer that answers them until it    *)
(* dies.  Module Socket has what the frames do to the sink; here they are    *)
(* only sent.                                                                *)
EXTENDS Integers

CONSTANTS
    Configs,    \* the SocketConfigs: records of heartbeat and timeout
    Lag,        \* how long a task that can run may wait for its poll
    RoundTrip   \* a live peer's answer to a ping is read within this time

ASSUME HeartbeatAssumption ==
    /\ Configs \subseteq [heartbeat : Nat, timeout : Nat]
    /\ Lag \in Nat
    /\ RoundTrip \in Nat

VARIABLES
    config,
    phase,      \* "sleeping", "checked" (last_alive is read) or "ended"
    sleep,      \* what is left of the sleep
    late,       \* how long the task has been waiting for its poll
    elapsed,    \* elapsed_since_last_alive, as read
    silent,     \* the true age of last_alive
    abort,      \* the stream has ended: a message in the abort channel
    sink_open,
    peer,       \* "alive": it answers pings; "dead": nothing comes any more
    unanswered, \* a ping was sent since the last frame of the peer
    waiting,    \* the age of the first such ping, up to RoundTrip
    pinged      \* history: time since the last ping, or since the start

taskVars == <<config, phase, sleep, elapsed>>
peerVars == <<peer, unanswered, waiting>>
vars == <<taskVars, late, silent, abort, sink_open, peerVars, pinged>>

HeartbeatTypeOK ==
    /\ config \in Configs
    /\ phase \in {"sleeping", "checked", "ended"}
    /\ sleep \in Nat
    /\ late \in 0..Lag
    /\ elapsed \in Nat
    /\ silent \in Nat
    /\ abort \in BOOLEAN
    /\ sink_open \in BOOLEAN
    /\ peer \in {"alive", "dead"}
    /\ unanswered \in BOOLEAN
    /\ waiting \in Nat
    /\ pinged \in Nat

Init ==
    /\ config \in Configs
    /\ phase = "sleeping"
    /\ sleep = config.heartbeat
    /\ late = 0
    /\ elapsed = 0
    /\ silent = 0
    /\ abort = FALSE
    /\ sink_open = TRUE
    /\ peer = "alive"
    /\ unanswered = FALSE
    /\ waiting = 0
    /\ pinged = 0

-----------------------------------------------------------------------------
(* The task.  Its select takes either branch that is ready; between reading  *)
(* last_alive and acting on it the stream actor may store a newer Instant.   *)

ReadLastAlive ==
    /\ phase = "sleeping"
    /\ sleep = 0
    /\ phase' = "checked"
    /\ elapsed' = silent
    /\ late' = 0
    /\ UNCHANGED <<config, sleep, silent, abort, sink_open, peerVars, pinged>>

Aborted ==
    /\ phase = "sleeping"
    /\ abort
    /\ phase' = "ended"
    /\ abort' = FALSE
    /\ UNCHANGED <<config, sleep, elapsed, late, silent, sink_open, peerVars,
                   pinged>>

MutTimedOut == elapsed > config.heartbeat + config.timeout

MutTimedOutAsked == elapsed > config.timeout /\ ~unanswered

TimedOut == elapsed > config.timeout

(* Close(Abnormal), whether or not the sink takes it, and the end.           *)
GiveUp ==
    /\ phase = "checked"
    /\ TimedOut
    /\ phase' = "ended"
    /\ UNCHANGED <<config, sleep, elapsed, late, silent, abort, sink_open,
                   peerVars, pinged>>

Heard == elapsed < config.heartbeat

MutRemaining == config.heartbeat

(* saturating_sub.                                                           *)
Remaining == IF elapsed < config.heartbeat THEN config.heartbeat - elapsed ELSE 0

SleepOn ==
    /\ phase = "checked"
    /\ ~TimedOut
    /\ Heard
    /\ phase' = "sleeping"
    /\ sleep' = Remaining
    /\ late' = 0
    /\ elapsed' = 0
    /\ UNCHANGED <<config, silent, abort, sink_open, peerVars, pinged>>

SleepAfterPing == config.heartbeat

(* A ping that the sink refuses is the end.                                  *)
Ping ==
    /\ phase = "checked"
    /\ ~TimedOut
    /\ ~Heard
    /\ elapsed' = 0
    /\ IF sink_open
       THEN /\ phase' = "sleeping"
            /\ sleep' = SleepAfterPing
            /\ late' = 0
            /\ unanswered' = TRUE
            /\ waiting' = IF unanswered THEN waiting ELSE 0
            /\ pinged' = 0
       ELSE /\ phase' = "ended"
            /\ UNCHANGED <<sleep, late, unanswered, waiting, pinged>>
    /\ UNCHANGED <<config, silent, abort, sink_open, peer>>

-----------------------------------------------------------------------------
(* The other tasks and the peer.                                             *)

MutRefresh == unanswered' = FALSE /\ UNCHANGED silent

(* The stream actor stores the Instant of every frame, Pongs included.       *)
Refresh == unanswered' = FALSE /\ silent' = 0

FrameRead ==
    /\ phase # "ended"
    /\ peer = "alive"
    /\ Refresh
    /\ waiting' = 0
    /\ UNCHANGED <<taskVars, late, abort, sink_open, peer, pinged>>

PeerDies ==
    /\ phase # "ended"
    /\ peer = "alive"
    /\ peer' = "dead"
    /\ UNCHANGED <<taskVars, late, silent, abort, sink_open, unanswered,
                   waiting, pinged>>

(* The stream is over and the supervisor sends the abort.                    *)
StreamEnds ==
    /\ phase # "ended"
    /\ ~abort
    /\ abort' = TRUE
    /\ peer' = "dead"
    /\ UNCHANGED <<taskVars, late, silent, sink_open, unanswered, waiting,
                   pinged>>

SinkCloses ==
    /\ phase # "ended"
    /\ sink_open
    /\ sink_open' = FALSE
    /\ UNCHANGED <<taskVars, late, silent, abort, peerVars, pinged>>

-----------------------------------------------------------------------------
(* Time passes while no answer and no poll is overdue.  The ages stop at the *)
(* values beyond which nothing tells them apart.                             *)

(* The longest time between two looks that an idle peer's heartbeat acts on: *)
(* a poll may be late when the last frame's sleep begins, when it ends and   *)
(* when last_alive has been read.                                            *)
Period == config.heartbeat + 3 * Lag

Runnable == phase = "checked" \/ sleep = 0 \/ abort

AnswerDue == peer = "alive" /\ unanswered /\ waiting >= RoundTrip

Tick ==
    /\ phase # "ended"
    /\ ~AnswerDue
    /\ IF Runnable
       THEN late < Lag /\ late' = late + 1
       ELSE UNCHANGED late
    /\ sleep' = IF sleep > 0 THEN sleep - 1 ELSE 0
    /\ silent' = IF silent > config.timeout + Period THEN silent ELSE silent + 1
    /\ waiting' = IF unanswered /\ waiting < RoundTrip THEN waiting + 1 ELSE waiting
    /\ pinged' = IF pinged > Period THEN pinged ELSE pinged + 1
    /\ UNCHANGED <<config, phase, elapsed, abort, sink_open, peer, unanswered>>

Task == ReadLastAlive \/ Aborted \/ GiveUp \/ SleepOn \/ Ping

Next ==
    \/ Task
    \/ FrameRead \/ PeerDies \/ StreamEnds \/ SinkCloses
    \/ Tick

Spec == Init /\ [][Next]_vars

(* The runtime polls the task, the clock runs.                               *)
FairSpec == Spec /\ WF_vars(Task) /\ WF_vars(Tick)

-----------------------------------------------------------------------------
(* Properties.                                                               *)

(* A configuration leaves a live peer time to answer its ping.               *)
Patient == Period + RoundTrip <= config.timeout

(* What a look at last_alive found is not older than the task's delay.       *)
CheckInv ==
    phase = "checked" =>
        /\ sleep = 0
        /\ silent <= elapsed + late
        /\ elapsed <= config.timeout + config.heartbeat + 2 * Lag

(* The current sleep ends before the silence gets too long.                  *)
SleepInv ==
    phase = "sleeping" =>
        /\ sleep <= config.heartbeat
        /\ silent + sleep <= config.timeout + config.heartbeat + Lag + late

(* A silence is either young, or has been answered with a ping.              *)
TrafficInv ==
    /\ phase = "sleeping" =>
         \/ silent + sleep <= config.heartbeat + Lag + late
         \/ pinged + sleep <= config.heartbeat + late
    /\ phase = "checked" =>
         \/ silent <= config.heartbeat + 2 * Lag + late
         \/ pinged <= config.heartbeat + Lag + late

(* The pings are a heartbeat apart, sleeps cut short included.               *)
SpacingInv ==
    /\ phase = "sleeping" => pinged + sleep >= config.heartbeat
    /\ phase = "checked" => pinged >= config.heartbeat

(* A live peer's silence began at most a Period before the ping that it will *)
(* answer.                                                                   *)
LiveInv ==
    peer = "alive" =>
        /\ phase = "sleeping" /\ ~unanswered =>
             silent + sleep <= config.heartbeat + Lag + late
        /\ phase = "checked" /\ ~unanswered =>
             silent <= config.heartbeat + 2 * Lag + late
        /\ unanswered => waiting <= RoundTrip /\ silent <= waiting + Period
        /\ phase = "checked" => elapsed <= Period + RoundTrip

(* The inductive invariant behind the bounds below (socket.rs 660-694).      *)
HeartbeatInv == CheckInv /\ SleepInv /\ TrafficInv /\ SpacingInv /\ LiveInv

(* A peer that answers its pings is never given up, however the frames fall  *)
(* between the reads of last_alive, if the configuration is Patient          *)
(* (socket.rs 666-681).                                                      *)
LivePeerKept ==
    Patient /\ phase = "checked" /\ peer = "alive" => ~TimedOut

(* A dead peer is given up within a timeout and a heartbeat: no longer does  *)
(* a running heartbeat look on at a silence (socket.rs 667, 676-694).        *)
SilenceBounded ==
    phase # "ended" => silent <= config.timeout + Period

(* A quiet connection is kept alive: within any period either a frame of the *)
(* peer was read or a ping was sent, also when the sleep was cut short by a  *)
(* late frame (socket.rs 676-694).                                           *)
KeepAliveTraffic ==
    phase # "ended" => silent <= Period \/ pinged <= Period

(* The pings do not crowd: at least a heartbeat lies between two of them,    *)
(* also after the shortened sleeps (socket.rs 679, 694).                     *)
PingsSpaced ==
    [][ Ping /\ sink_open => pinged >= config.heartbeat ]_vars

(* With no peer left the heartbeat ends, whatever the sink and the stream    *)
(* do.                                                                       *)
DeadPeerGivenUp == peer = "dead" ~> phase = "ended"

=============================================================================
