# ezsockets in TLA+

Models, model-checking runs and machine-checked proofs for `ezsockets`, an
actor-style WebSocket library: a server actor, one session actor per
connection, a client actor that reconnects, the `Socket` under both of them,
and the runners and connectors around it. Source paths are relative to the
repository (`src/server.rs`, ...).

Contents: [the system](#the-system), [modules](#modules), [runs](#runs),
[bounds](#bounds), [fairness](#fairness),
[disagreements](#disagreements-between-the-code-and-its-documentation),
[proofs](#proofs), [what is left out](#what-is-left-out).

## The system

```
  runner (tungstenite, axum) --accept--> ServerActor --on_connect--> Session::create
                                            ^   |                        |
             Server handle: call, call_with,|   |watch channel    SessionActor
                       graceful_shutdown ---+   v                 |      ^
                                          watcher + close task ---+      | to_socket, calls
                                            |  (per session)      |      |
                                            +--Disconnected       |   Session handle
                                                                  v
  Client handle --to_socket, calls--> ClientActor ----------->  Socket
                                       (reconnects)               |
                       sink actor, stream actor, heartbeat, supervisor
                                                                  |
                                               RawMessage <-> WebSocket transport
```

| Component | State it keeps | Operations | What makes it correct |
|---|---|---|---|
| `ServerActor`, `Server` (`server.rs`) | four queues, `active_sessions`, `shutting_down`, pending acknowledgements, a watch channel; per session a watcher task and a close task | `accept`, `call`, `call_with`, `graceful_shutdown`, `disconnected`; callbacks `on_connect`, `on_disconnect`, `on_call` | the count equals the live sessions; an acknowledgement means that all of them are over and reported; one `on_disconnect` per session, after its end; a shutdown stops dispatch and returns |
| `SessionActor`, `Session` (`session.rs`) | queue of outgoing messages, queue of calls, a `Socket` | `text`, `binary`, `close`, `call`, `call_with`, `await_close`; callbacks `on_text`, `on_binary`, `on_call` | order kept end to end; nothing behind the own Close; a Close or the end of the stream ends the session; no message lost without a word |
| `Socket` (`socket.rs`) | sink queue, stream queue, abort channels, `MessageSignal`s, four tasks | `send`, `recv`, `await_sink_close`, drop of either half | order and no gap; each signal settles once and truthfully; the end of the stream brings all tasks down |
| heartbeat (`socket.rs:611-695`) | `last_alive`, a sleep | ping, give up, sleep on | a peer that answers is kept; a dead one is given up in bounded time; pings neither rare nor crowded |
| messages, `CloseCode` (`socket.rs`, `tungstenite_common.rs`, connectors) | a message, its signal, who owns them | conversions, `Clone`, `Drop` | what arrives is what was sent, but for close codes that no frame may carry; the signal tells the truth |
| `ClientActor`, `Client` (`client.rs`) | queue of outgoing messages, queue of calls, the current `Socket`, the attempt counter | `connect_with`, `text`, `binary`, `close`, `call`, `call_with`; callbacks of `ClientExt` | nothing sent across a reconnect; a Close is final; the maximum of attempts; a lost connection is noticed; orphans end |
| runners (`server_runners/`) | listener, TLS and WebSocket handshakes, axum's upgrade tasks | `run`, `on_upgrade` | a peer is handed to the server once, when it was answered 101; in order; one bad peer does not keep others out |
| connectors (`client_connectors/`) | none | `connect` | I/O around the client |
| example `chat-server` | sessions, rooms, ids | `on_connect`, `on_disconnect`, `on_call`, `on_text` | rooms and sessions agree, so that its assertions hold |

Hard behaviours: a `select!` over several queues in every actor (biased in the
session, random elsewhere); state read in one poll and used in a later one;
channels whose queue outlives their receiver (`async_channel`) next to channels
whose queue does not (`tokio::mpsc`); the order of drops; callbacks that fail,
or wait for another actor; aborts, cancelled callers; a transport that breaks
at any point; handshakes that never end. `PROJECT.json` lists the hazards, each
at its line with the properties that watch it.

## Modules

| Module | Models |
|---|---|
| `GracefulShutdown` | abstract: what `graceful_shutdown` promises, implemented by `Server` |
| `Server` | `server.rs`, each session a `SessionLife` |
| `SessionLife` | abstract: what others see of a session's task, implemented by `Session`, used by `Server` |
| `Delivery` | abstract: what a `MessageSignal` promises on one connection, implemented by `Socket` and `Session` |
| `OwnedSocket` | abstract: what a `Socket` promises its owner, implemented by `Socket`, used by `Client` |
| `Socket` | `socket.rs` without time and conversions |
| `Session` | `session.rs`, EXTENDS `Socket`: a session on its real socket |
| `Heartbeat` | the timed part of `socket.rs` |
| `Message` | `CloseCode`, the message types, their conversions, clones and drops |
| `Client` | `client.rs`, each connection on an `OwnedSocket` |
| `Runners` | the tungstenite runner, plain and TLS, and the axum runners |
| `Chat` | `examples/chat-server` |
| `ServerProofs`, `SocketProofs`, `SessionProofs`, `HeartbeatProofs`, `MessageProofs`, `ClientProofs`, `RunnersProofs`, `ChatProofs` | theorems about the module they are named after |
| `MCServer`, `MCSocket`, `MCSession`, `MCHeartbeat`, `MCMessage`, `MCClient`, `MCRunners`, `MCChat` | instances for TLC |

`PROJECT.json` maps every definition of a model to its lines. Definitions named
`Mut...` are what a plausible slip would make of the definition that follows;
no specification uses them, they serve to see that a property can fail.

### Server

One `actor` variable says where `ServerActor::run` is: in the `select`, in one
of the three callbacks, over (`exited`), or killed (`aborted`: the `JoinHandle`
of `Server::create`, or a panic in a callback). Each branch of the `select!` is
an action (`RecvShutdown`, `RejectConnection`, `RecvConnection`,
`RecvDisconnected`, `RecvCall`), and each callback's return another
(`OnConnectOk`, `OnConnectErr`, `OnDisconnectDone`, `OnCallDone`), so that
everything else may happen while a callback is awaited. `DrainComplete` is the
test at the loop's head; `Exit` is what follows it: acknowledgements, then the
drop of every queue (`DropActor`), which turns queued requests into
`ServerStopped`.

A session is `select`, `polled` (past the poll that looks for a Close of its
own), `handler`, `call_with` (its handler awaits `Server::call_with`),
`replied` or `ended`. A Close, of the server (`CloseTask`) or the application
(`CloseSession`), that arrives behind that poll waits for one more handler.
`SessionLife` is this much of a session, and `Seen(c)` the mapping. `CloseTask` is
`watch_for_shutdown`, `Watcher` the task that awaits `await_close`, aborts the
close task and calls `Server::disconnected`. The watch channel is modelled with
its peculiarity that `send` stores nothing without a receiver
(`Subscribed`). `on_connect` may create a session and then fail.

`GracefulShutdown` has five ideas only: a phase, the live sessions, those
gone, and an answer per caller. `Phase`, `Answer` and the two sets in
`Shutdown == INSTANCE GracefulShutdown WITH ...` are the refinement mapping.

### Socket

The sink actor is `recv`, `sending` one frame (`inflight`), or `ended`. The
queue belongs to an `async_channel`: when the receiver is dropped, sends fail,
but what is queued is dropped only with the last sender, and the senders are
the owner's `Sink` and the heartbeat's clone. `Release` is that rule; every
action that drops an end of the channel uses it. Dropping an unsent message
sets its signal to `Failed` (`Dropped`, the `Drop` implementations); a completed
send sets it before the message is dropped (`Settled`).

Time is abstracted: the heartbeat may ping (`HeartbeatPing`), give up
(`HeartbeatTimeout`) or do nothing at any moment, a superset of what any
configuration allows. The supervisor (`SupervisorAborts`, `SupervisorReports`)
waits for the stream first, and then for the sink actor (`SinkJoined`), as the
code does.

The transport is external: it takes frames until a Close of either side has
passed it or the link is broken (`Writable`); frames of the peer wait in
`inbound`; after the peer's Close, or an error, the stream is over. The peer
may send anything at any time until its own Close.

`OwnedSocket` is what is left of this for an owner who sees no task and no
channel: a queue, signals, a result, and a stream that ends. `Owned` is the
refinement mapping: the owner's queue is what was submitted and an open sink
has not put on the wire (`Pending`), the result and the stream count while he
holds the halves they come through.

### Session

EXTENDS `Socket` and adds the session's two queues and its task. A poll of the
`select!` looks at outgoing messages, then calls, then the socket; another
task may enqueue between two of these looks, so a poll is three steps
(`PollToSocket`, `PollCalls`, `PollSocket`) and `Wake` starts the next one. The
actor's drop (`LeaveRun`) fails what is queued and drops both halves of the
socket before the result is passed on (`Report`). `overtaken` counts the
handlers that start after `Session::close` was called. `Seen` sorts these steps
into what `SessionLife` knows: before the first poll, past it, in a handler,
over.

### Client

One task runs `client_connect` (states `drain`, `connecting`, `on_connect`,
`on_connect_fail`, `retry_sleep`) and `ClientActor::run` with its handlers
(`select`, `handler`, `await_sink`, `on_disconnect`, `on_close`,
`close_sleep`). Users hold Clients (`both`), only the `Sender` of calls that a
`Client` can be turned into (`calls`), or nothing.

Connections are numbered. Of each socket the module keeps its sink queue, which
goes on being sent after the client has moved on, and of the current one its
stream and the result of `await_sink_close` (`SinkReported`). `sink_result`
sorts the errors into those `handle_outgoing_msg` reconnects on (`lost`) and
the others. `born` records the connection a message was submitted on,
`delivered` the one it was put on. By them `Owned(e)` reads the socket of
connection `e` as an `OwnedSocket`: the queue of its sink while that is open
(`QueueOn`), the signals of what was put there (`SignalsOn`), and nothing more
once the client has dropped it.

### Heartbeat

Discrete time: `Tick` lets it pass unless a poll or a live peer's answer is
overdue (`Lag`, `RoundTrip`). A look at `last_alive` (`ReadLastAlive`) and what
is done about it (`GiveUp`, `SleepOn`, `Ping`) are two steps, since the stream
actor may store a newer instant in between (`FrameRead`). The task ends by
itself, by the abort after the stream's end (`Aborted`) or because the sink
refuses a ping. Ages stop counting at values beyond which nothing tells them
apart. `Socket` allows the heartbeat to ping, give up or do nothing at any
moment, a superset of what `Heartbeat` does.

### Message

One message from `InMessage::new` to the reader at the other end. A value of
type `InMessage` or `InRawMessage` may hold the message, the signal, or what is
left of them; `IntoRaw`, `TakeMessage`, `SendReturns`, `Clone` and `DropValue`
move them. `Encode` is the conversion of the native or the WASM connector down
to the number in the Close frame, `Decode` the way back from tungstenite's
message; `ToNumber` and `FromNumber` are `CloseCode`'s two tables. In between is
what tungstenite 0.26 does to a Close that it receives (external, `DoClose`): a
code that no frame may carry (`Status`, `Abnormal`, `Tls`, `Reserved`, `Bad`;
`Allowed`) becomes `Protocol`, unless the reader has sent a Close before
(`ReaderCloses`), for then it takes the answer as it is. The reader is a server
or a native client; how a browser reads a frame is not modelled.

### Runners

A connection waits in the listener's backlog, is in a handshake (`tls`,
`websocket`: the tungstenite runner, which awaits it in its accept loop) or in
HTTP (`open`, `requested`, `upgrading`: axum, a task per connection and a second
one for the upgrade), and then at the server. A peer is polite, faulty, or
silent after it has connected. `Accept` is `Server::accept`, also of a server
whose actor has exited.

### Chat

The map of sessions and of rooms as the three callbacks change them, ids in a
small `0..MaxID`, and the two queues between which `ServerActor` chooses:
disconnects and calls. `actor` records which `unwrap` or `assert!` panicked, if
one did. An id is in use (`InUse`) while its session lives or waits for
`on_disconnect`; that none stays taken after that is part of
`RoomsMatchSessions`, since the search for a free id ends only while there is
one.

## Runs

Passing runs (distinct states in brackets):

| Run | Checks | Shows |
|---|---|---|
| `server` (88 288) | `ActiveSessionsCount`, `AckMeansDrained`, `DisconnectOnceAfterEnd`, `ImplementsShutdown`; `ShutdownReturns`, `CallWithReturns`, `DisconnectsDelivered`, `ConnectionsLeaveQueue` | the counter never drifts, an acknowledgement means drained, one `on_disconnect` after the session's end, refinement of `GracefulShutdown`; shutdown and calls return, also when the actor is killed, unless a session handler waits for the server for ever (`NoneBlocked`); such a handler does not starve the other branches |
| `socket` (139 932) | `SignalsAccounted`, `ImplementsDelivery`, `KeepsPromise`; `StreamEndStopsTasks`, `SignalsSettle`, `CloseCompletes` | signals, order, no gap; refinement of `Delivery` and of `OwnedSocket`; the end of the stream ends every task; signals settle; the closing handshake with a peer that answers ends everything and `await_sink_close` returns |
| `session` (221 032) | `SessionSignalsAccounted`, `CloseOvertakenOnce`, `NothingBehindClose`, `EndToEndDelivery`; `CloseEndsSession`, `StreamEndEndsSession`, `ClosedSessionReleasesSocket` | order through both queues, what a Close overtakes, what it leaves; what ends a session, with any peer (the end of the stream only if calls cease, since the biased select looks at the socket last); with a peer that answers, no task and no open signal is left behind |
| `client` (108 125) | `ClientSignalsAccounted`, `NotAcrossReconnects`, `CloseIsFinal`, `AttemptsWithinMaximum`, `UsesSockets`; `LossNoticed`, `CloseEndsClient`, `OrphanEnds` | two connections with failures anywhere: no message crosses a reconnect, a Close is final, each connection's socket is an `OwnedSocket`; the client notices a loss, ends when told to, ends when abandoned |
| `heartbeat` (24 541) | `LivePeerKept`, `SilenceBounded`, `KeepAliveTraffic`; `DeadPeerGivenUp` | fifteen configurations, whatever falls between the look at `last_alive` and the act: a peer that answers is kept if `timeout` leaves it time (`Patient`); silence and traffic are bounded; a dead peer is given up |
| `message` (39 980) | `SignalTruthful`, `ArrivesAsSent` | every type and every close code at a boundary, sent by either connector, with a clone, to a reader that may have closed first: the signal tells the truth; type and code are read as sent, a code that no frame may carry as `Protocol` |
| `runners` (293 520) | `HandedAsAnswered`, `HandedInOrder`; `PolitePeersServed` | three connections at each runner, faulty and silent peers, a server that exits |
| `chat` (3 270 000, up to symmetry) | `RoomsMatchSessions`, `AssertionsHold` | joins, texts and disconnects that cross, ids used again and none kept |

The type invariants are not among the runs' properties, nor are
`ShutdownStopsDispatch` (no `on_connect` and no `on_call` begins once a shutdown
was received) and `PingsSpaced` (pings are a heartbeat apart): TLAPS proves
these, for every value of the constants. The runs that TLC must find violated are in
[disagreements](#disagreements-between-the-code-and-its-documentation).

`CHECK_DEADLOCK FALSE` is set everywhere: every model may come to rest, when
the server has stopped, the socket's tasks have ended, or no one sends.

## Bounds

All safety properties of the passing runs are also proved for any value of these
constants; the bounds matter for liveness, and there the cases are these.

- Server: two connections, one caller of `graceful_shutdown`, one user. One
  session ends, or blocks in `call_with`, while the other is connected, drained
  or reported, or blocks too. Two callers that race each other and the drain are
  in run `server_callers`; of the drain's state a second one changes the set of
  acknowledgements only. The theorems hold for any number.
- Socket, Session, Client: a plain message and a Close, so that each may be in
  front of the other. One ping queued at a time (`MaxPings`), one inbound frame
  besides Close and error (`MaxInbound`), one call queued (`MaxCalls`): each
  stands between messages at every position.
- Client: two connections (`MaxConnections`), so that a message can be born on
  one and meet the other; two attempts to reconnect, an
  initial maximum of zero, which makes one.
- Heartbeat: heartbeats 1 to 3, timeouts 0, 2, 3, 7 and 8, `Lag` 1, `RoundTrip`
  2: timeouts below, at and above the heartbeat, patient and not.
- Message: two values, so one clone; the numbers on both sides of each range's
  ends, and all that have a name. The reader closes before it reads or not at
  all, since one message is followed.
- Runners: three connections, so that one can be overtaken while another is in
  its handshake; one kind of bad request, since the extractor treats all alike.
- Chat: three sessions for two ids, so that an id is used again and one may
  be missing; two rooms; two texts per session, so that one joins and then
  speaks. Symmetry over connections, in this run only: it has no liveness.

## Fairness

- Server: the runtime polls each task, callbacks return, and `tokio::select!`
  picks branches at random, so a branch that is ready again and again is
  taken (`SF`). Callbacks of `CallWithSessions` return when the server answers.
  A session's poll goes on to a handler or parks, and a Close that it finds is
  taken: `CloseEndsSession` of run `session`.
- Socket (`TaskFairness`): tasks are polled; a send completes because the
  transport takes it or fails. Neither the heartbeat's clock nor the peer has
  to act. `PeerFairness`, only as the hypothesis of a property: a peer answers
  our Close unless the connection breaks.
- Session: its task is polled and its handlers return. No fairness among the
  branches of a biased select: its order is in the model.
- Client: as the server; the connector answers, sleeps elapse.
  `PeerFairness`: the peer hangs up on a client that has stopped sending, as
  `await_sink_close` needs.
- Heartbeat: the task is polled, time passes.
- Runners: per connection, the accept loop, hyper, handlers and tasks go on;
  polite peers send their request. No one waits for a silent or a faulty peer.
- Message and Chat: safety only.

## Disagreements between the code and its documentation

Each is a run that checks one sentence of the repository and that TLC refutes.

| Run, property | Code | Sentence |
|---|---|---|
| `server_callers`, `EveryCallerAcknowledged` | `server.rs:137`: a request queued when the drain completes is dropped, its caller gets `ServerStopped` | `server.rs:393` "every caller is acknowledged once the drain finishes" |
| `server_callwith`, `ShutdownResolves` | `server.rs:215`: during the drain calls are neither served nor dropped; a session handler awaiting `call_with` never sees the Close, and the drain never ends | `server.rs:374` "resolves once every session has been closed" |
| `socket_timeout`, `TimeoutEndsConnection` | `socket.rs:667`: the heartbeat queues a Close and ends; a silent peer never ends the stream | `CHANGELOG.md:193` "close connection on heartbeat failure" |
| `client_signals`, `SignalsReport` | `client.rs:446`: messages queued when the actor ends stay `Sending` while a handle lives | `client.rs:347` the signal "will report if sending succeeds/fails" |

Seen while modelling, and not a run of their own:

- An error of a session's handler ends its task without a Close
  (`session.rs:220`); the socket's tasks live on while the peer is quiet.
  `session.rs:25` says that returning an error "will force-close the session".
- `server.rs:378-380`, on `graceful_shutdown`, says that connections "queued
  before the shutdown remain queued but are not handed to" `on_connect`. They
  are not handed over, but nor do they remain: the drain takes them from the
  queue and rejects each with a Close (`server.rs:162-175`), and what is queued
  when the loop ends is dropped. `ConnectionsLeaveQueue` checks this behaviour,
  the contrary of the sentence's first half.
- An idle server leaves its loop right after the shutdown request and drops the
  connections that are queued without a Close (`Exit` from `server.rs:137`);
  `CHANGELOG.md:8` speaks of rejecting them.
- A message submitted while the client awaits `connect` or `on_connect` is not
  discarded but sent on the new connection (`client.rs:673`); `CHANGELOG.md:60`
  says that messages are discarded while reconnecting. What the comment in
  `client_connect` promises, that nothing crosses a reconnect cycle, holds for
  messages submitted on the old connection (`NotAcrossReconnects`).
- A maximum of zero attempts allows one, since the test follows the attempt
  (`client.rs:700`); `AttemptsWithinMaximum` says so.
- One peer that connects and says nothing keeps the tungstenite runner from
  everyone behind it (`tungstenite.rs:129`), which is why `PolitePeersServed`
  has its hypothesis.
- `CHANGELOG.md:24`: "Return `CloseCode::Abnormal` from keepalive timeouts". The
  Close that the heartbeat sends says so (`socket.rs:671`); a peer that it
  reaches reads `Protocol`, since tungstenite replaces 1006, unless that peer
  had sent a Close of its own. `ArrivesAsSent` says which codes arrive.
- The WASM connector turns a ping into a Close with code 1006, hence
  `ArrivesAsSent` has the types of what is not the owner's arrive from a native
  sender only.
- The example's server panics when a Join is handled after its sender's
  disconnect (`main.rs:104`), when it tells a session whose actor has ended
  (`main.rs:96`, `122`), and when ids run out (`main.rs:43`). A Join that is
  handled after its sender's id was given away moves the new owner.

## Proofs

TLAPS proves these for all values of the constants, from the assumptions
`ServerAssumption`, `SocketAssumption`, `SessionAssumption`,
`HeartbeatAssumption`, `MessageAssumption`, `ClientAssumption`,
`RunnersAssumption` and `ChatAssumption` alone: finitely many connections for
the server's count; bounds that are numbers; identifiers that differ from each
other.

`ServerProofs`:

- `ServerType`, `ServerInvariant`: `TypeOK` and `ServerInv`. The count alone is
  not inductive: that it goes down once per session needs that a session is
  queued once, after its watcher is done and before its `on_disconnect`
  (`DisconnectsInv`), and that it goes up once needs that a socket is queued
  once and unwatched (`ConnectionsInv`).
- `CountCorrect`, `DispatchStops`: conjuncts of it. `AckCorrect`: an `acked`
  caller means an exited actor, which means every accepted session
  disconnected (`ShutdownInv`), hence ended.
- `DisconnectOnce`: the action property, from the same invariant.
- `ServerImplementsShutdown`: every step maps to a step of `GracefulShutdown`
  or a stutter.
- `ServerRunsSessions`, `ServerSessions`: each session of the server is a
  `SessionLife`, whatever the actor, the watcher and the close task do. It needs
  that a socket has no session before `on_connect` makes one (`CreatedInv`).
- `SessionsAllow`, the converse: every step of a `SessionLife`, with all but
  that session left alone (`OnlySession`), is a `SessionStep`, unless a handler
  of the session awaits `Server::call_with`. So the server's safety properties
  hold over any session that lives such a life.

`SocketProofs`:

- `SocketType`: `SocketTypeOK`.
- `SocketInvariant`: `SocketInv`, three parts that need each other.
  `SignalsAccounted`: Sending means queued once or in flight. `HistoryInv`: the
  wire is a prefix of what was submitted, and while the sink actor lives all
  the rest is Sending. `OrderInv`: queue and flight are in order of submission.
  The lemma `NextOnWire` uses all three: a message in flight is the next one
  the wire lacks. The proof first shows that a step does one of six things to
  messages (`Effects`), then takes each part through the six.
- `SocketSignals`: `SignalsAccounted`. `SocketImplementsDelivery`: refinement of
  `Delivery`.
- `SocketTasks`: `TaskInv`, what the tasks know of each other: the supervisor
  reports on a sink actor that has ended, after the end of the stream, and
  `await_sink_close` returns after that.
- `SocketKeepsPromise`: refinement of `OwnedSocket`, from all of these. That a
  completed send is the head of `Pending` is `NextOnWire`; that
  `await_sink_close` tells a closed sink and an ended stream is `TaskInv`.
  `SocketOwnerInformed` is what follows for the owner: he is told a result of a
  closed sink, and "ok" only after the end of the stream.

`SessionProofs`, on the socket's real tasks:

- `OvertakenOnce`: while a Close waits it is in the queue, so at most the one
  handler that had started is running (`OvertakenInv`).
- `SessionLivesAs`: refinement of `SessionLife`, from the same invariant: the
  poll of `to_socket` moves on only when no Close waits.
- `NothingBehind`: once its Close is taken the session never forwards again,
  and both halves of the socket are held until then (`HeldInv`).
- `SessionInvariant`: `SessionInv`. What is Sending waits in the session's
  queue, the socket's or the sink actor's hands, in this order and in the
  order of submission (`WaitInv`); the wire is the first part of what was
  submitted, and while the sink is open nothing that failed is followed by
  something that may still be sent (`PastInv`); an actor that is gone has no
  queue (`GoneInv`). The socket's own invariant does not carry over, for its
  order is that of the socket's queue and not of the session's.
- `SessionSignals`, `SessionImplementsDelivery`: from it, the second by a
  refinement of the same `Delivery` through both queues.

`ClientProofs`:

- `Attempts`: the counter is below what the maximum allows (`allowed`) whenever
  another attempt may follow (`AttemptInv`). `CloseFinal`: a Close that was
  taken leaves the actor in `await_sink`, with its own Close known, or done
  (`CloseInv`).
- `ClientSignals`: queue, sinks and signals agree, and queues list a message
  once (`AgreeInv`). `NotAcross`: what is queued was submitted on this
  connection or while there was none, and nothing old is queued when an
  attempt begins (`AcrossInv`).
- `ClientInvariant`: these, and what the sockets need (`SocketsInv`): a message
  is in the queue its record names, a socket is empty before its connection,
  and of one that was dropped no result and no stream is left.
- `ClientUsesSockets`, `ClientSockets`: every connection's socket is an
  `OwnedSocket`, so the client asks nothing of a `Socket` that module `Socket`
  is not proved to give. `ClientInformed`: the result it waits for is that of a
  closed sink.
- `SocketsAllow`, the converse: whatever a `SocketStep` of an `OwnedSocket` may
  do to one connection, with everything else alone (`OnlySocket`), is a step of
  the client's model or changes nothing in it. So the client's safety properties
  hold over any socket that keeps the promise. Its hypotheses on the next state
  say that the step leaves numbers and queues in their types and agreement.

`HeartbeatProofs`: `HeartbeatInvariant` is `HeartbeatInv`, a bound for each
phase: the age of what a look found (`CheckInv`), silence plus sleep
(`SleepInv`), silence or the last ping is young (`TrafficInv`), last ping plus
sleep is old (`SpacingInv`), and what a live peer owes (`LiveInv`). The
properties `LivePeer`, `Silence`, `KeepAlive` and `Spacing` are read off; none
is inductive alone, for a sleep cut short by a late frame carries a debt over.

`MessageProofs`: `NumbersRoundTrip`, the two tables on all of `u16`;
`SignalReports`, since Sending is backed by a value that will settle it
(`SignalInv`); `Arrives`, since what is on the wire is this message's frame and
what was read is that frame as tungstenite gives it to this reader (`WireInv`),
and since the variants that tungstenite lets through are the numbers of
`Carried` (`AllowedNumbers`). It rests on `DoClose`, which is external.

`RunnersProofs`: `RunnersInvariant` is `RunnersInv`: the backlog is a suffix of
the arrivals and the queues list who is at their stages, once (`QueuesInv`);
only who was answered is at the server (`AnswerInv`); the tungstenite runner has
one connection in its hands and is done with all before it (`OrderInv`).
`HandedOnce` and `InOrder` follow.

`ChatProofs`: `ChatInvariant` is `ChatInv`. While the server runs, rooms and
sessions agree (`Agree`); a session not yet reported is the one behind its id,
and a reported one waits for `on_disconnect` once and keeps its id until then
(`IdsInv`), so that `on_disconnect` finds it, and no id outlasts its session's
disconnect (`InUse`); and the room a text is for exists or its Join is ahead in
the queue (`CallsInv`), so that `on_call` finds it.
`OneRoomEach` and `LookupsSucceed` follow.

Model-checked only: liveness under fairness, which is out of TLAPS's reach, and
the disagreements, which are counterexamples.

## What is left out

- The parts are composed by EXTENDS (`Session` on `Socket`) or through what one
  promises the other (`Server` on `Session`, `Client` on `Socket`), in both
  directions for each step; no run puts a whole server or client on real
  sockets. The promises say nothing of liveness: that a session takes its Close
  (`CloseEndsSession`) and that a sink whose stream is over is reported
  (`StreamEndStopsTasks`) is what TLC checks in runs `session` and `socket`.
- How a browser takes and reads frames: the model lets the send of any frame
  fail or succeed, so it covers a browser that refuses a close code; a message
  read by a WASM client is not modelled.
- Partly modelled: `ClientConfig` (its two maxima; the URL and the headers are
  not), the native and WASM connectors (a result, and the conversions), the
  axum runners (not the choice of a subprotocol, the limits on sizes, and the
  polls that `WebSocket` hands on), the example `chat-server-axum` (its handler's
  choices).
- Not modelled: the library's root, the other examples and the benchmarks,
  which add no state of their own.
- The client's sleeps elapse at some point; only the heartbeat has a clock.
- Payloads, logging, wording of errors, and what TCP, TLS and HTTP do with bytes.
- Panics of a session's or client's callback appear as their errors do: both
  end the task and drop what it holds.
- Spurious wake-ups and cooperative yields of the runtime: polls of a select
  are steps already.
