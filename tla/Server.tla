------------------------------- MODULE Server -------------------------------
(* The server actor of server.rs, the per-session watcher and shutdown tasks *)
(* it spawns, and the callers of the Server handle.  A session is reduced to *)
(* what the actor can see of it: whether its task is in the select, past the *)
(* poll that looks for a Close, inside a user callback, waiting for the      *)
(* server in Server::call_with, or over (module SessionLife).                *)

EXTENDS Naturals, Sequences, FiniteSets

CONSTANTS
    Conns,             \* sockets handed to Server::accept, one each
    Callers,           \* tasks that call graceful_shutdown once
    Users,             \* tasks that call Server::call or call_with once
    CallWithSessions,  \* sessions whose handlers await Server::call_with
    MayAbort,          \* the actor task may be aborted or panic in a callback
    NoOne              \* no request is being handled

ASSUME ServerAssumption ==
    /\ IsFiniteSet(Conns)
    /\ CallWithSessions \subseteq Conns
    /\ Conns \cap Users = {}
    /\ NoOne \notin Conns \cup Users
    /\ MayAbort \in BOOLEAN

VARIABLES
    actor,                  \* where ServerActor::run is
    handling,               \* whose message the running callback is about
    connection_receiver,
    disconnection_receiver,
    server_call_receiver,
    shutdown_receiver,
    active_sessions,
    shutting_down,
    shutdown_acks,
    shutdown_signal,        \* value of the watch channel
    socket,                 \* what became of each socket
    session,                \* where each session task is
    to_socket,              \* sessions with a Close in their queue
    close_task,             \* watch_for_shutdown of each session
    watcher,                \* the task that awaits the session's end
    disconnect,             \* progress of on_disconnect for each session
    caller,                 \* graceful_shutdown of each caller
    user                    \* Server::call_with of each user

queues == <<connection_receiver, disconnection_receiver, server_call_receiver,
            shutdown_receiver>>
shutdown == <<shutting_down, shutdown_acks, shutdown_signal>>
sessions == <<session, to_socket, close_task, watcher>>
vars == <<actor, handling, queues, active_sessions, shutdown, socket,
          sessions, disconnect, caller, user>>

Requesters == Conns \cup Users

ActorStates == {"select", "on_connect", "on_disconnect", "on_call",
                "exited", "aborted"}
SocketStates == {"upgraded", "queued", "extension", "session", "rejected",
                 "dropped"}
SessionStates == {"none", "select", "polled", "handler", "call_with",
                  "replied", "ended"}
CallerStates == {"idle", "waiting", "cancelled", "acked", "dropped", "refused"}

StateTypes ==
    /\ actor \in ActorStates
    /\ handling \in Requesters \cup {NoOne}
    /\ connection_receiver \in Seq(Conns)
    /\ disconnection_receiver \in Seq(Conns)
    /\ server_call_receiver \in Seq(Requesters)
    /\ shutdown_receiver \in Seq(Callers)
    /\ active_sessions \in Nat
    /\ shutdown_acks \in SUBSET Callers
    /\ socket \in [Conns -> SocketStates]
    /\ session \in [Conns -> SessionStates]
    /\ to_socket \in SUBSET Conns
    /\ close_task \in [Conns -> {"none", "watching", "done"}]
    /\ watcher \in [Conns -> {"none", "await_close", "done"}]
    /\ disconnect \in [Conns -> {"none", "running", "done"}]
    /\ caller \in [Callers -> CallerStates]
    /\ user \in [Users -> {"idle", "sent", "waiting", "some", "none"}]

TypeOK ==
    /\ StateTypes
    /\ shutting_down \in BOOLEAN
    /\ shutdown_signal \in BOOLEAN

Init ==
    /\ actor = "select"
    /\ handling = NoOne
    /\ connection_receiver = <<>>
    /\ disconnection_receiver = <<>>
    /\ server_call_receiver = <<>>
    /\ shutdown_receiver = <<>>
    /\ active_sessions = 0
    /\ shutting_down = FALSE
    /\ shutdown_acks = {}
    /\ shutdown_signal = FALSE
    /\ socket = [c \in Conns |-> "upgraded"]
    /\ session = [c \in Conns |-> "none"]
    /\ to_socket = {}
    /\ close_task = [c \in Conns |-> "none"]
    /\ watcher = [c \in Conns |-> "none"]
    /\ disconnect = [c \in Conns |-> "none"]
    /\ caller = [k \in Callers |-> "idle"]
    /\ user = [u \in Users |-> "idle"]

-----------------------------------------------------------------------------
(* The actor.                                                                *)

(* The receivers live as long as the actor: a send on a closed channel fails.*)
Alive == actor \notin {"exited", "aborted"}

MutDrainComplete == shutting_down

(* The test at the head of the loop.                                         *)
DrainComplete == shutting_down /\ active_sessions = 0

(* The actor is in tokio::select!, with no branch favoured over another.     *)
Selecting == actor = "select" /\ ~DrainComplete

(* The watch channel has a receiver as long as some watch_for_shutdown runs; *)
(* watch::Sender::send stores nothing in a channel without receivers.        *)
Subscribed == {c \in Conns : close_task[c] = "watching"}

MutBroadcast == shutdown_signal' = (shutdown_signal /\ Subscribed # {})

Broadcast == shutdown_signal' = (shutdown_signal \/ Subscribed # {})

RecvShutdown ==
    /\ Selecting
    /\ shutdown_receiver # <<>>
    /\ shutdown_receiver' = Tail(shutdown_receiver)
    /\ shutdown_acks' = shutdown_acks \cup {Head(shutdown_receiver)}
    /\ shutting_down' = TRUE
    /\ IF shutting_down THEN UNCHANGED shutdown_signal ELSE Broadcast
    /\ UNCHANGED <<actor, handling, connection_receiver,
                   disconnection_receiver, server_call_receiver,
                   active_sessions, socket, sessions, disconnect, caller, user>>

MutRejecting == FALSE

Rejecting == shutting_down

MutConnectionBranch == ~shutting_down

(* The connection branch has no precondition: it goes on during the drain.   *)
ConnectionBranch == TRUE

(* A connection received while draining gets a Close(Away) and is dropped.   *)
RejectConnection ==
    /\ Selecting
    /\ ConnectionBranch
    /\ connection_receiver # <<>>
    /\ Rejecting
    /\ connection_receiver' = Tail(connection_receiver)
    /\ socket' = [socket EXCEPT ![Head(connection_receiver)] = "rejected"]
    /\ UNCHANGED <<actor, handling, disconnection_receiver,
                   server_call_receiver, shutdown_receiver, active_sessions,
                   shutdown, sessions, disconnect, caller, user>>

(* Otherwise the extension's on_connect starts with it.                      *)
RecvConnection ==
    /\ Selecting
    /\ ConnectionBranch
    /\ connection_receiver # <<>>
    /\ ~Rejecting
    /\ actor' = "on_connect"
    /\ handling' = Head(connection_receiver)
    /\ connection_receiver' = Tail(connection_receiver)
    /\ socket' = [socket EXCEPT ![Head(connection_receiver)] = "extension"]
    /\ UNCHANGED <<disconnection_receiver, server_call_receiver,
                   shutdown_receiver, active_sessions, shutdown, sessions,
                   disconnect, caller, user>>

(* on_connect calls Session::create, which spawns the session task.  The     *)
(* task may run, and end, before on_connect returns.                         *)
CreateSession(c) ==
    /\ actor = "on_connect"
    /\ handling = c
    /\ socket[c] = "extension"
    /\ socket' = [socket EXCEPT ![c] = "session"]
    /\ session' = [session EXCEPT ![c] = "select"]
    /\ UNCHANGED <<actor, handling, queues, active_sessions, shutdown,
                   to_socket, close_task, watcher, disconnect, caller, user>>

(* on_connect returns Ok(session): the session is counted and its watcher,   *)
(* with watch_for_shutdown inside, is spawned.                               *)
OnConnectOk(c) ==
    /\ actor = "on_connect"
    /\ handling = c
    /\ socket[c] = "session"
    /\ active_sessions' = active_sessions + 1
    /\ close_task' = [close_task EXCEPT ![c] = "watching"]
    /\ watcher' = [watcher EXCEPT ![c] = "await_close"]
    /\ actor' = "select"
    /\ handling' = NoOne
    /\ UNCHANGED <<queues, shutdown, socket, session, to_socket, disconnect,
                   caller, user>>

(* on_connect returns Err: a Close frame is put in the socket's sink.  A     *)
(* session that the extension had created by then runs on, unwatched.        *)
OnConnectErr(c) ==
    /\ actor = "on_connect"
    /\ handling = c
    /\ socket' = [socket EXCEPT ![c] = "rejected"]
    /\ actor' = "select"
    /\ handling' = NoOne
    /\ UNCHANGED <<queues, active_sessions, shutdown, sessions, disconnect,
                   caller, user>>

MutDecremented(n) == n

(* usize::saturating_sub(1)                                                  *)
Decremented(n) == IF n = 0 THEN 0 ELSE n - 1

RecvDisconnected ==
    /\ Selecting
    /\ disconnection_receiver # <<>>
    /\ actor' = "on_disconnect"
    /\ handling' = Head(disconnection_receiver)
    /\ disconnection_receiver' = Tail(disconnection_receiver)
    /\ active_sessions' = Decremented(active_sessions)
    /\ disconnect' = [disconnect EXCEPT ![Head(disconnection_receiver)] = "running"]
    /\ UNCHANGED <<connection_receiver, server_call_receiver,
                   shutdown_receiver, shutdown, socket, sessions, caller, user>>

(* on_disconnect returns; an error is only logged.                           *)
OnDisconnectDone ==
    /\ actor = "on_disconnect"
    /\ disconnect' = [disconnect EXCEPT ![handling] = "done"]
    /\ actor' = "select"
    /\ handling' = NoOne
    /\ UNCHANGED <<queues, active_sessions, shutdown, socket, sessions,
                   caller, user>>

(* The `if !shutting_down` precondition of the call branch.                  *)
CallBranch == ~shutting_down

RecvCall ==
    /\ Selecting
    /\ server_call_receiver # <<>>
    /\ CallBranch
    /\ actor' = "on_call"
    /\ handling' = Head(server_call_receiver)
    /\ server_call_receiver' = Tail(server_call_receiver)
    /\ UNCHANGED <<connection_receiver, disconnection_receiver,
                   shutdown_receiver, active_sessions, shutdown, socket,
                   sessions, disconnect, caller, user>>

(* The answers reach the waiting call_with of every requester in `who`: a    *)
(* value from on_call, or None when the oneshot sender was dropped.          *)
Resolve(who, value) ==
    /\ user' = [u \in Users |-> IF u \in who /\ user[u] = "waiting"
                                THEN value ELSE user[u]]
    /\ session' = [c \in Conns |-> IF c \in who /\ session[c] = "call_with"
                                   THEN "replied" ELSE session[c]]

(* on_call returns, having used or dropped the oneshot sender in the call;   *)
(* an error is only logged.                                                  *)
OnCallDone ==
    /\ actor = "on_call"
    /\ \E value \in {"some", "none"} : Resolve({handling}, value)
    /\ actor' = "select"
    /\ handling' = NoOne
    /\ UNCHANGED <<queues, active_sessions, shutdown, socket, to_socket,
                   close_task, watcher, disconnect, caller>>

MutCallsDropped == {}

(* Whose call_with loses its sender with the actor.                          *)
CallsDropped == Requesters

(* Leaving run() drops the actor: its receivers discard what is still queued,*)
(* which drops queued sockets and the oneshot senders of queued calls.       *)
DropActor ==
    /\ handling' = NoOne
    /\ connection_receiver' = <<>>
    /\ disconnection_receiver' = <<>>
    /\ server_call_receiver' = <<>>
    /\ shutdown_receiver' = <<>>
    /\ shutdown_acks' = {}
    /\ socket' = [c \in Conns |-> IF socket[c] \in {"queued", "extension"}
                                  THEN "dropped" ELSE socket[c]]
    /\ Resolve(CallsDropped, "none")
    /\ UNCHANGED <<active_sessions, shutting_down, shutdown_signal, to_socket,
                   close_task, watcher, disconnect>>

(* The loop ends: the collected acks are answered, and a request for         *)
(* shutdown that is still queued loses its sender.                           *)
Exit ==
    /\ actor = "select"
    /\ DrainComplete
    /\ actor' = "exited"
    /\ caller' = [k \in Callers |->
                     IF caller[k] # "waiting" THEN caller[k]
                     ELSE IF k \in shutdown_acks THEN "acked" ELSE "dropped"]
    /\ DropActor

(* The JoinHandle of the actor is aborted at one of its awaits, or a         *)
(* callback of the extension panics.                                         *)
AbortActor ==
    /\ MayAbort
    /\ Alive
    /\ actor' = "aborted"
    /\ caller' = [k \in Callers |->
                     IF caller[k] = "waiting" THEN "dropped" ELSE caller[k]]
    /\ DropActor

-----------------------------------------------------------------------------
(* The handles: Server::accept, graceful_shutdown, call and call_with.       *)

Accept(c) ==
    /\ socket[c] = "upgraded"
    /\ IF Alive
       THEN /\ connection_receiver' = Append(connection_receiver, c)
            /\ socket' = [socket EXCEPT ![c] = "queued"]
       ELSE /\ socket' = [socket EXCEPT ![c] = "dropped"]
            /\ UNCHANGED connection_receiver
    /\ UNCHANGED <<actor, handling, disconnection_receiver,
                   server_call_receiver, shutdown_receiver, active_sessions,
                   shutdown, sessions, disconnect, caller, user>>

CallShutdown(k) ==
    /\ caller[k] = "idle"
    /\ IF Alive
       THEN /\ shutdown_receiver' = Append(shutdown_receiver, k)
            /\ caller' = [caller EXCEPT ![k] = "waiting"]
       ELSE /\ caller' = [caller EXCEPT ![k] = "refused"]
            /\ UNCHANGED shutdown_receiver
    /\ UNCHANGED <<actor, handling, connection_receiver,
                   disconnection_receiver, server_call_receiver,
                   active_sessions, shutdown, socket, sessions, disconnect,
                   user>>

(* The caller drops its future, as a timeout around it would.                *)
CancelShutdown(k) ==
    /\ caller[k] = "waiting"
    /\ caller' = [caller EXCEPT ![k] = "cancelled"]
    /\ UNCHANGED <<actor, handling, queues, active_sessions, shutdown, socket,
                   sessions, disconnect, user>>

(* Server::call ("sent") returns at once, Server::call_with ("waiting") when *)
(* it is answered.                                                           *)
UserCall(u) ==
    /\ user[u] = "idle"
    /\ IF Alive
       THEN /\ server_call_receiver' = Append(server_call_receiver, u)
            /\ \E st \in {"sent", "waiting"} : user' = [user EXCEPT ![u] = st]
       ELSE /\ user' = [user EXCEPT ![u] = "none"]
            /\ UNCHANGED server_call_receiver
    /\ UNCHANGED <<actor, handling, connection_receiver,
                   disconnection_receiver, shutdown_receiver, active_sessions,
                   shutdown, socket, sessions, disconnect, caller>>

-----------------------------------------------------------------------------
(* The session task, as far as the server depends on it.                     *)

(* The select is biased: it looks for a Close of its own first.              *)
LookForClose(c) ==
    /\ session[c] = "select"
    /\ c \notin to_socket
    /\ session' = [session EXCEPT ![c] = "polled"]
    /\ UNCHANGED <<actor, handling, queues, active_sessions, shutdown, socket,
                   to_socket, close_task, watcher, disconnect, caller, user>>

(* A call or message that the poll finds next starts a handler, also if a    *)
(* Close has arrived since.                                                  *)
StartHandler(c) ==
    /\ session[c] = "polled"
    /\ session' = [session EXCEPT ![c] = "handler"]
    /\ UNCHANGED <<actor, handling, queues, active_sessions, shutdown, socket,
                   to_socket, close_task, watcher, disconnect, caller, user>>

(* Or it finds nothing, and the task is woken later.                         *)
Park(c) ==
    /\ session[c] = "polled"
    /\ session' = [session EXCEPT ![c] = "select"]
    /\ UNCHANGED <<actor, handling, queues, active_sessions, shutdown, socket,
                   to_socket, close_task, watcher, disconnect, caller, user>>

(* The handler awaits Server::call_with, as in tests/chat.rs.                *)
SessionCallWith(c) ==
    /\ c \in CallWithSessions
    /\ session[c] = "handler"
    /\ IF Alive
       THEN /\ server_call_receiver' = Append(server_call_receiver, c)
            /\ session' = [session EXCEPT ![c] = "call_with"]
       ELSE /\ session' = [session EXCEPT ![c] = "replied"]
            /\ UNCHANGED server_call_receiver
    /\ UNCHANGED <<actor, handling, connection_receiver,
                   disconnection_receiver, shutdown_receiver, active_sessions,
                   shutdown, socket, to_socket, close_task, watcher,
                   disconnect, caller, user>>

(* The handler returns Ok and the session selects again.                     *)
EndHandler(c) ==
    /\ session[c] \in {"handler", "replied"}
    /\ session' = [session EXCEPT ![c] = "select"]
    /\ UNCHANGED <<actor, handling, queues, active_sessions, shutdown, socket,
                   to_socket, close_task, watcher, disconnect, caller, user>>

(* The session task is over for a reason of its own: the client closed, the  *)
(* socket ended, a handler returned Err or panicked.                         *)
EndSession(c) ==
    /\ session[c] \in {"select", "polled", "handler", "replied"}
    /\ session' = [session EXCEPT ![c] = "ended"]
    /\ to_socket' = to_socket \ {c}
    /\ UNCHANGED <<actor, handling, queues, active_sessions, shutdown, socket,
                   close_task, watcher, disconnect, caller, user>>

(* The session takes the Close from its queue, sends it and ends.            *)
TakeClose(c) ==
    /\ session[c] = "select"
    /\ c \in to_socket
    /\ to_socket' = to_socket \ {c}
    /\ session' = [session EXCEPT ![c] = "ended"]
    /\ UNCHANGED <<actor, handling, queues, active_sessions, shutdown, socket,
                   close_task, watcher, disconnect, caller, user>>

(* The application closes its session.                                       *)
CloseSession(c) ==
    /\ session[c] \notin {"none", "ended"}
    /\ to_socket' = to_socket \cup {c}
    /\ UNCHANGED <<actor, handling, queues, active_sessions, shutdown, socket,
                   session, close_task, watcher, disconnect, caller, user>>

-----------------------------------------------------------------------------
(* The tasks the actor spawns for a session.                                 *)

(* watch_for_shutdown sees the value flip: Session::close, which fails if    *)
(* the session is over.                                                      *)
CloseTask(c) ==
    /\ close_task[c] = "watching"
    /\ shutdown_signal
    /\ close_task' = [close_task EXCEPT ![c] = "done"]
    /\ IF session[c] = "ended" THEN UNCHANGED to_socket
                              ELSE to_socket' = to_socket \cup {c}
    /\ UNCHANGED <<actor, handling, queues, active_sessions, shutdown, socket,
                   session, watcher, disconnect, caller, user>>

(* The watch::Sender was dropped with the actor: exit quietly.               *)
CloseTaskQuit(c) ==
    /\ close_task[c] = "watching"
    /\ ~shutdown_signal
    /\ ~Alive
    /\ close_task' = [close_task EXCEPT ![c] = "done"]
    /\ UNCHANGED <<actor, handling, queues, active_sessions, shutdown, socket,
                   session, to_socket, watcher, disconnect, caller, user>>

MutSessionOver(c) == TRUE

(* Session::await_close resolves: the session actor has been dropped.        *)
SessionOver(c) == session[c] = "ended"

MutNotifyServer(c) ==
    IF Alive /\ ~shutting_down
    THEN disconnection_receiver' = Append(disconnection_receiver, c)
    ELSE UNCHANGED disconnection_receiver

(* Server::disconnected, ignored by a dead actor.                            *)
NotifyServer(c) ==
    IF Alive THEN disconnection_receiver' = Append(disconnection_receiver, c)
             ELSE UNCHANGED disconnection_receiver

(* The watcher: await_close, abort watch_for_shutdown, tell the server.      *)
Watcher(c) ==
    /\ watcher[c] = "await_close"
    /\ SessionOver(c)
    /\ watcher' = [watcher EXCEPT ![c] = "done"]
    /\ close_task' = [close_task EXCEPT ![c] = "done"]
    /\ NotifyServer(c)
    /\ UNCHANGED <<actor, handling, connection_receiver, server_call_receiver,
                   shutdown_receiver, active_sessions, shutdown, socket,
                   session, to_socket, disconnect, caller, user>>

-----------------------------------------------------------------------------
ActorStep ==
    \/ RecvShutdown \/ RejectConnection \/ RecvConnection
    \/ RecvDisconnected \/ RecvCall \/ Exit

Callback ==
    \/ \E c \in Conns : CreateSession(c) \/ OnConnectOk(c) \/ OnConnectErr(c)
    \/ OnDisconnectDone \/ OnCallDone

Handle ==
    \/ \E c \in Conns : Accept(c)
    \/ \E k \in Callers : CallShutdown(k) \/ CancelShutdown(k)
    \/ \E u \in Users : UserCall(u)

SessionStep(c) ==
    \/ LookForClose(c) \/ StartHandler(c) \/ Park(c)
    \/ SessionCallWith(c) \/ EndHandler(c)
    \/ EndSession(c) \/ TakeClose(c) \/ CloseSession(c)

TaskStep(c) == CloseTask(c) \/ CloseTaskQuit(c) \/ Watcher(c)

Next ==
    \/ ActorStep
    \/ Callback
    \/ AbortActor
    \/ Handle
    \/ \E c \in Conns : SessionStep(c) \/ TaskStep(c)

Spec == Init /\ [][Next]_vars

(* The runtime polls every ready task.  tokio::select! starts at a random    *)
(* branch, so a branch that is ready again and again is taken.  Callbacks    *)
(* return.  Nothing makes a client, a caller or a user act, and nothing ends *)
(* a session but the Close it is sent.                                       *)
Fairness ==
    /\ SF_vars(RecvShutdown)
    /\ SF_vars(RejectConnection \/ RecvConnection)
    /\ SF_vars(RecvDisconnected)
    /\ SF_vars(RecvCall)
    /\ WF_vars(Exit)
    /\ WF_vars(\E c \in Conns : OnConnectOk(c) \/ OnConnectErr(c))
    /\ WF_vars(OnDisconnectDone)
    /\ WF_vars(OnCallDone)
    /\ \A c \in Conns :
        /\ WF_vars(StartHandler(c) \/ Park(c))
        /\ WF_vars(EndHandler(c))
        /\ WF_vars(TakeClose(c))
        /\ WF_vars(CloseTask(c) \/ CloseTaskQuit(c))
        /\ WF_vars(Watcher(c))

FairSpec == Spec /\ Fairness

-----------------------------------------------------------------------------
(* Properties.                                                               *)

(* Sessions the extension returned from on_connect.                          *)
Accepted == {c \in Conns : watcher[c] # "none"}

(* The counter that decides when the drain is over (active_sessions of       *)
(* ServerActor::run) is the number of accepted sessions whose disconnect the *)
(* actor has not received: it never drifts, and saturating_sub never clips.  *)
ActiveSessionsCount ==
    Alive => active_sessions =
                 Cardinality({c \in Accepted : disconnect[c] = "none"})

(* graceful_shutdown returns Ok only when every accepted session's task is   *)
(* over and its on_disconnect has completed, whatever was in flight when the *)
(* shutdown was requested.                                                   *)
AckMeansDrained ==
    (\E k \in Callers : caller[k] = "acked") =>
        \A c \in Accepted : session[c] = "ended" /\ disconnect[c] = "done"

(* Once the actor has seen a shutdown request it runs neither on_connect nor *)
(* on_call, however many connections and calls are queued.                   *)
ShutdownStopsDispatch ==
    shutting_down => actor \notin {"on_connect", "on_call"}

(* on_disconnect starts at most once for a session, and only for an accepted *)
(* session whose task is already over (session.rs drops the session actor    *)
(* before it reports the result).                                            *)
DisconnectOnceAfterEnd ==
    [][\A c \in Conns :
          disconnect'[c] = "running" /\ disconnect[c] # "running" =>
              disconnect[c] = "none" /\ c \in Accepted /\ session[c] = "ended"]_vars

(* The abstract view: the drain as GracefulShutdown sees it.                 *)
Phase ==
    CASE actor = "exited"  -> "stopped"
      [] actor = "aborted" -> "aborted"
      [] OTHER -> IF shutting_down THEN "draining" ELSE "serving"

Answer ==
    [k \in Callers |->
        CASE caller[k] = "acked" -> "ok"
          [] caller[k] \in {"dropped", "refused"} -> "stopped"
          [] OTHER -> caller[k]]

Shutdown == INSTANCE GracefulShutdown WITH
    phase <- Phase,
    live <- {c \in Accepted : disconnect[c] # "done"},
    gone <- {c \in Conns : disconnect[c] = "done"},
    answer <- Answer

(* The actor, its tasks and its channels implement the promise of            *)
(* graceful_shutdown: admission ends when the drain begins, and Ok is only   *)
(* given with no session left.                                               *)
ImplementsShutdown == Shutdown!Spec

(* The task of one session as module SessionLife has it.                     *)
Seen(c) ==
    CASE session[c] \in {"none", "select"} -> "select"
      [] session[c] \in {"handler", "call_with", "replied"} -> "handler"
      [] session[c] = "ended" -> "over"
      [] OTHER -> session[c]

Life(c) == INSTANCE SessionLife WITH
    phase <- Seen(c),
    closing <- c \in to_socket

LivesFresh == \A c \in Conns : Life(c)!Init

LivesStep == \A c \in Conns : [Life(c)!Next]_(Life(c)!vars)

(* The server assumes of a session's task what a Session does, and no more.  *)
RunsSessions == LivesFresh /\ [][LivesStep]_vars

(* server.rs, on graceful_shutdown: it "resolves once every session has been *)
(* closed and dispatched to on_disconnect", and it "sends a Close frame to   *)
(* every live session and waits for each session actor to terminate".        *)
ShutdownResolves ==
    \A k \in Callers : caller[k] = "waiting" ~> caller[k] # "waiting"

(* No session handler waits for the server for ever.                         *)
NoneBlocked == \A c \in Conns : []<>(session[c] # "call_with")

(* Nothing but such a handler can hold up a graceful_shutdown: the Close     *)
(* reaches each live session through its watcher, each watcher reports back, *)
(* and the counter comes down to zero.                                       *)
ShutdownReturns == NoneBlocked => ShutdownResolves

(* The disconnect of every accepted session that ends is delivered to        *)
(* on_disconnect while the actor lives.                                      *)
DisconnectsDelivered ==
    \A c \in Conns :
        c \in Accepted /\ session[c] = "ended" ~> disconnect[c] = "done" \/ ~Alive

(* Nor a Server::call_with from elsewhere: on_call answers it, or the drain  *)
(* drops it.                                                                 *)
CallWithReturns ==
    NoneBlocked => \A u \in Users : user[u] = "waiting" ~> user[u] # "waiting"

(* No socket stays in the connection queue, not even of a server whose drain *)
(* never completes: it is handed to on_connect, rejected with a Close frame, *)
(* or dropped with the actor (server.rs 137-175).  The documentation of      *)
(* graceful_shutdown says the contrary, that connections "queued before the  *)
(* shutdown remain queued but are not handed to" on_connect (378-380): the   *)
(* second half holds, the first is not what the code does.                   *)
ConnectionsLeaveQueue ==
    \A c \in Conns : socket[c] = "queued" ~> socket[c] # "queued"

(* server.rs, on graceful_shutdown: "Calling this method concurrently from   *)
(* multiple tasks is safe -- every caller is acknowledged once the drain     *)
(* finishes": no request made before the actor exits is turned into          *)
(* ServerStopped by a drain that completes.                                  *)
EveryCallerAcknowledged ==
    actor = "exited" => \A k \in Callers : caller[k] # "dropped"

-----------------------------------------------------------------------------
(* The inductive invariant behind the safety properties (ServerProofs).      *)

NoRepeat(q) == \A i, j \in 1..Len(q) : q[i] = q[j] => i = j

(* A socket in the queue is there once and has no watcher; a watched socket  *)
(* became a session.                                                         *)
ConnectionsInv ==
    /\ NoRepeat(connection_receiver)
    /\ \A i \in 1..Len(connection_receiver) :
          socket[connection_receiver[i]] = "queued"
    /\ \A c \in Conns : watcher[c] # "none" => socket[c] = "session"
    /\ actor = "on_connect" =>
          /\ handling \in Conns
          /\ socket[handling] \in {"extension", "session"}
          /\ watcher[handling] = "none"

(* A session's life is told in order: task over, watcher done, queued for    *)
(* the actor once, on_disconnect running, on_disconnect completed.           *)
DisconnectsInv ==
    /\ NoRepeat(disconnection_receiver)
    /\ \A i \in 1..Len(disconnection_receiver) :
          /\ watcher[disconnection_receiver[i]] = "done"
          /\ disconnect[disconnection_receiver[i]] = "none"
    /\ \A c \in Conns : watcher[c] = "done" => session[c] = "ended"
    /\ \A c \in Conns : disconnect[c] # "none" => watcher[c] = "done"
    /\ actor = "on_disconnect" =>
          handling \in Conns /\ disconnect[handling] = "running"
    /\ \A c \in Conns : Alive /\ disconnect[c] = "running" =>
          actor = "on_disconnect" /\ handling = c

(* Who asked for the shutdown, and what an exit leaves behind.               *)
ShutdownInv ==
    /\ \A i \in 1..Len(shutdown_receiver) :
          caller[shutdown_receiver[i]] \in {"waiting", "cancelled"}
    /\ \A k \in Callers : caller[k] = "acked" => actor = "exited"
    /\ actor = "exited" =>
          \A c \in Conns : watcher[c] # "none" => disconnect[c] = "done"

(* Everything the server's shared state must satisfy between two steps of    *)
(* any of its tasks for the drain to be counted and acknowledged correctly.  *)
ServerInv ==
    /\ ConnectionsInv
    /\ DisconnectsInv
    /\ ShutdownInv
    /\ ActiveSessionsCount
    /\ ShutdownStopsDispatch

=============================================================================
