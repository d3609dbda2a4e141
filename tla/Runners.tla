------------------------------- MODULE Runners -------------------------------
(* The server's runners: from a TCP connection to Server::accept.  The       *)
(* tungstenite runner does one connection after the other, TLS and WebSocket *)
(* handshake included (server_runners/tungstenite.rs); axum has a task per   *)
(* connection, whose handler leaves the upgrade to another one (axum.rs,     *)
(* axum_tungstenite.rs).  hyper and the handshakes' bytes are external.      *)
EXTENDS Naturals, Sequences

CONSTANTS
    Conns,       \* TCP connections
    Acceptors,   \* the runners: "Plain", "Tls" and "Axum"
    Faults       \* what may be wrong with a request

Checks == {"MethodNotGet", "InvalidConnectionHeader", "InvalidUpgradeHeader",
           "InvalidWebSocketVersionHeader", "WebSocketKeyHeaderMissing",
           "ConnectionNotUpgradable"}

ASSUME RunnersAssumption ==
    /\ Acceptors \subseteq {"Plain", "Tls", "Axum"}
    /\ Faults \subseteq Checks

VARIABLES
    acceptor,   \* which runner this is
    peer,       \* of each connection: it keeps to the protocol, it may do
                \* anything, or it connects and then says nothing
    arrived,    \* the order in which they connected
    backlog,    \* what the listener has not accepted yet
    stage,      \* where a connection is
    fault,      \* what is wrong with its request
    answer,     \* what its request was last answered with
    handed,     \* the order of the calls of Server::accept
    alive       \* the server actor runs

vars == <<acceptor, peer, arrived, backlog, stage, fault, answer, handed, alive>>

InHandshake == {"tls", "websocket"}
InHttp == {"open", "requested", "upgrading"}
Handed == {"queued", "taken", "dropped"}

RunnersTypeOK ==
    /\ acceptor \in Acceptors
    /\ peer \in [Conns -> {"polite", "faulty", "silent"}]
    /\ arrived \in Seq(Conns) /\ backlog \in Seq(Conns) /\ handed \in Seq(Conns)
    /\ stage \in [Conns -> {"new", "backlog", "closed"} \cup InHandshake \cup InHttp \cup Handed]
    /\ fault \in [Conns -> Faults \cup {"none"}]
    /\ answer \in [Conns -> {"none", "rejected", "101"}]
    /\ alive \in BOOLEAN

Init ==
    /\ acceptor \in Acceptors
    /\ peer \in [Conns -> {"polite", "faulty", "silent"}]
    /\ arrived = <<>> /\ backlog = <<>> /\ handed = <<>>
    /\ stage = [c \in Conns |-> "new"]
    /\ fault = [c \in Conns |-> "none"]
    /\ answer = [c \in Conns |-> "none"]
    /\ alive = TRUE

Enter(c, s) == stage' = [stage EXCEPT ![c] = s]
Answer(c, a) == answer' = [answer EXCEPT ![c] = a]

-----------------------------------------------------------------------------
(* Peers.                                                                    *)
Connect(c) ==
    /\ stage[c] = "new"
    /\ Enter(c, "backlog")
    /\ arrived' = Append(arrived, c)
    /\ backlog' = Append(backlog, c)
    /\ UNCHANGED <<acceptor, peer, fault, answer, handed, alive>>

(* A faulty peer resets its connection before accept, which returns the      *)
(* error and is called again, or while hyper reads from it.                  *)
Reset(c) ==
    /\ peer[c] = "faulty"
    /\ \/ stage[c] = "backlog" /\ c = Head(backlog) /\ backlog' = Tail(backlog)
       \/ stage[c] \in {"open", "requested"} /\ UNCHANGED backlog
    /\ Enter(c, "closed")
    /\ UNCHANGED <<acceptor, peer, arrived, fault, answer, handed, alive>>

(* An HTTP request, which may be the next one after a rejection.             *)
SendRequest(c) ==
    /\ stage[c] = "open"
    /\ peer[c] # "silent"
    /\ answer[c] = "rejected" => peer[c] = "faulty"
    /\ \E f \in Faults \cup {"none"} :
         /\ peer[c] = "polite" => f = "none"
         /\ fault' = [fault EXCEPT ![c] = f]
    /\ Enter(c, "requested")
    /\ UNCHANGED <<acceptor, peer, arrived, backlog, answer, handed, alive>>

-----------------------------------------------------------------------------
(* Server::accept: a dead server only logs the failed send and drops socket. *)
Accept(c) ==
    /\ Enter(c, IF alive THEN "queued" ELSE "dropped")
    /\ handed' = Append(handed, c)

(* The loop awaits whatever connection it has accepted.                      *)
MutLoopFree == \A c \in Conns : stage[c] # "tls"

MutReturns == \A c \in Conns : stage[c] \notin InHandshake \cup {"closed"}

LoopFree == \A c \in Conns : stage[c] \notin InHandshake

(* listener.accept; the handshake with the stream begins.                    *)
AcceptStream(c) ==
    /\ acceptor \in {"Plain", "Tls"}
    /\ LoopFree
    /\ stage[c] = "backlog" /\ c = Head(backlog)
    /\ backlog' = Tail(backlog)
    /\ Enter(c, IF acceptor = "Tls" THEN "tls" ELSE "websocket")
    /\ UNCHANGED <<acceptor, peer, arrived, fault, answer, handed, alive>>

TlsAccepted(c) ==
    /\ stage[c] = "tls"
    /\ peer[c] # "silent"
    /\ Enter(c, "websocket")
    /\ UNCHANGED <<acceptor, peer, arrived, backlog, fault, answer, handed, alive>>

(* acceptor.accept returned an error: the stream is dropped, continue.       *)
HandshakeFails(c) ==
    /\ stage[c] \in InHandshake
    /\ peer[c] = "faulty"
    /\ Enter(c, "closed")
    /\ UNCHANGED <<acceptor, peer, arrived, backlog, fault, answer, handed, alive>>

(* accept_hdr_async has sent its response; the loop goes on to the server.   *)
HandshakeDone(c) ==
    /\ stage[c] = "websocket"
    /\ peer[c] # "silent"
    /\ Answer(c, "101")
    /\ Accept(c)
    /\ UNCHANGED <<acceptor, peer, arrived, backlog, fault, alive>>

-----------------------------------------------------------------------------
(* axum: the connection gets a task that serves HTTP.                        *)
Serve(c) ==
    /\ acceptor = "Axum"
    /\ stage[c] = "backlog" /\ c = Head(backlog)
    /\ backlog' = Tail(backlog)
    /\ Enter(c, "open")
    /\ UNCHANGED <<acceptor, peer, arrived, fault, answer, handed, alive>>

(* Upgrade::from_request_parts lets through what none of the checks rejects. *)
Extracted(c) == fault[c] = "none"

(* The extractor rejects, or the handler returns a response of its own,      *)
(* without on_upgrade or, though it should not, after it: the task that it   *)
(* spawned then gets an error from hyper.                                    *)
Reject(c) ==
    /\ stage[c] = "requested"
    /\ Answer(c, "rejected")
    /\ Enter(c, "open")
    /\ UNCHANGED <<acceptor, peer, arrived, backlog, fault, handed, alive>>

(* on_upgrade: the task is spawned, then the response is returned.           *)
OnUpgrade(c) ==
    /\ stage[c] = "requested"
    /\ Extracted(c)
    /\ Enter(c, "upgrading")
    /\ answer' = [answer EXCEPT ![c] = "none"]
    /\ UNCHANGED <<acceptor, peer, arrived, backlog, fault, handed, alive>>

(* hyper has written it.                                                     *)
Respond(c, a) ==
    /\ stage[c] = "upgrading" /\ answer[c] = "none"
    /\ Answer(c, a)
    /\ UNCHANGED <<acceptor, peer, arrived, backlog, stage, fault, handed, alive>>

MutUpgraded(c) == TRUE

(* on_upgrade.await, in the spawned task.                                    *)
Upgraded(c) == answer[c] = "101"

UpgradeDone(c) ==
    /\ stage[c] = "upgrading"
    /\ Upgraded(c)
    /\ Accept(c)
    /\ UNCHANGED <<acceptor, peer, arrived, backlog, fault, answer, alive>>

(* on_failed_upgrade: the peer has gone, or the handler has answered         *)
(* something else and the connection goes on without the upgrade.            *)
UpgradeFails(c) ==
    /\ stage[c] = "upgrading"
    /\ \/ answer[c] = "rejected" /\ Enter(c, "open")
       \/ peer[c] = "faulty" /\ Enter(c, "closed")
    /\ UNCHANGED <<acceptor, peer, arrived, backlog, fault, answer, handed, alive>>

-----------------------------------------------------------------------------
(* The server actor takes what was handed to it in order.                    *)
Ahead(q, c, d) == \E i, j \in 1..Len(q) : i < j /\ q[i] = c /\ q[j] = d

TakeConnection(c) ==
    /\ stage[c] = "queued"
    /\ \A d \in Conns : stage[d] = "queued" => ~Ahead(handed, d, c)
    /\ Enter(c, "taken")
    /\ UNCHANGED <<acceptor, peer, arrived, backlog, fault, answer, handed, alive>>

ServerExits ==
    /\ alive
    /\ alive' = FALSE
    /\ stage' = [c \in Conns |-> IF stage[c] = "queued" THEN "dropped" ELSE stage[c]]
    /\ UNCHANGED <<acceptor, peer, arrived, backlog, fault, answer, handed>>

-----------------------------------------------------------------------------
(* accept_hdr_async and the acceptors; none of them has a timeout.           *)
Handshake(c) == TlsAccepted(c) \/ HandshakeFails(c) \/ HandshakeDone(c)

Runner(c) == AcceptStream(c) \/ Handshake(c) \/ Serve(c)

Handler(c) == Reject(c) \/ OnUpgrade(c)

Task(c) == UpgradeDone(c) \/ UpgradeFails(c)

Hyper(c) == \E a \in {"101", "rejected"} : Respond(c, a)

Next ==
    \/ \E c \in Conns :
         \/ Connect(c) \/ Reset(c) \/ SendRequest(c)
         \/ Runner(c) \/ Handler(c) \/ Hyper(c) \/ Task(c) \/ TakeConnection(c)
    \/ ServerExits

Spec == Init /\ [][Next]_vars

(* The tasks are scheduled, handlers return, peers that are not silent go on.*)
FairSpec ==
    /\ Spec
    /\ \A c \in Conns :
         /\ WF_vars(SendRequest(c) /\ peer[c] = "polite")
         /\ WF_vars(Runner(c)) /\ WF_vars(Handler(c))
         /\ WF_vars(Hyper(c)) /\ WF_vars(Task(c))

-----------------------------------------------------------------------------
(* Properties.                                                               *)

(* The server is handed a connection once, and only when the peer has been   *)
(* answered 101: never one that the extractor or the handler rejected, even  *)
(* if the task for it had been spawned (axum_tungstenite.rs 147-203).  None  *)
(* waits at a server whose actor has exited (server.rs 326-339).             *)
HandedAsAnswered ==
    /\ \A c \in Conns : stage[c] \in Handed => answer[c] = "101" /\ fault[c] = "none"
    /\ \A c \in Conns :
         stage[c] \in Handed <=> \E i \in 1..Len(handed) : handed[i] = c
    /\ \A i, j \in 1..Len(handed) : handed[i] = handed[j] => i = j
    /\ ~alive => \A c \in Conns : stage[c] # "queued"

(* The tungstenite runner hands connections over in the order in which they  *)
(* came: one that waits longer for its handshake is not overtaken            *)
(* (tungstenite.rs 120-137).                                                 *)
HandedInOrder ==
    acceptor # "Axum" =>
        \A c, d \in Conns :
            Ahead(arrived, c, d) /\ stage[d] \in Handed =>
                stage[c] = "closed" \/ Ahead(handed, c, d)

(* A peer that keeps to the protocol is handed to the server, or answered by *)
(* the handler, whatever failed before it.  The tungstenite runner owes this *)
(* only if no peer ahead of it is silent: it awaits each handshake in its    *)
(* loop, without a timeout (tungstenite.rs 129-135); axum owes it always.    *)
PolitePeersServed ==
    \A c \in Conns :
        /\ stage[c] = "backlog" /\ peer[c] = "polite"
        /\ \/ acceptor = "Axum"
           \/ \A d \in Conns : Ahead(arrived, d, c) => peer[d] # "silent"
        ~> stage[c] \in Handed \/ (acceptor = "Axum" /\ answer[c] = "rejected")

=============================================================================
