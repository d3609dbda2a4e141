-------------------------- MODULE GracefulShutdown --------------------------
(* What Server::graceful_shutdown promises, with none of the channels,       *)
(* watchers and tasks that implement it: sessions are admitted until the     *)
(* server starts to drain, leave one by one, and a caller is told Ok only in *)
(* a state with no session left.                                             *)

CONSTANTS
    Conns,    \* connections that may become sessions
    Callers   \* tasks that may call graceful_shutdown once

VARIABLES
    phase,    \* "serving", "draining", "stopped" or "aborted"
    live,     \* admitted sessions whose on_disconnect has not completed
    gone,     \* sessions whose on_disconnect has completed
    answer    \* what each caller knows

vars == <<phase, live, gone, answer>>

Running == phase \in {"serving", "draining"}

Init ==
    /\ phase = "serving"
    /\ live = {}
    /\ gone = {}
    /\ answer = [k \in Callers |-> "idle"]

(* Only a server that nobody has asked to stop admits a session, and a       *)
(* connection is a session at most once.                                     *)
Admit(c) ==
    /\ phase = "serving"
    /\ c \notin live \cup gone
    /\ live' = live \cup {c}
    /\ UNCHANGED <<phase, gone, answer>>

(* on_disconnect completes for c.                                            *)
Leave(c) ==
    /\ Running
    /\ c \in live
    /\ live' = live \ {c}
    /\ gone' = gone \cup {c}
    /\ UNCHANGED <<phase, answer>>

(* A call on a stopped server is answered at once.                           *)
Request(k) ==
    /\ answer[k] = "idle"
    /\ answer' = [answer EXCEPT ![k] = IF Running THEN "waiting" ELSE "stopped"]
    /\ UNCHANGED <<phase, live, gone>>

(* The caller drops the future: its request still counts.                    *)
Cancel(k) ==
    /\ answer[k] = "waiting"
    /\ answer' = [answer EXCEPT ![k] = "cancelled"]
    /\ UNCHANGED <<phase, live, gone>>

(* Draining begins only because somebody asked.                              *)
Begin ==
    /\ phase = "serving"
    /\ \E k \in Callers : answer[k] \in {"waiting", "cancelled"}
    /\ phase' = "draining"
    /\ UNCHANGED <<live, gone, answer>>

(* With no session left the server stops; nobody is left waiting.            *)
Finish ==
    /\ phase = "draining"
    /\ live = {}
    /\ phase' = "stopped"
    /\ \E acked \in SUBSET Callers :
           answer' = [k \in Callers |->
                         IF answer[k] # "waiting" THEN answer[k]
                         ELSE IF k \in acked THEN "ok" ELSE "stopped"]
    /\ UNCHANGED <<live, gone>>

(* The actor task is aborted or panics: no caller is told Ok.                *)
Abort ==
    /\ Running
    /\ phase' = "aborted"
    /\ answer' = [k \in Callers |->
                     IF answer[k] = "waiting" THEN "stopped" ELSE answer[k]]
    /\ UNCHANGED <<live, gone>>

Next ==
    \/ \E c \in Conns : Admit(c) \/ Leave(c)
    \/ \E k \in Callers : Request(k) \/ Cancel(k)
    \/ Begin
    \/ Finish
    \/ Abort

Spec == Init /\ [][Next]_vars

=============================================================================
