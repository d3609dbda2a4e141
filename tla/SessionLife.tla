---------------------------- MODULE SessionLife -----------------------------
(* What a session's task lets others see of it, with none of its queues: the *)
(* select looks for a Close of its own first, a poll that has looked may     *)
(* still start one handler, and only the task itself ends the session.       *)

VARIABLES
    phase,    \* of the task: "select", "polled", "handler" or "over"
    closing   \* a Close waits in the session's queue

vars == <<phase, closing>>

Init ==
    /\ phase = "select"
    /\ closing = FALSE

(* Session::close, by whoever holds the handle.                              *)
Close ==
    /\ phase # "over"
    /\ closing' = TRUE
    /\ UNCHANGED phase

(* The poll finds no Close; from here on one may arrive unnoticed.           *)
Look ==
    /\ phase = "select"
    /\ ~closing
    /\ phase' = "polled"
    /\ UNCHANGED closing

(* It finds nothing else that a handler is for.                              *)
Park ==
    /\ phase = "polled"
    /\ phase' = "select"
    /\ UNCHANGED closing

Start ==
    /\ phase = "polled"
    /\ phase' = "handler"
    /\ UNCHANGED closing

Return ==
    /\ phase = "handler"
    /\ phase' = "select"
    /\ UNCHANGED closing

(* The task is over, and its queue is dropped with it.                       *)
Finish ==
    /\ phase # "over"
    /\ phase' = "over"
    /\ closing' = FALSE

Next == Close \/ Look \/ Park \/ Start \/ Return \/ Finish

Spec == Init /\ [][Next]_vars

=============================================================================
