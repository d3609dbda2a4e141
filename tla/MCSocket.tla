------------------------------ MODULE MCSocket ------------------------------
(* Instances of Socket for TLC.                                              *)
EXTENDS Socket

CONSTANTS m1, z

(* All tasks are polled, the peer does as it likes.                          *)
TaskSpec == SocketSpec /\ TaskFairness

=============================================================================
