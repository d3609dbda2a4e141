------------------------------ MODULE MCClient ------------------------------
(* Instances of Client for TLC.                                              *)
EXTENDS Client

CONSTANTS m1, z

PeerSpec == FairSpec /\ PeerFairness

=============================================================================
