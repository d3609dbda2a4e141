------------------------------ MODULE MCRunners ------------------------------
(* Instances of Runners for TLC.                                             *)
EXTENDS Runners

CONSTANTS c1, c2, c3

=============================================================================
