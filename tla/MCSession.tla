----------------------------- MODULE MCSession ------------------------------
(* Instances of Session for TLC.                                             *)
EXTENDS Session

CONSTANTS m1, z

=============================================================================
