------------------------------ MODULE MCMessage ------------------------------
(* Instances of Message for TLC.                                             *)
EXTENDS Message

CONSTANTS v1, v2

(* Both sides of every boundary of the ranges, and the numbers in between    *)
(* that have a name.                                                         *)
MCPayloads ==
    {0, 1, 999, 2999, 3000, 3999, 4000, 4999, 5000, 65535} \cup 1000..1016

=============================================================================
