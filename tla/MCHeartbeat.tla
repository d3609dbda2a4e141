----------------------------- MODULE MCHeartbeat -----------------------------
(* Instances of Heartbeat for TLC.                                           *)
EXTENDS Heartbeat

(* Timeouts below, at and above the heartbeat, patient ones among them.      *)
MCConfigs == [heartbeat : 1..3, timeout : {0, 2, 3, 7, 8}]

=============================================================================
