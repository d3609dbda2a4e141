------------------------------ MODULE Delivery ------------------------------
(* What a MessageSignal promises about the messages of one connection, with  *)
(* none of the queues in between: messages reach the wire in the order they  *)
(* were submitted and without a gap, and each signal settles at most once.   *)
EXTENDS Naturals, Sequences

CONSTANT Messages

VARIABLES
    submitted,   \* messages in the order of their submission
    signal,      \* MessageStatus of each, "none" before its submission
    wire         \* messages handed to the transport, in order

vars == <<submitted, signal, wire>>

Init ==
    /\ submitted = <<>>
    /\ signal = [m \in Messages |-> "none"]
    /\ wire = <<>>

(* A submission is accepted, or refused by a closed connection.              *)
Submit(m) ==
    /\ signal[m] = "none"
    /\ \E st \in {"Sending", "Failed"} : signal' = [signal EXCEPT ![m] = st]
    /\ submitted' = Append(submitted, m)
    /\ UNCHANGED wire

(* The next message of the submission order reaches the wire.                *)
Deliver(m) ==
    /\ signal[m] = "Sending"
    /\ Len(wire) < Len(submitted)
    /\ submitted[Len(wire) + 1] = m
    /\ signal' = [signal EXCEPT ![m] = "Sent"]
    /\ wire' = Append(wire, m)
    /\ UNCHANGED submitted

(* Any messages still on their way are given up.                             *)
Fail ==
    /\ \E lost \in SUBSET {m \in Messages : signal[m] = "Sending"} :
           signal' = [m \in Messages |->
                         IF m \in lost THEN "Failed" ELSE signal[m]]
    /\ UNCHANGED <<submitted, wire>>

Next == (\E m \in Messages : Submit(m) \/ Deliver(m)) \/ Fail

Spec == Init /\ [][Next]_vars

=============================================================================
