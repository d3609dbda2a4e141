------------------------------- MODULE Message -------------------------------
(* One message from InMessage::new to the actor that reads it at the other   *)
(* end: the values that own its MessageSignal and their drops (socket.rs),   *)
(* the conversions through the transports' message types                     *)
(* (tungstenite_common.rs, client_connector_wasm.rs), CloseCode, and what    *)
(* tungstenite makes of a Close that it receives.  The sender is either      *)
(* connector, the other end tungstenite: a server, or a native client.       *)
EXTENDS Naturals, FiniteSets

CONSTANTS
    Values,     \* the values of type InMessage and InRawMessage there may be
    Payloads,   \* the numbers of the close codes that carry one
    NoCode      \* a Close without a CloseFrame

u16 == 0..65535

-----------------------------------------------------------------------------
(* CloseCode.                                                                *)

NumberOf ==
    [Normal |-> 1000, Away |-> 1001, Protocol |-> 1002, Unsupported |-> 1003,
     Status |-> 1005, Abnormal |-> 1006, Invalid |-> 1007, Policy |-> 1008,
     Size |-> 1009, Extension |-> 1010, Error |-> 1011, Restart |-> 1012,
     Again |-> 1013, Tls |-> 1015]

Named == DOMAIN NumberOf
Ranges == {"Reserved", "Iana", "Library", "Bad"}

ASSUME MessageAssumption ==
    /\ Payloads \subseteq u16
    /\ NoCode \notin u16
    /\ NoCode \notin [name : Named \cup Ranges, number : u16 \cup {NoCode}]

(* A variant, and the number that it carries if it is one of the ranges.     *)
CloseCodes ==
    [name : Named, number : {NoCode}] \cup [name : Ranges, number : Payloads]

(* From<CloseCode> for u16.                                                  *)
ToNumber(c) == IF c.name \in Named THEN NumberOf[c.name] ELSE c.number

(* The other table, in From<u16> for CloseCode; tungstenite has the same.    *)
NamedNumbers == 1000..1015 \ {1004, 1014}

MutNameOf(n) == IF n >= 1003 THEN "Unsupported" ELSE "Normal"

NameOf(n) ==
    CASE n = 1000 -> "Normal"      [] n = 1001 -> "Away"
      [] n = 1002 -> "Protocol"    [] n = 1003 -> "Unsupported"
      [] n = 1005 -> "Status"      [] n = 1006 -> "Abnormal"
      [] n = 1007 -> "Invalid"     [] n = 1008 -> "Policy"
      [] n = 1009 -> "Size"        [] n = 1010 -> "Extension"
      [] n = 1011 -> "Error"       [] n = 1012 -> "Restart"
      [] n = 1013 -> "Again"       [] n = 1015 -> "Tls"

RangeOf(n) ==
    CASE n \in 1016..2999 -> "Reserved"
      [] n \in 3000..3999 -> "Iana"
      [] n \in 4000..4999 -> "Library"
      [] OTHER            -> "Bad"

FromNumber(n) ==
    IF n \in NamedNumbers THEN [name |-> NameOf(n), number |-> NoCode]
                          ELSE [name |-> RangeOf(n), number |-> n]

-----------------------------------------------------------------------------
(* Messages and what the transports make of them.                            *)

Connectors == {"native", "wasm"}

(* RawMessage: those of the owner, of the heartbeat and of the peer's stack. *)
RawMessages ==
    [type : {"text", "binary", "ping", "pong"}, code : {NoCode}]
        \cup [type : {"close"}, code : {NoCode} \cup CloseCodes]

Owners == {"text", "binary", "close"}

(* The browser's socket has neither pings nor pongs.                         *)
Abnormal == [type |-> "close", code |-> NumberOf.Abnormal]

(* From<RawMessage> for tungstenite::Message and for the WASM Message, down  *)
(* to the number in the frame.                                               *)
Encode(side, raw) ==
    IF side = "wasm" /\ raw.type \in {"ping", "pong"} THEN Abnormal
    ELSE [type |-> raw.type,
          code |-> IF raw.code = NoCode THEN NoCode ELSE ToNumber(raw.code)]

(* ... and From<tungstenite::Message> for RawMessage.                        *)
Decode(frame) ==
    [type |-> frame.type,
     code |-> IF frame.code = NoCode THEN NoCode ELSE FromNumber(frame.code)]

(* The codes that tungstenite lets a frame carry (CloseCode::is_allowed).     *)
Allowed(c) == c.name \notin {"Status", "Abnormal", "Tls", "Reserved", "Bad"}

(* tungstenite reads a Close with another code as Protocol, unless it is the *)
(* answer to a Close of its own.                                             *)
DoClose(state, frame) ==
    IF frame.code # NoCode /\ state = "Active" /\ ~Allowed(FromNumber(frame.code))
    THEN [frame EXCEPT !.code = NumberOf.Protocol]
    ELSE frame

-----------------------------------------------------------------------------
VARIABLES
    raw,      \* the message
    sender,   \* the connector at this end
    value,    \* of each value its type ("none" before and after its life), and
              \* whether it still has the message and the signal
    cloned,   \* InMessage or InRawMessage was cloned
    sending,  \* the value whose message sink.send is sending, if any
    signal,   \* the MessageSignal they share
    wire,     \* the frames that the transport has taken
    reader,   \* the other end's tungstenite: has it sent a Close itself
    received  \* what the other end has read

vars == <<raw, sender, value, cloned, sending, signal, wire, reader, received>>

Gone == [type |-> "none", message |-> FALSE, signal |-> FALSE]

Types == {"none", "InMessage", "InRawMessage"}

MessageTypeOK ==
    /\ raw \in RawMessages
    /\ sender \in Connectors
    /\ value \in [Values -> [type : Types, message : BOOLEAN, signal : BOOLEAN]]
    /\ cloned \in BOOLEAN
    /\ sending \subseteq Values
    /\ signal \in {"Sending", "Sent", "Failed"}
    /\ reader \in {"Active", "ClosedByUs"}

Live(v) == value[v].type # "none"

(* InMessage::new, or InRawMessage::new for what is not the owner's.         *)
Init ==
    /\ raw \in RawMessages
    /\ sender \in Connectors
    /\ \E v \in Values :
         value = [u \in Values |->
             IF u = v
             THEN [type |-> IF raw.type \in Owners THEN "InMessage" ELSE "InRawMessage",
                   message |-> TRUE, signal |-> TRUE]
             ELSE Gone]
    /\ cloned = FALSE
    /\ sending = {}
    /\ signal = "Sending"
    /\ wire = {}
    /\ reader = "Active"
    /\ received = {}

(* The derived Clone shares the signal.                                      *)
Clone(v, u) ==
    /\ Live(v) /\ v \notin sending
    /\ ~Live(u)
    /\ ~cloned
    /\ value' = [value EXCEPT ![u] = value[v]]
    /\ cloned' = TRUE
    /\ UNCHANGED <<raw, sender, sending, signal, wire, reader, received>>

(* Message and signal are taken out of the InMessage, whose drop then does   *)
(* nothing.                                                                  *)
Moved(v) == [value[v] EXCEPT !.type = "InRawMessage"]

(* From<InMessage> for InRawMessage, on the way into a sink.                 *)
IntoRaw(v) ==
    /\ value[v].type = "InMessage"
    /\ value' = [value EXCEPT ![v] = Moved(v)]
    /\ UNCHANGED <<raw, sender, cloned, sending, signal, wire, reader, received>>

(* The sink actor takes the message out and begins to send it.               *)
TakeMessage(v) ==
    /\ value[v].type = "InRawMessage"
    /\ value[v].message
    /\ sending = {}
    /\ sending' = {v}
    /\ value' = [value EXCEPT ![v].message = FALSE]
    /\ UNCHANGED <<raw, sender, cloned, signal, wire, reader, received>>

(* set_signal: only the value that still has the signal sets it.             *)
SetSignal(v, status) == IF value[v].signal THEN status ELSE signal

(* sink.send is over.  The value then drops, without its signal.             *)
SendReturns(v, status) ==
    /\ v \in sending
    /\ sending' = {}
    /\ signal' = SetSignal(v, status)
    /\ value' = [value EXCEPT ![v].signal = FALSE]
    /\ wire' = IF status = "Sent" THEN wire \cup {Encode(sender, raw)} ELSE wire
    /\ UNCHANGED <<raw, sender, cloned, reader, received>>

MutDropSignal(v) == signal

(* impl Drop for InMessage and InRawMessage.                                 *)
DropSignal(v) == SetSignal(v, "Failed")

(* A queue, a failed call, the sink actor or a user drops a value.           *)
DropValue(v) ==
    /\ Live(v) /\ v \notin sending
    /\ signal' = DropSignal(v)
    /\ value' = [value EXCEPT ![v] = Gone]
    /\ UNCHANGED <<raw, sender, cloned, sending, wire, reader, received>>

(* The other end sends a Close before the message reaches it.                *)
ReaderCloses ==
    /\ reader = "Active"
    /\ received = {}
    /\ reader' = "ClosedByUs"
    /\ UNCHANGED <<raw, sender, value, cloned, sending, signal, wire, received>>

(* The other end's stream actor reads what tungstenite gives it.             *)
Receive ==
    /\ wire # {}
    /\ received = {}
    /\ received' = {Decode(DoClose(reader, frame)) : frame \in wire}
    /\ UNCHANGED <<raw, sender, value, cloned, sending, signal, wire, reader>>

Next ==
    \/ \E v, u \in Values : Clone(v, u)
    \/ \E v \in Values :
         \/ IntoRaw(v) \/ TakeMessage(v) \/ DropValue(v)
         \/ \E status \in {"Sent", "Failed"} : SendReturns(v, status)
    \/ ReaderCloses
    \/ Receive

Spec == Init /\ [][Next]_vars

-----------------------------------------------------------------------------
(* Properties.                                                               *)

(* A signal tells the truth, whoever dropped the message on its way: with    *)
(* the last value it has settled, Sent means that the transport took it, and *)
(* Failed, unless the message was cloned, that it did not (socket.rs         *)
(* 280-346).                                                                 *)
SignalTruthful ==
    /\ (\A v \in Values : ~Live(v)) => signal # "Sending"
    /\ signal = "Sent" => wire # {}
    /\ signal = "Failed" /\ ~cloned => wire = {}

(* The numbers that a Close may carry to an end that has not closed.         *)
Carried == 1000..1003 \cup 1007..1013 \cup 3000..4999

(* What the owner sends is read as the same type of message, a Close with    *)
(* the same number if it is one of Carried, as those of applications are,    *)
(* and otherwise as a protocol error, unless the reader had closed first:    *)
(* the timeout's own Close (Abnormal, socket.rs 671) tells a peer Protocol.  *)
(* No code is lost or made up on the way, and a native ping is never read as *)
(* a Close (tungstenite_common.rs, client_connector_wasm.rs 29-54).          *)
ArrivesAsSent ==
    \A r \in received :
        /\ raw.type \in Owners \/ sender = "native" => r.type = raw.type
        /\ raw.type = "close" => (r.code = NoCode <=> raw.code = NoCode)
        /\ raw.type = "close" /\ raw.code # NoCode =>
             ToNumber(r.code) =
                 IF ToNumber(raw.code) \in Carried \/ reader = "ClosedByUs"
                 THEN ToNumber(raw.code) ELSE NumberOf.Protocol

=============================================================================
