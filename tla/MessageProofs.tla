---------------------------- MODULE MessageProofs ----------------------------
(* Close codes and signals for any numbers and any set of values.            *)
EXTENDS Message, TLAPS

LEMMA NamedSet ==
    Named = {"Normal", "Away", "Protocol", "Unsupported", "Status", "Abnormal",
             "Invalid", "Policy", "Size", "Extension", "Error", "Restart",
             "Again", "Tls"}
  BY DEF Named, NumberOf

(* Each name stands for its number.                                          *)
LEMMA NumberOfName ==
    ASSUME NEW n \in NamedNumbers
    PROVE  NameOf(n) \in Named /\ NumberOf[NameOf(n)] = n
<1>1. n \in Nat /\ n \in {1000, 1001, 1002, 1003, 1005, 1006, 1007, 1008, 1009,
                         1010, 1011, 1012, 1013, 1015}
  BY DEF NamedNumbers
<1>2. CASE n \in {1000, 1001, 1002}
  BY <1>2, NamedSet DEF NameOf, NumberOf
<1>3. CASE n \in {1003, 1005, 1006}
  BY <1>3, NamedSet DEF NameOf, NumberOf
<1>4. CASE n \in {1007, 1008, 1009}
  BY <1>4, NamedSet DEF NameOf, NumberOf
<1>5. CASE n \in {1010, 1011, 1012}
  BY <1>5, NamedSet DEF NameOf, NumberOf
<1>6. CASE n \in {1013, 1015}
  BY <1>6, NamedSet DEF NameOf, NumberOf
<1>7. QED
  BY <1>1, <1>2, <1>3, <1>4, <1>5, <1>6

LEMMA NumbersNamed == ASSUME NEW k \in Named PROVE NumberOf[k] \in 1000..1015
<1>1. CASE k \in {"Normal", "Away", "Protocol", "Unsupported", "Status"}
  BY <1>1 DEF NumberOf
<1>2. CASE k \in {"Abnormal", "Invalid", "Policy", "Size", "Extension"}
  BY <1>2 DEF NumberOf
<1>3. CASE k \in {"Error", "Restart", "Again", "Tls"}
  BY <1>3 DEF NumberOf
<1>4. QED
  BY <1>1, <1>2, <1>3, NamedSet

LEMMA RangesUnnamed == ASSUME NEW n \in Nat PROVE RangeOf(n) \notin Named
<1>1. RangeOf(n) \in Ranges
  BY DEF RangeOf, Ranges
<1>2. Ranges \cap Named = {}
  BY NamedSet DEF Ranges
<1>3. QED
  BY <1>1, <1>2

(* The two tables of CloseCode are inverse to each other on every number.    *)
THEOREM NumbersRoundTrip == \A n \in u16 : ToNumber(FromNumber(n)) = n
<1> SUFFICES ASSUME NEW n \in u16 PROVE ToNumber(FromNumber(n)) = n
  OBVIOUS
<1>1. n \in Nat
  BY DEF u16
<1>2. CASE n \in NamedNumbers
  BY <1>2, NumberOfName DEF ToNumber, FromNumber
<1>3. CASE n \notin NamedNumbers
  BY <1>1, <1>3, RangesUnnamed DEF ToNumber, FromNumber
<1>4. QED
  BY <1>2, <1>3

(* The number of a close code fits the frame.                                *)
LEMMA NumberInRange == \A c \in CloseCodes : ToNumber(c) \in u16
<1> SUFFICES ASSUME NEW c \in CloseCodes PROVE ToNumber(c) \in u16
  OBVIOUS
<1>1. CASE c \in [name : Named, number : {NoCode}]
  <2>1. c.name \in Named
    BY <1>1
  <2>2. NumberOf[c.name] \in 1000..1015
    BY <2>1, NumbersNamed
  <2>3. ToNumber(c) = NumberOf[c.name]
    BY <2>1 DEF ToNumber
  <2>4. \A x \in 1000..1015 : x \in u16
    BY DEF u16
  <2>5. QED
    BY <2>2, <2>3, <2>4
<1>2. CASE c \in [name : Ranges, number : Payloads]
  <2>1. c.name \notin Named
    BY <1>2, NamedSet DEF Ranges
  <2>2. QED
    BY <1>2, <2>1, MessageAssumption DEF ToNumber
<1>3. QED
  BY <1>1, <1>2 DEF CloseCodes

(* No close code is the absent one.                                          *)
LEMMA CodesAreCodes == \A n \in u16 : FromNumber(n) # NoCode
<1> SUFFICES ASSUME NEW n \in u16 PROVE FromNumber(n) # NoCode
  OBVIOUS
<1>1. CASE n \in NamedNumbers
  <2>1. FromNumber(n) \in [name : Named \cup Ranges, number : u16 \cup {NoCode}]
    BY <1>1, NumberOfName DEF FromNumber
  <2>2. QED
    BY <2>1, MessageAssumption
<1>2. CASE n \notin NamedNumbers
  <2>1. RangeOf(n) \in Ranges
    BY DEF RangeOf, Ranges
  <2>2. FromNumber(n) \in [name : Named \cup Ranges, number : u16 \cup {NoCode}]
    BY <1>2, <2>1 DEF FromNumber
  <2>3. QED
    BY <2>2, MessageAssumption
<1>3. QED
  BY <1>1, <1>2

(* The variants that tungstenite lets through are the numbers of Carried.    *)
LEMMA AllowedNumbers == \A n \in u16 : Allowed(FromNumber(n)) <=> n \in Carried
<1> SUFFICES ASSUME NEW n \in u16 PROVE Allowed(FromNumber(n)) <=> n \in Carried
  OBVIOUS
<1>1. n \in Nat
  BY DEF u16
<1>2. CASE n \in NamedNumbers
  <2>1. FromNumber(n).name = NameOf(n)
    BY <1>2 DEF FromNumber
  <2>2. n \in {1000, 1001, 1002, 1003, 1005, 1006, 1007, 1008, 1009, 1010, 1011,
               1012, 1013, 1015}
    BY <1>1, <1>2 DEF NamedNumbers
  <2>3. CASE n \in {1005, 1006, 1015}
    <3>1. NameOf(n) \in {"Status", "Abnormal", "Tls"}
      BY <2>3 DEF NameOf
    <3>2. n \notin Carried
      BY <2>3 DEF Carried
    <3>3. QED
      BY <2>1, <3>1, <3>2 DEF Allowed
  <2>4. CASE n \in {1000, 1001, 1002, 1003, 1007, 1008}
    <3>1. NameOf(n) \in {"Normal", "Away", "Protocol", "Unsupported", "Invalid", "Policy"}
      BY <2>4 DEF NameOf
    <3>2. n \in Carried
      BY <2>4 DEF Carried
    <3>3. QED
      BY <2>1, <3>1, <3>2 DEF Allowed
  <2>5. CASE n \in {1009, 1010, 1011, 1012, 1013}
    <3>1. NameOf(n) \in {"Size", "Extension", "Error", "Restart", "Again"}
      BY <2>5 DEF NameOf
    <3>2. n \in Carried
      BY <2>5 DEF Carried
    <3>3. QED
      BY <2>1, <3>1, <3>2 DEF Allowed
  <2>6. QED
    BY <2>2, <2>3, <2>4, <2>5
<1>3. CASE n \notin NamedNumbers
  <2>1. FromNumber(n).name = RangeOf(n)
    BY <1>3 DEF FromNumber
  <2>2. n \in Carried <=> n \in 3000..3999 \/ n \in 4000..4999
    BY <1>1, <1>3 DEF Carried, NamedNumbers
  <2>3. RangeOf(n) \in {"Iana", "Library"} <=> n \in 3000..3999 \/ n \in 4000..4999
    BY <1>1 DEF RangeOf
  <2>4. RangeOf(n) \in {"Reserved", "Iana", "Library", "Bad"}
    BY DEF RangeOf
  <2>5. QED
    BY <2>1, <2>2, <2>3, <2>4 DEF Allowed
<1>4. QED
  BY <1>2, <1>3

(* The frame of a message has its type, the browser's pings and pongs apart, *)
(* and the number of its code.                                               *)
LEMMA EncodedFrame ==
    ASSUME NEW r \in RawMessages, NEW side \in Connectors,
           side = "native" \/ r.type \in Owners
    PROVE  LET n == IF r.code = NoCode THEN NoCode ELSE ToNumber(r.code) IN
           /\ Encode(side, r) = [type |-> r.type, code |-> n]
           /\ n \in u16 \cup {NoCode}
           /\ n = NoCode <=> r.code = NoCode
<1>1. Encode(side, r) = [type |-> r.type,
          code |-> IF r.code = NoCode THEN NoCode ELSE ToNumber(r.code)]
  BY DEF Encode, Owners
<1>2. r.code # NoCode => ToNumber(r.code) \in u16
  BY NumberInRange DEF RawMessages
<1>3. QED
  BY <1>1, <1>2, MessageAssumption

(* What an end reads in a frame: its type and, unless tungstenite replaces   *)
(* it, its number.                                                           *)
LEMMA ReadFrame ==
    ASSUME NEW state, NEW t, NEW n \in u16 \cup {NoCode}
    PROVE  LET read == Decode(DoClose(state, [type |-> t, code |-> n])) IN
           /\ read.type = t
           /\ n = NoCode <=> read.code = NoCode
           /\ n # NoCode =>
                ToNumber(read.code) =
                    IF n \in Carried \/ state # "Active" THEN n ELSE NumberOf.Protocol
<1> DEFINE frame == [type |-> t, code |-> n]
           read == Decode(DoClose(state, frame))
<1>1. CASE n = NoCode
  <2>1. DoClose(state, frame) = frame
    BY <1>1 DEF DoClose
  <2>2. read = [type |-> t, code |-> NoCode]
    BY <1>1, <2>1 DEF Decode
  <2>3. QED
    BY <1>1, <2>2
<1>2. CASE n # NoCode
  <2> DEFINE m == IF n \in Carried \/ state # "Active" THEN n ELSE NumberOf.Protocol
  <2>1. NumberOf.Protocol = 1002
    BY DEF NumberOf
  <2>2. n \in u16 /\ m \in u16 /\ m # NoCode
    <3>1. n \in u16
      BY <1>2
    <3>2. NumberOf.Protocol \in u16
      BY <2>1 DEF u16
    <3>3. m \in u16
      BY <3>1, <3>2
    <3>4. QED
      BY <3>1, <3>3, MessageAssumption
  <2>3. Allowed(FromNumber(n)) <=> n \in Carried
    BY <2>2, AllowedNumbers
  <2>4. DoClose(state, frame) = [type |-> t, code |-> m]
    BY <1>2, <2>3 DEF DoClose
  <2>5. read = [type |-> t, code |-> FromNumber(m)]
    BY <2>2, <2>4 DEF Decode
  <2>6. ToNumber(FromNumber(m)) = m
    BY <2>2, NumbersRoundTrip
  <2>7. FromNumber(m) # NoCode
    BY <2>2, CodesAreCodes
  <2>8. QED
    BY <1>2, <2>5, <2>6, <2>7
<1>3. QED
  BY <1>1, <1>2

-----------------------------------------------------------------------------
(* The signal.                                                               *)
LEMMA TypeInit == Init => MessageTypeOK
<1> SUFFICES ASSUME Init PROVE MessageTypeOK
  OBVIOUS
<1>1. cloned \in BOOLEAN
  BY DEF Init
<1>2. value \in [Values -> [type : Types, message : BOOLEAN, signal : BOOLEAN]]
  <2>1. Gone \in [type : Types, message : BOOLEAN, signal : BOOLEAN]
    BY DEF Gone, Types
  <2>2. \A t \in Types : [type |-> t, message |-> TRUE, signal |-> TRUE]
                            \in [type : Types, message : BOOLEAN, signal : BOOLEAN]
    OBVIOUS
  <2>3. QED
    BY <2>1, <2>2 DEF Init, Types
<1>3. QED
  BY <1>1, <1>2 DEF Init, MessageTypeOK

LEMMA TypeStep == MessageTypeOK /\ [Next]_vars => MessageTypeOK'
<1> SUFFICES ASSUME MessageTypeOK, [Next]_vars PROVE MessageTypeOK'
  OBVIOUS
<1> USE DEF MessageTypeOK, Types
<1>1. ASSUME NEW v \in Values, NEW u \in Values, Clone(v, u) PROVE MessageTypeOK'
  BY <1>1 DEF Clone
<1>2. ASSUME NEW v \in Values, IntoRaw(v) PROVE MessageTypeOK'
  BY <1>2 DEF IntoRaw, Moved
<1>3. ASSUME NEW v \in Values, TakeMessage(v) PROVE MessageTypeOK'
  BY <1>3 DEF TakeMessage
<1>4. ASSUME NEW v \in Values, DropValue(v) PROVE MessageTypeOK'
  BY <1>4 DEF DropValue, DropSignal, SetSignal, Gone
<1>5. ASSUME NEW v \in Values, NEW status \in {"Sent", "Failed"},
             SendReturns(v, status)
      PROVE  MessageTypeOK'
  BY <1>5 DEF SendReturns, SetSignal
<1>6. CASE ReaderCloses
  BY <1>6 DEF ReaderCloses
<1>7. CASE Receive
  BY <1>7 DEF Receive
<1>8. CASE UNCHANGED vars
  BY <1>8 DEF vars
<1>9. QED
  BY <1>1, <1>2, <1>3, <1>4, <1>5, <1>6, <1>7, <1>8 DEF Next

(* Sending is backed by a value that will settle it; a message that nobody   *)
(* cloned has one such value until the transport has answered for it.        *)
SignalInv ==
    /\ signal = "Sending" => \E v \in Values : Live(v) /\ value[v].signal
    /\ \A v \in sending : Live(v) /\ ~value[v].message
    /\ signal = "Sent" => wire # {}
    /\ ~cloned =>
         /\ \A v, u \in Values : Live(v) /\ Live(u) => v = u
         /\ \A v \in Values :
              Live(v) =>
                /\ value[v].message \/ v \in sending => value[v].signal
                /\ value[v].signal => signal = "Sending"
         /\ signal \in {"Sending", "Failed"} => wire = {}

LEMMA SignalInit == Init => SignalInv
  BY DEF Init, SignalInv, Live, Gone

LEMMA SignalStep == MessageTypeOK /\ SignalInv /\ [Next]_vars => SignalInv'
<1> SUFFICES ASSUME MessageTypeOK, SignalInv, [Next]_vars PROVE SignalInv'
  OBVIOUS
<1> USE DEF MessageTypeOK, Types, SignalInv, Live
<1>1. ASSUME NEW v \in Values, NEW u \in Values, Clone(v, u) PROVE SignalInv'
  BY <1>1 DEF Clone
<1>2. ASSUME NEW v \in Values, IntoRaw(v) PROVE SignalInv'
  BY <1>2 DEF IntoRaw, Moved
<1>3. ASSUME NEW v \in Values, TakeMessage(v) PROVE SignalInv'
  BY <1>3 DEF TakeMessage
<1>4. ASSUME NEW v \in Values, DropValue(v) PROVE SignalInv'
  <2> USE <1>4 DEF DropValue, DropSignal, SetSignal, Gone
  <2>1. CASE value[v].signal
    <3>1. signal' = "Failed"
      BY <2>1
    <3>2. QED
      BY <3>1
  <2>2. CASE ~value[v].signal
    <3>1. signal' = signal
      BY <2>2
    <3>2. signal = "Sending" => \E u \in Values : u # v /\ Live(u) /\ value[u].signal
      BY <2>2
    <3>3. QED
      BY <3>1, <3>2
  <2>3. QED
    BY <2>1, <2>2
<1>5. ASSUME NEW v \in Values, NEW status \in {"Sent", "Failed"},
             SendReturns(v, status)
      PROVE  SignalInv'
  <2> USE <1>5 DEF SendReturns, SetSignal
  <2>1. CASE value[v].signal
    <3>1. signal' = status
      BY <2>1
    <3>2. \A u \in Values : Live(u)' <=> Live(u)
      BY DEF Live
    <3>3. wire' = IF status = "Sent" THEN wire \cup {Encode(sender, raw)} ELSE wire
      OBVIOUS
    <3>4. signal' = "Sent" => wire' # {}
      BY <3>1, <3>3
    <3>5. ~cloned /\ signal' = "Failed" => wire' = {}
      BY <2>1, <3>1, <3>3
    <3>6. ~value[v].message
      OBVIOUS
    <3>7. ~cloned => \A u \in Values : Live(u)' => u = v
      BY <3>2
    <3>8. value' = [value EXCEPT ![v].signal = FALSE] /\ sending' = {} /\ cloned' = cloned
      OBVIOUS
    <3>9. ~value'[v].signal /\ value'[v].message = value[v].message
      BY <3>8
    <3>10. signal' # "Sending"
      BY <3>1
    <3>11. ~cloned' =>
             /\ \A w, u \in Values : Live(w)' /\ Live(u)' => w = u
             /\ signal' \in {"Sending", "Failed"} => wire' = {}
      BY <3>5, <3>7, <3>8, <3>10
    <3>12. ~cloned' => \A u \in Values : Live(u)' =>
                         /\ value'[u].message \/ u \in sending' => value'[u].signal
                         /\ value'[u].signal => signal' = "Sending"
      BY <3>6, <3>7, <3>8, <3>9
    <3>13. QED
      BY <3>4, <3>8, <3>10, <3>11, <3>12
  <2>2. CASE ~value[v].signal
    <3>1. signal' = signal
      BY <2>2
    <3>2. signal = "Sending" => \E u \in Values : u # v /\ Live(u) /\ value[u].signal
      BY <2>2
    <3>3. QED
      BY <3>1, <3>2
  <2>3. QED
    BY <2>1, <2>2
<1>6. CASE ReaderCloses
  BY <1>6 DEF ReaderCloses
<1>7. CASE Receive
  BY <1>7 DEF Receive
<1>8. CASE UNCHANGED vars
  BY <1>8 DEF vars
<1>9. QED
  BY <1>1, <1>2, <1>3, <1>4, <1>5, <1>6, <1>7, <1>8 DEF Next

(* A signal reports what became of the message, for any number of values.    *)
THEOREM SignalReports == Spec => []SignalTruthful
<1>1. SignalInv => SignalTruthful
  BY DEF SignalInv, SignalTruthful
<1>2. MessageTypeOK /\ SignalInv => SignalTruthful
  BY <1>1
<1>3. QED
  BY <1>2, TypeInit, TypeStep, SignalInit, SignalStep, PTL DEF Spec

-----------------------------------------------------------------------------
(* What is on the wire is the message's frame; what was read came from it,   *)
(* as the reader was then and, having read it, still is.                     *)
WireInv ==
    /\ wire \subseteq {Encode(sender, raw)}
    /\ received \subseteq {Decode(DoClose(reader, Encode(sender, raw)))}

LEMMA WireInit == Init => WireInv
  BY DEF Init, WireInv

LEMMA WireStep == WireInv /\ [Next]_vars => WireInv'
<1> SUFFICES ASSUME WireInv, [Next]_vars PROVE WireInv'
  OBVIOUS
<1>1. CASE Receive
  BY <1>1 DEF Receive, WireInv
<1>2. CASE ReaderCloses
  BY <1>2 DEF ReaderCloses, WireInv
<1>3. ASSUME NEW v \in Values, NEW status \in {"Sent", "Failed"},
             SendReturns(v, status)
      PROVE  WireInv'
  BY <1>3 DEF SendReturns, WireInv
<1>4. CASE UNCHANGED <<raw, sender, wire, reader, received>>
  BY <1>4 DEF WireInv
<1>5. QED
  BY <1>1, <1>2, <1>3, <1>4 DEF Next, vars, Clone, IntoRaw, TakeMessage, DropValue

(* The owner's messages, and a native sender's pings, are read as what they  *)
(* are by tungstenite at the other end; so is each number of a close code    *)
(* that a frame may carry, and every other number is read as Protocol,       *)
(* except by an end that has sent a Close itself.                            *)
THEOREM Arrives == Spec => []ArrivesAsSent
<1>1. MessageTypeOK /\ WireInv => ArrivesAsSent
  <2> SUFFICES ASSUME MessageTypeOK, WireInv, NEW r \in received
               PROVE  /\ raw.type \in Owners \/ sender = "native" => r.type = raw.type
                      /\ raw.type = "close" => (r.code = NoCode <=> raw.code = NoCode)
                      /\ raw.type = "close" /\ raw.code # NoCode =>
                           ToNumber(r.code) =
                               IF ToNumber(raw.code) \in Carried \/ reader = "ClosedByUs"
                               THEN ToNumber(raw.code) ELSE NumberOf.Protocol
    BY DEF ArrivesAsSent
  <2>1. raw \in RawMessages /\ sender \in Connectors
    BY DEF MessageTypeOK
  <2>2. reader = "ClosedByUs" <=> reader # "Active"
    BY DEF MessageTypeOK
  <2>3. raw.type = "close" => raw.type \in Owners
    BY DEF Owners
  <2>4. SUFFICES ASSUME raw.type \in Owners \/ sender = "native"
                 PROVE  /\ r.type = raw.type
                        /\ r.code = NoCode <=> raw.code = NoCode
                        /\ raw.code # NoCode =>
                             ToNumber(r.code) =
                                 IF ToNumber(raw.code) \in Carried \/ reader # "Active"
                                 THEN ToNumber(raw.code) ELSE NumberOf.Protocol
    BY <2>2, <2>3
  <2> DEFINE n == IF raw.code = NoCode THEN NoCode ELSE ToNumber(raw.code)
  <2>5. /\ Encode(sender, raw) = [type |-> raw.type, code |-> n]
        /\ n \in u16 \cup {NoCode}
        /\ n = NoCode <=> raw.code = NoCode
    BY <2>1, <2>4, EncodedFrame
  <2>6. r = Decode(DoClose(reader, [type |-> raw.type, code |-> n]))
    BY <2>5 DEF WireInv
  <2>7. /\ r.type = raw.type
        /\ n = NoCode <=> r.code = NoCode
        /\ n # NoCode => ToNumber(r.code) =
             IF n \in Carried \/ reader # "Active" THEN n ELSE NumberOf.Protocol
    BY <2>5, <2>6, ReadFrame
  <2>8. QED
    BY <2>5, <2>7
<1>2. QED
  BY <1>1, TypeInit, TypeStep, WireInit, WireStep, PTL DEF Spec

=============================================================================
