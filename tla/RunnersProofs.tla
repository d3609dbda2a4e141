---------------------------- MODULE RunnersProofs ----------------------------
(* What the runners hand to the server, for any number of connections and    *)
(* any faults.                                                               *)
EXTENDS Runners, TLAPS

Stages == {"new", "backlog", "closed"} \cup InHandshake \cup InHttp \cup Handed

-----------------------------------------------------------------------------
(* Queues of connections.                                                    *)
LEMMA More ==
    ASSUME NEW q \in Seq(Conns), NEW c \in Conns
    PROVE  /\ Append(q, c) \in Seq(Conns)
           /\ Len(q) \in Nat
           /\ Len(Append(q, c)) = Len(q) + 1
           /\ Append(q, c)[Len(q) + 1] = c
           /\ Len(q) + 1 \in 1..Len(Append(q, c))
           /\ \A i \in 1..Len(q) : Append(q, c)[i] = q[i] /\ i \in 1..Len(Append(q, c))
           /\ \A i \in 1..Len(Append(q, c)) : i \in 1..Len(q) \/ i = Len(q) + 1
  OBVIOUS

LEMMA Less ==
    ASSUME NEW q \in Seq(Conns), q # <<>>
    PROVE  /\ Tail(q) \in Seq(Conns)
           /\ Head(q) \in Conns
           /\ Len(q) \in Nat /\ Len(q) > 0
           /\ Len(Tail(q)) = Len(q) - 1
           /\ Head(q) = q[1]
           /\ \A i \in 1..Len(Tail(q)) : Tail(q)[i] = q[i + 1] /\ i + 1 \in 2..Len(q)
           /\ \A i \in 2..Len(q) : q[i] = Tail(q)[i - 1] /\ i - 1 \in 1..Len(Tail(q))
  OBVIOUS

In(q, c) == \E i \in 1..Len(q) : q[i] = c

Distinct(q) == \A i, j \in 1..Len(q) : q[i] = q[j] => i = j

LEMMA MoreAhead ==
    ASSUME NEW q \in Seq(Conns), NEW c \in Conns
    PROVE  /\ \A d : In(Append(q, c), d) <=> In(q, d) \/ d = c
           /\ \A d, e : Ahead(Append(q, c), d, e) <=> Ahead(q, d, e) \/ (In(q, d) /\ e = c)
           /\ Distinct(q) /\ ~In(q, c) => Distinct(Append(q, c))
<1> DEFINE r == Append(q, c)
<1>1. /\ Len(q) \in Nat
      /\ r[Len(q) + 1] = c
      /\ Len(q) + 1 \in 1..Len(r)
      /\ \A i \in 1..Len(q) : r[i] = q[i] /\ i \in 1..Len(r)
      /\ \A i \in 1..Len(r) : i \in 1..Len(q) \/ i = Len(q) + 1
  BY More
<1> HIDE DEF r
<1>2. \A d : In(r, d) <=> In(q, d) \/ d = c
  BY <1>1 DEF In
<1>3. ASSUME NEW d, NEW e, Ahead(r, d, e) PROVE Ahead(q, d, e) \/ (In(q, d) /\ e = c)
  <2>1. PICK i \in 1..Len(r), j \in 1..Len(r) : i < j /\ r[i] = d /\ r[j] = e
    BY <1>3 DEF Ahead
  <2>2. i \in 1..Len(q)
    BY <1>1, <2>1
  <2>3. CASE j \in 1..Len(q)
    BY <1>1, <2>1, <2>2, <2>3 DEF Ahead
  <2>4. CASE j = Len(q) + 1
    BY <1>1, <2>1, <2>2, <2>4 DEF In
  <2>5. QED
    BY <1>1, <2>3, <2>4
<1>4. ASSUME NEW d, NEW e, Ahead(q, d, e) PROVE Ahead(r, d, e)
  <2>1. PICK i \in 1..Len(q), j \in 1..Len(q) : i < j /\ q[i] = d /\ q[j] = e
    BY <1>4 DEF Ahead
  <2>2. QED
    BY <1>1, <2>1 DEF Ahead
<1>5. ASSUME NEW d, In(q, d) PROVE Ahead(r, d, c)
  <2>1. PICK i \in 1..Len(q) : q[i] = d
    BY <1>5 DEF In
  <2>2. i < Len(q) + 1
    BY <1>1
  <2>3. QED
    BY <1>1, <2>1, <2>2 DEF Ahead
<1>6. Distinct(q) /\ ~In(q, c) => Distinct(r)
  BY <1>1 DEF Distinct, In
<1>7. QED
  BY <1>2, <1>3, <1>4, <1>5, <1>6 DEF r

LEMMA LessAhead ==
    ASSUME NEW q \in Seq(Conns), q # <<>>, Distinct(q)
    PROVE  /\ \A d : In(Tail(q), d) <=> In(q, d) /\ d # Head(q)
           /\ \A d, e : Ahead(Tail(q), d, e) => Ahead(q, d, e)
           /\ \A d : In(q, d) /\ d # Head(q) => Ahead(q, Head(q), d)
           /\ Distinct(Tail(q))
<1> DEFINE r == Tail(q)
           h == Head(q)
<1>1. /\ Len(q) \in Nat /\ Len(q) > 0 /\ Len(r) = Len(q) - 1
      /\ h = q[1] /\ 1 \in 1..Len(q)
      /\ \A i \in 1..Len(r) : r[i] = q[i + 1] /\ i + 1 \in 2..Len(q)
      /\ \A i \in 2..Len(q) : q[i] = r[i - 1] /\ i - 1 \in 1..Len(r) /\ i \in 1..Len(q)
      /\ \A i \in 1..Len(q) : i = 1 \/ i \in 2..Len(q)
  BY Less
<1> HIDE DEF r, h
<1>2. ASSUME NEW d, In(r, d) PROVE In(q, d) /\ d # h
  <2>1. PICK i \in 1..Len(r) : r[i] = d
    BY <1>2 DEF In
  <2>2. i + 1 \in 1..Len(q) /\ q[i + 1] = d /\ i + 1 # 1
    BY <1>1, <2>1
  <2>3. QED
    BY <1>1, <2>2 DEF In, Distinct
<1>3. ASSUME NEW d, In(q, d), d # h PROVE In(r, d) /\ Ahead(q, h, d)
  <2>1. PICK i \in 1..Len(q) : q[i] = d
    BY <1>3 DEF In
  <2>2. i \in 2..Len(q) /\ 1 < i
    BY <1>1, <1>3, <2>1
  <2>3. QED
    BY <1>1, <2>1, <2>2 DEF In, Ahead
<1>4. ASSUME NEW d, NEW e, Ahead(r, d, e) PROVE Ahead(q, d, e)
  <2>1. PICK i \in 1..Len(r), j \in 1..Len(r) : i < j /\ r[i] = d /\ r[j] = e
    BY <1>4 DEF Ahead
  <2>2. /\ i + 1 \in 1..Len(q) /\ j + 1 \in 1..Len(q) /\ i + 1 < j + 1
        /\ q[i + 1] = d /\ q[j + 1] = e
    BY <1>1, <2>1
  <2>3. QED
    BY <2>2 DEF Ahead
<1>5. Distinct(r)
  <2>1. SUFFICES ASSUME NEW i \in 1..Len(r), NEW j \in 1..Len(r), r[i] = r[j] PROVE i = j
    BY DEF Distinct
  <2>2. i + 1 \in 1..Len(q) /\ j + 1 \in 1..Len(q) /\ q[i + 1] = q[j + 1]
    BY <1>1, <2>1
  <2>3. i + 1 = j + 1
    BY <2>2 DEF Distinct
  <2>4. QED
    BY <2>3
<1>6. QED
  BY <1>2, <1>3, <1>4, <1>5 DEF r, h

(* In a queue without repetitions one of two is ahead, and not the other.    *)
LEMMA AheadOnce ==
    ASSUME NEW q \in Seq(Conns), Distinct(q), NEW c, NEW d, Ahead(q, c, d)
    PROVE  In(q, c) /\ In(q, d) /\ c # d /\ ~Ahead(q, d, c)
<1>1. PICK i \in 1..Len(q), j \in 1..Len(q) : i < j /\ q[i] = c /\ q[j] = d
  BY DEF Ahead
<1>2. \A k, l \in 1..Len(q) : k < l /\ q[k] = d /\ q[l] = c => FALSE
  BY <1>1 DEF Distinct
<1>3. c # d
  BY <1>1 DEF Distinct
<1>4. QED
  BY <1>1, <1>2, <1>3 DEF In, Ahead

-----------------------------------------------------------------------------
(* The variables stay in their sets.                                         *)
LEMMA NoneYet == <<>> \in Seq(Conns) /\ Len(<<>>) = 0
  OBVIOUS

LEMMA Entered ==
    ASSUME RunnersTypeOK, NEW c \in Conns, NEW s \in Stages, Enter(c, s)
    PROVE  /\ stage' \in [Conns -> Stages]
           /\ stage'[c] = s
           /\ \A d \in Conns : d # c => stage'[d] = stage[d]
  BY DEF RunnersTypeOK, Enter, Stages

LEMMA Answered ==
    ASSUME RunnersTypeOK, NEW c \in Conns, NEW a \in {"none", "rejected", "101"}, Answer(c, a)
    PROVE  /\ answer' \in [Conns -> {"none", "rejected", "101"}]
           /\ answer'[c] = a
           /\ \A d \in Conns : d # c => answer'[d] = answer[d]
  BY DEF RunnersTypeOK, Answer

(* A connection leaves the head of the backlog.                              *)
Leaves(c, s) ==
    /\ stage[c] = "backlog" /\ c = Head(backlog) /\ backlog' = Tail(backlog)
    /\ Enter(c, s)
    /\ UNCHANGED <<acceptor, peer, arrived, fault, answer, handed, alive>>

(* One goes on, and the queues are as they were.                             *)
GoesOn(c, s) ==
    /\ Enter(c, s)
    /\ UNCHANGED <<acceptor, peer, arrived, backlog, handed, alive>>

(* One is handed to the server.                                              *)
HandsOver(c) ==
    /\ Accept(c)
    /\ answer'[c] = "101"
    /\ \A d \in Conns : d # c => answer'[d] = answer[d]
    /\ UNCHANGED <<acceptor, peer, arrived, backlog, fault, alive>>

(* The steps that take a connection on but do not hand it over, with where   *)
(* they take it from and what they say of its request.                       *)
Advance(c) ==
    \/ /\ stage[c] = "tls" /\ GoesOn(c, "websocket") /\ UNCHANGED <<fault, answer>>
    \/ /\ stage[c] \in InHandshake \cup {"open", "requested", "upgrading"}
       /\ GoesOn(c, "closed") /\ UNCHANGED <<fault, answer>>
    \/ /\ stage[c] = "open" /\ GoesOn(c, "requested") /\ UNCHANGED answer
       /\ \E f \in Faults \cup {"none"} : fault' = [fault EXCEPT ![c] = f]
    \/ /\ stage[c] = "requested" /\ GoesOn(c, "open") /\ Answer(c, "rejected")
       /\ UNCHANGED fault
    \/ /\ stage[c] = "requested" /\ fault[c] = "none" /\ GoesOn(c, "upgrading")
       /\ Answer(c, "none") /\ UNCHANGED fault
    \/ /\ stage[c] = "upgrading" /\ GoesOn(c, "open") /\ UNCHANGED <<fault, answer>>

(* The kinds of steps there are.                                             *)
Kinds(c) ==
    \/ Connect(c)
    \/ Leaves(c, "closed")
    \/ acceptor # "Axum" /\ LoopFree /\ Leaves(c, "tls")
    \/ acceptor # "Axum" /\ LoopFree /\ Leaves(c, "websocket")
    \/ acceptor = "Axum" /\ Leaves(c, "open")
    \/ Advance(c)
    \/ stage[c] \in {"websocket", "upgrading"} /\ HandsOver(c)
    \/ \E a \in {"101", "rejected"} : Respond(c, a)
    \/ TakeConnection(c)

LEMMA StepKinds ==
    ASSUME RunnersTypeOK, NEW c \in Conns,
           \/ Connect(c) \/ Reset(c) \/ SendRequest(c)
           \/ Runner(c) \/ Handler(c) \/ Hyper(c) \/ Task(c) \/ TakeConnection(c)
    PROVE  Kinds(c)
<1>1. CASE Connect(c)
  BY <1>1 DEF Kinds
<1>2. CASE Reset(c)
  <2>1. CASE stage[c] = "backlog" /\ c = Head(backlog) /\ backlog' = Tail(backlog)
    BY <1>2, <2>1 DEF Kinds, Reset, Leaves
  <2>2. CASE stage[c] \in {"open", "requested"} /\ UNCHANGED backlog
    <3>1. Advance(c)
      BY <1>2, <2>2 DEF Reset, Advance, GoesOn
    <3>2. QED
      BY <3>1 DEF Kinds
  <2>3. QED
    BY <1>2, <2>1, <2>2 DEF Reset
<1>3. CASE SendRequest(c)
  <2>1. PICK f \in Faults \cup {"none"} : fault' = [fault EXCEPT ![c] = f]
    BY <1>3 DEF SendRequest
  <2>2. stage[c] = "open" /\ GoesOn(c, "requested") /\ UNCHANGED answer
    BY <1>3 DEF SendRequest, GoesOn
  <2>3. Advance(c)
    BY <2>1, <2>2 DEF Advance
  <2>4. QED
    BY <2>3 DEF Kinds
<1>4. CASE AcceptStream(c)
  <2>1. acceptor # "Axum" /\ LoopFree /\ (Leaves(c, "tls") \/ Leaves(c, "websocket"))
    BY <1>4 DEF AcceptStream, Leaves
  <2>2. QED
    BY <2>1 DEF Kinds
<1>5. CASE TlsAccepted(c)
  <2>1. Advance(c)
    BY <1>5 DEF TlsAccepted, Advance, GoesOn
  <2>2. QED
    BY <2>1 DEF Kinds
<1>6. CASE HandshakeFails(c)
  <2>1. Advance(c)
    BY <1>6 DEF HandshakeFails, Advance, GoesOn
  <2>2. QED
    BY <2>1 DEF Kinds
<1>7. CASE HandshakeDone(c)
  <2>1. Answer(c, "101")
    BY <1>7 DEF HandshakeDone
  <2>2. stage[c] = "websocket" /\ HandsOver(c)
    BY <1>7, <2>1, Answered DEF HandshakeDone, HandsOver
  <2>3. QED
    BY <2>2 DEF Kinds
<1>8. CASE Serve(c)
  <2>1. acceptor = "Axum" /\ Leaves(c, "open")
    BY <1>8 DEF Serve, Leaves
  <2>2. QED
    BY <2>1 DEF Kinds
<1>9. CASE Reject(c)
  <2>1. Advance(c)
    BY <1>9 DEF Reject, Advance, GoesOn
  <2>2. QED
    BY <2>1 DEF Kinds
<1>10. CASE OnUpgrade(c)
  <2>1. Advance(c)
    BY <1>10 DEF OnUpgrade, Extracted, Advance, GoesOn, Answer
  <2>2. QED
    BY <2>1 DEF Kinds
<1>11. CASE Hyper(c)
  BY <1>11 DEF Hyper, Kinds
<1>12. CASE UpgradeDone(c)
  <2>1. stage[c] = "upgrading" /\ HandsOver(c)
    BY <1>12 DEF UpgradeDone, Upgraded, HandsOver
  <2>2. QED
    BY <2>1 DEF Kinds
<1>13. CASE UpgradeFails(c)
  <2>1. Advance(c)
    BY <1>13 DEF UpgradeFails, Advance, GoesOn
  <2>2. QED
    BY <2>1 DEF Kinds
<1>14. CASE TakeConnection(c)
  BY <1>14 DEF Kinds
<1>15. QED
  BY <1>1, <1>2, <1>3, <1>4, <1>5, <1>6, <1>7, <1>8, <1>9, <1>10, <1>11, <1>12, <1>13, <1>14
  DEF Runner, Handshake, Handler, Task

LEMMA LeavesType ==
    ASSUME RunnersTypeOK, NEW c \in Conns, NEW s \in Stages, Leaves(c, s), backlog # <<>>
    PROVE  RunnersTypeOK'
<1>1. backlog' \in Seq(Conns)
  BY Less DEF RunnersTypeOK, Leaves
<1>2. stage' \in [Conns -> Stages]
  BY Entered DEF Leaves
<1>3. QED
  BY <1>1, <1>2 DEF RunnersTypeOK, Leaves, Stages

LEMMA AdvanceType ==
    ASSUME RunnersTypeOK, NEW c \in Conns, Advance(c)
    PROVE  RunnersTypeOK'
<1>1. PICK s \in Stages : GoesOn(c, s)
  BY DEF Advance, Stages, InHandshake, InHttp
<1>2. stage' \in [Conns -> Stages]
  BY <1>1, Entered DEF GoesOn
<1>3. fault' \in [Conns -> Faults \cup {"none"}]
  BY DEF Advance, RunnersTypeOK
<1>4. answer' \in [Conns -> {"none", "rejected", "101"}]
  BY DEF Advance, RunnersTypeOK, Answer
<1>5. QED
  BY <1>1, <1>2, <1>3, <1>4 DEF GoesOn, RunnersTypeOK, Stages

(* The queues hold who is at their stages, and the backlog is a suffix of    *)
(* the arrivals.                                                             *)
QueuesInv ==
    /\ Distinct(arrived) /\ Distinct(backlog)
    /\ \A c \in Conns : In(arrived, c) <=> stage[c] # "new"
    /\ \A c \in Conns : In(backlog, c) <=> stage[c] = "backlog"
    /\ \A c, d \in Conns : Ahead(backlog, c, d) => Ahead(arrived, c, d)
    /\ \A c, d \in Conns :
         Ahead(arrived, d, c) /\ stage[c] # "backlog" => stage[d] # "backlog"

(* Only who has sent a request can have sent a wrong one, and the server's   *)
(* are those that were handed to it.                                         *)
AnswerInv ==
    /\ \A c \in Conns :
         stage[c] \notin {"open", "requested", "closed"} => fault[c] = "none"
    /\ \A c \in Conns : stage[c] \in Handed => answer[c] = "101"
    /\ Distinct(handed)
    /\ \A c \in Conns : In(handed, c) <=> stage[c] \in Handed
    /\ ~alive => \A c \in Conns : stage[c] # "queued"

(* The tungstenite runner has one connection in its hands, and is done with  *)
(* all that came before it.                                                  *)
OrderInv ==
    acceptor # "Axum" =>
        /\ \A c \in Conns : stage[c] \notin InHttp
        /\ \A c, d \in Conns : stage[c] \in InHandshake /\ stage[d] \in InHandshake => c = d
        /\ \A c, d \in Conns :
             Ahead(arrived, d, c) /\ stage[c] \in InHandshake \cup Handed =>
                 stage[d] \in Handed \cup {"closed"}
        /\ \A c, d \in Conns :
             Ahead(arrived, d, c) /\ stage[c] \in Handed =>
                 stage[d] = "closed" \/ Ahead(handed, d, c)

RunnersInv == RunnersTypeOK /\ QueuesInv /\ AnswerInv /\ OrderInv

-----------------------------------------------------------------------------
LEMMA InitInv ==
    ASSUME Init
    PROVE  RunnersInv
<1>1. RunnersTypeOK
  BY NoneYet DEF Init, RunnersTypeOK
<1>2. QueuesInv
  BY NoneYet DEF Init, QueuesInv, Distinct, In, Ahead
<1>3. AnswerInv
  BY NoneYet DEF Init, AnswerInv, Distinct, In, Handed
<1>4. OrderInv
  BY NoneYet DEF Init, OrderInv, InHttp, InHandshake, Handed, Ahead
<1>5. QED
  BY <1>1, <1>2, <1>3, <1>4 DEF RunnersInv

(* A connection in the backlog is in the queue of that name.                 *)
LEMMA Behind ==
    ASSUME RunnersInv, NEW c \in Conns, stage[c] = "backlog"
    PROVE  backlog # <<>>
  BY NoneYet DEF RunnersInv, QueuesInv, In

-----------------------------------------------------------------------------
LEMMA ConnectStep ==
    ASSUME RunnersInv, NEW c \in Conns, Connect(c)
    PROVE  RunnersInv'
<1>1. /\ stage[c] = "new"
      /\ stage' \in [Conns -> Stages] /\ stage'[c] = "backlog"
      /\ \A d \in Conns : d # c => stage'[d] = stage[d]
  BY Entered DEF Connect, RunnersInv, Stages
<1>2. arrived \in Seq(Conns) /\ backlog \in Seq(Conns)
  BY DEF RunnersInv, RunnersTypeOK
<1>3. arrived' = Append(arrived, c) /\ backlog' = Append(backlog, c)
  BY DEF Connect
<1>4. ~In(arrived, c) /\ ~In(backlog, c)
  BY <1>1 DEF RunnersInv, QueuesInv
<1>5. Distinct(arrived) /\ Distinct(backlog)
  BY DEF RunnersInv, QueuesInv
<1>6. /\ arrived' \in Seq(Conns) /\ Distinct(arrived')
      /\ \A d : In(arrived', d) <=> In(arrived, d) \/ d = c
      /\ \A d, e : Ahead(arrived', d, e) <=> Ahead(arrived, d, e) \/ (In(arrived, d) /\ e = c)
  BY <1>2, <1>3, <1>4, <1>5, More, MoreAhead
<1>7. /\ backlog' \in Seq(Conns) /\ Distinct(backlog')
      /\ \A d : In(backlog', d) <=> In(backlog, d) \/ d = c
      /\ \A d, e : Ahead(backlog', d, e) <=> Ahead(backlog, d, e) \/ (In(backlog, d) /\ e = c)
  BY <1>2, <1>3, <1>4, <1>5, More, MoreAhead
<1>8. \A d, e : Ahead(arrived, d, e) => d # c
  BY <1>2, <1>4, <1>5, AheadOnce
<1>9. RunnersTypeOK'
  BY <1>1, <1>6, <1>7 DEF Connect, RunnersInv, RunnersTypeOK, Stages
<1>10. QueuesInv'
  <2>1. \A d \in Conns : In(arrived', d) <=> stage'[d] # "new"
    BY <1>1, <1>6 DEF RunnersInv, QueuesInv
  <2>2. \A d \in Conns : In(backlog', d) <=> stage'[d] = "backlog"
    BY <1>1, <1>7 DEF RunnersInv, QueuesInv
  <2>3. \A d \in Conns : In(backlog, d) => In(arrived, d)
    BY DEF RunnersInv, QueuesInv
  <2>4. \A d, e \in Conns : Ahead(backlog', d, e) => Ahead(arrived', d, e)
    BY <1>6, <1>7, <2>3 DEF RunnersInv, QueuesInv
  <2>5. ASSUME NEW d \in Conns, NEW e \in Conns, Ahead(arrived', e, d), stage'[d] # "backlog"
        PROVE  stage'[e] # "backlog"
    BY <1>1, <1>6, <1>8, <2>5 DEF RunnersInv, QueuesInv
  <2>6. QED
    BY <1>6, <1>7, <2>1, <2>2, <2>4, <2>5 DEF QueuesInv
<1>11. AnswerInv'
  BY <1>1 DEF Connect, RunnersInv, AnswerInv, Handed
<1>12. OrderInv'
  <2>1. SUFFICES ASSUME acceptor # "Axum" PROVE OrderInv'
    BY DEF Connect, OrderInv
  <2>2. \A d \in Conns : stage'[d] \in InHandshake \cup Handed \cup InHttp => d # c
    BY <1>1 DEF InHandshake, Handed, InHttp
  <2>3. \A d, e \in Conns : Ahead(arrived', d, e) /\ e # c => Ahead(arrived, d, e) /\ d # c
    BY <1>6, <1>8
  <2>4. UNCHANGED <<acceptor, handed>>
    BY DEF Connect
  <2>5. QED
    BY <1>1, <2>1, <2>2, <2>3, <2>4 DEF RunnersInv, OrderInv
<1>13. QED
  BY <1>9, <1>10, <1>11, <1>12 DEF RunnersInv

(* The head leaves the backlog: nobody ahead of it is still there.           *)
LEMMA LeavesQueues ==
    ASSUME RunnersInv, NEW c \in Conns, NEW s \in Stages \ {"new", "backlog"}, Leaves(c, s)
    PROVE  /\ RunnersTypeOK' /\ QueuesInv'
           /\ stage[c] = "backlog" /\ stage'[c] = s
           /\ \A d \in Conns : d # c => stage'[d] = stage[d]
           /\ \A d \in Conns : Ahead(arrived, d, c) => stage[d] \notin {"new", "backlog"}
<1>1. /\ stage[c] = "backlog" /\ stage'[c] = s
      /\ \A d \in Conns : d # c => stage'[d] = stage[d]
  BY Entered DEF Leaves, RunnersInv
<1>2. backlog # <<>>
  BY <1>1, Behind
<1>3. arrived \in Seq(Conns) /\ backlog \in Seq(Conns) /\ Distinct(arrived) /\ Distinct(backlog)
  BY DEF RunnersInv, RunnersTypeOK, QueuesInv
<1>4. /\ backlog' = Tail(backlog) /\ c = Head(backlog) /\ arrived' = arrived
  BY DEF Leaves
<1>5. /\ \A d : In(backlog', d) <=> In(backlog, d) /\ d # c
      /\ \A d, e : Ahead(backlog', d, e) => Ahead(backlog, d, e)
      /\ \A d : In(backlog, d) /\ d # c => Ahead(backlog, c, d)
      /\ Distinct(backlog')
  BY <1>2, <1>3, <1>4, LessAhead
<1>6. ASSUME NEW d \in Conns, Ahead(arrived, d, c) PROVE stage[d] \notin {"new", "backlog"}
  <2>1. In(arrived, d) /\ d # c /\ ~Ahead(arrived, c, d)
    BY <1>3, <1>6, AheadOnce
  <2>2. ~Ahead(backlog, c, d)
    BY <2>1 DEF RunnersInv, QueuesInv
  <2>3. ~In(backlog, d)
    BY <1>5, <2>1, <2>2
  <2>4. QED
    BY <2>1, <2>3 DEF RunnersInv, QueuesInv
<1>7. RunnersTypeOK'
  BY <1>2, LeavesType DEF RunnersInv
<1>8. QueuesInv'
  <2>1. \A d \in Conns : In(arrived', d) <=> stage'[d] # "new"
    BY <1>1, <1>4 DEF RunnersInv, QueuesInv
  <2>2. \A d \in Conns : In(backlog', d) <=> stage'[d] = "backlog"
    BY <1>1, <1>5 DEF RunnersInv, QueuesInv
  <2>3. \A d, e \in Conns : Ahead(backlog', d, e) => Ahead(arrived', d, e)
    BY <1>4, <1>5 DEF RunnersInv, QueuesInv
  <2>4. ASSUME NEW d \in Conns, NEW e \in Conns, Ahead(arrived', e, d), stage'[d] # "backlog"
        PROVE  stage'[e] # "backlog"
    <3>1. CASE d = c
      BY <1>1, <1>4, <1>6, <2>4, <3>1
    <3>2. CASE d # c
      BY <1>1, <1>4, <2>4, <3>2 DEF RunnersInv, QueuesInv
    <3>3. QED
      BY <3>1, <3>2
  <2>5. QED
    BY <1>3, <1>4, <1>5, <2>1, <2>2, <2>3, <2>4 DEF QueuesInv
<1>9. QED
  BY <1>1, <1>6, <1>7, <1>8

LEMMA LeavesStep ==
    ASSUME RunnersInv, NEW c \in Conns,
           \/ Leaves(c, "closed")
           \/ acceptor # "Axum" /\ LoopFree /\ Leaves(c, "tls")
           \/ acceptor # "Axum" /\ LoopFree /\ Leaves(c, "websocket")
           \/ acceptor = "Axum" /\ Leaves(c, "open")
    PROVE  RunnersInv'
<1>1. PICK s \in {"closed", "tls", "websocket", "open"} :
        /\ Leaves(c, s)
        /\ s \in {"tls", "websocket"} => acceptor # "Axum" /\ LoopFree
        /\ s = "open" => acceptor = "Axum"
  OBVIOUS
<1>2. /\ RunnersTypeOK' /\ QueuesInv'
      /\ stage[c] = "backlog" /\ stage'[c] = s
      /\ \A d \in Conns : d # c => stage'[d] = stage[d]
      /\ \A d \in Conns : Ahead(arrived, d, c) => stage[d] \notin {"new", "backlog"}
  <2>1. s \in Stages \ {"new", "backlog"}
    BY DEF Stages, InHandshake, InHttp
  <2>2. QED
    BY <1>1, <2>1, LeavesQueues
<1>3. UNCHANGED <<acceptor, arrived, fault, answer, handed, alive>>
  BY <1>1 DEF Leaves
<1>4. AnswerInv'
  BY <1>2, <1>3 DEF RunnersInv, AnswerInv, Handed
<1>5. OrderInv'
  <2>1. SUFFICES ASSUME acceptor # "Axum" PROVE OrderInv'
    BY <1>3 DEF OrderInv
  <2>2. s \in {"closed", "tls", "websocket"}
    BY <1>1, <2>1
  <2>3. \A d \in Conns : stage'[d] \notin InHttp
    BY <1>2, <2>1, <2>2 DEF RunnersInv, OrderInv, InHttp
  <2>4. ASSUME NEW d \in Conns, NEW e \in Conns, stage'[d] \in InHandshake, stage'[e] \in InHandshake
        PROVE  d = e
    BY <1>1, <1>2, <2>1, <2>4 DEF RunnersInv, OrderInv, LoopFree, InHandshake
  <2>5. ASSUME NEW d \in Conns, NEW e \in Conns,
               Ahead(arrived, e, d), stage'[d] \in InHandshake \cup Handed
        PROVE  stage'[e] \in Handed \cup {"closed"}
    <3>1. CASE d = c
      <4>1. LoopFree /\ e # c
        BY <1>1, <1>2, <2>5, <3>1 DEF InHandshake, Handed
      <4>2. stage[e] \in Stages /\ stage[e] \notin {"new", "backlog"} \cup InHandshake \cup InHttp
        BY <1>2, <2>1, <2>5, <3>1, <4>1 DEF RunnersInv, RunnersTypeOK, OrderInv, LoopFree, Stages
      <4>3. QED
        BY <1>2, <4>1, <4>2 DEF Stages
    <3>2. CASE d # c
      BY <1>2, <2>1, <2>5, <3>2 DEF RunnersInv, OrderInv, InHandshake, Handed
    <3>3. QED
      BY <3>1, <3>2
  <2>6. ASSUME NEW d \in Conns, NEW e \in Conns, Ahead(arrived, e, d), stage'[d] \in Handed
        PROVE  stage'[e] = "closed" \/ Ahead(handed, e, d)
    <3>1. d # c
      BY <1>2, <2>2, <2>6 DEF Handed
    <3>2. stage[e] = "closed" \/ Ahead(handed, e, d)
      BY <1>2, <2>1, <2>6, <3>1 DEF RunnersInv, OrderInv
    <3>3. QED
      BY <1>2, <3>2
  <2>7. QED
    BY <1>3, <2>3, <2>4, <2>5, <2>6 DEF OrderInv
<1>6. QED
  BY <1>2, <1>4, <1>5 DEF RunnersInv

-----------------------------------------------------------------------------
(* A connection goes on from one stage to another, both past the backlog.    *)
LEMMA PastBacklog ==
    ASSUME RunnersInv, NEW c \in Conns, stage[c] \notin {"new", "backlog"},
           stage'[c] \notin {"new", "backlog"},
           \A d \in Conns : d # c => stage'[d] = stage[d],
           UNCHANGED <<arrived, backlog>>
    PROVE  QueuesInv'
<1>1. \A d \in Conns : (stage'[d] = "new" <=> stage[d] = "new")
                       /\ (stage'[d] = "backlog" <=> stage[d] = "backlog")
  OBVIOUS
<1>2. QED
  BY <1>1 DEF RunnersInv, QueuesInv

LEMMA AdvanceStep ==
    ASSUME RunnersInv, NEW c \in Conns, Advance(c)
    PROVE  RunnersInv'
<1>1. RunnersTypeOK'
  BY AdvanceType DEF RunnersInv
<1>2. PICK s \in {"websocket", "closed", "requested", "open", "upgrading"} :
        /\ GoesOn(c, s)
        /\ stage[c] \in InHandshake \cup InHttp
        /\ s \in {"websocket", "closed"} \/ stage[c] \in InHttp
        /\ s = "websocket" => stage[c] = "tls"
  BY DEF Advance, InHandshake, InHttp
<1>3. /\ stage'[c] = s
      /\ \A d \in Conns : d # c => stage'[d] = stage[d]
      /\ stage[c] \notin {"new", "backlog", "closed"} \cup Handed
      /\ stage'[c] \notin {"new", "backlog"} \cup Handed
  <2>1. s \in Stages
    BY DEF Stages, InHandshake, InHttp
  <2>2. QED
    BY <1>2, <2>1, Entered DEF GoesOn, RunnersInv, InHandshake, InHttp, Handed
<1>4. UNCHANGED <<acceptor, arrived, backlog, handed, alive>>
  BY <1>2 DEF GoesOn
<1>5. QueuesInv'
  BY <1>3, <1>4, PastBacklog
<1>6. AnswerInv'
  <2>1. \A d \in Conns : d # c => fault'[d] = fault[d] /\ answer'[d] = answer[d]
    BY DEF Advance, Answer, RunnersInv, RunnersTypeOK
  <2>2. stage'[c] \notin {"open", "requested", "closed"} => fault'[c] = "none"
    <3>1. CASE stage[c] = "tls" /\ UNCHANGED fault
      BY <3>1 DEF RunnersInv, AnswerInv
    <3>2. CASE stage'[c] = "upgrading" /\ fault[c] = "none" /\ UNCHANGED fault
      BY <3>2
    <3>3. CASE stage'[c] \in {"open", "requested", "closed"}
      BY <3>3
    <3>4. QED
      <4>1. RunnersTypeOK
        BY DEF RunnersInv
      <4>2. \A t \in Stages : GoesOn(c, t) => stage'[c] = t
        BY <4>1, Entered DEF GoesOn
      <4>3. {"websocket", "closed", "requested", "open", "upgrading"} \subseteq Stages
        BY DEF Stages, InHandshake, InHttp
      <4>4. QED
        BY <3>1, <3>2, <3>3, <4>2, <4>3 DEF Advance
  <2>3. \A d \in Conns : stage'[d] \in Handed <=> stage[d] \in Handed
    BY <1>3
  <2>4. \A d \in Conns : stage'[d] = "queued" => stage[d] = "queued"
    BY <1>3 DEF Handed
  <2>5. \A d \in Conns : stage'[d] \notin {"open", "requested", "closed"} => fault'[d] = "none"
    BY <1>3, <2>1, <2>2 DEF RunnersInv, AnswerInv
  <2>6. \A d \in Conns : stage'[d] \in Handed => answer'[d] = "101"
    BY <1>3, <2>1, <2>3 DEF RunnersInv, AnswerInv
  <2>7. QED
    BY <1>4, <2>3, <2>4, <2>5, <2>6 DEF RunnersInv, AnswerInv
<1>7. OrderInv'
  <2>1. SUFFICES ASSUME acceptor # "Axum" PROVE OrderInv'
    BY <1>4 DEF OrderInv
  <2>2. stage[c] \in InHandshake /\ s \in {"websocket", "closed"}
    BY <1>2, <2>1 DEF RunnersInv, OrderInv
  <2>3. \A d \in Conns : stage'[d] \in InHandshake => stage[d] \in InHandshake
    BY <1>3, <2>2
  <2>4. \A d \in Conns : stage'[d] \in Handed <=> stage[d] \in Handed
    BY <1>3
  <2>5. \A d \in Conns : stage[d] = "closed" => stage'[d] = "closed"
    BY <1>3
  <2>6. \A d \in Conns : stage'[d] \in InHttp => stage[d] \in InHttp
    BY <1>3, <2>2 DEF InHttp
  <2>7. QED
    BY <1>4, <2>1, <2>3, <2>4, <2>5, <2>6 DEF RunnersInv, OrderInv
<1>8. QED
  BY <1>1, <1>5, <1>6, <1>7 DEF RunnersInv

LEMMA HandsOverStep ==
    ASSUME RunnersInv, NEW c \in Conns, stage[c] \in {"websocket", "upgrading"}, HandsOver(c),
           answer' \in [Conns -> {"none", "rejected", "101"}]
    PROVE  RunnersInv'
<1>1. PICK s \in {"queued", "dropped"} : Enter(c, s) /\ (~alive => s = "dropped")
  BY DEF HandsOver, Accept
<1>2. /\ stage' \in [Conns -> Stages]
      /\ stage'[c] = s /\ stage'[c] \in Handed
      /\ \A d \in Conns : d # c => stage'[d] = stage[d]
  <2>1. s \in Stages
    BY DEF Stages, Handed
  <2>2. QED
    BY <1>1, <2>1, Entered DEF RunnersInv, Handed
<1>3. /\ UNCHANGED <<acceptor, peer, arrived, backlog, fault, alive>>
      /\ handed' = Append(handed, c)
      /\ answer'[c] = "101" /\ \A d \in Conns : d # c => answer'[d] = answer[d]
  BY DEF HandsOver, Accept
<1>4. stage[c] \notin Handed /\ stage[c] \notin {"new", "backlog", "open", "requested", "closed"}
  BY DEF Handed
<1>5. handed \in Seq(Conns) /\ Distinct(handed) /\ ~In(handed, c)
  BY <1>4 DEF RunnersInv, RunnersTypeOK, AnswerInv
<1>6. /\ handed' \in Seq(Conns) /\ Distinct(handed')
      /\ \A d : In(handed', d) <=> In(handed, d) \/ d = c
      /\ \A d, e : Ahead(handed', d, e) <=> Ahead(handed, d, e) \/ (In(handed, d) /\ e = c)
  BY <1>3, <1>5, More, MoreAhead
<1>7. RunnersTypeOK'
  BY <1>2, <1>3, <1>6 DEF RunnersInv, RunnersTypeOK, Stages
<1>8. QueuesInv'
  <2>1. stage'[c] \notin {"new", "backlog"}
    BY <1>2 DEF Handed
  <2>2. QED
    BY <1>2, <1>3, <1>4, <2>1, PastBacklog
<1>9. AnswerInv'
  <2>1. \A d \in Conns : In(handed', d) <=> stage'[d] \in Handed
    BY <1>2, <1>6 DEF RunnersInv, AnswerInv
  <2>2. \A d \in Conns : stage'[d] \in Handed => answer'[d] = "101"
    BY <1>2, <1>3 DEF RunnersInv, AnswerInv
  <2>3. \A d \in Conns : stage'[d] \notin {"open", "requested", "closed"} => fault'[d] = "none"
    BY <1>2, <1>3, <1>4 DEF RunnersInv, AnswerInv
  <2>4. ~alive' => \A d \in Conns : stage'[d] # "queued"
    BY <1>1, <1>2, <1>3 DEF RunnersInv, AnswerInv
  <2>5. QED
    BY <1>6, <2>1, <2>2, <2>3, <2>4 DEF AnswerInv
<1>10. OrderInv'
  <2>1. SUFFICES ASSUME acceptor # "Axum" PROVE OrderInv'
    BY <1>3 DEF OrderInv
  <2>2. stage[c] \in InHandshake
    BY <2>1 DEF RunnersInv, OrderInv, InHandshake, InHttp
  <2>3. stage'[c] \notin InHandshake \cup InHttp \cup {"closed"}
    BY <1>2 DEF InHandshake, InHttp, Handed
  <2>4. ASSUME NEW d \in Conns, NEW e \in Conns,
               Ahead(arrived, e, d), stage'[d] \in InHandshake \cup Handed
        PROVE  stage'[e] \in Handed \cup {"closed"}
    <3>1. stage[d] \in InHandshake \cup Handed
      BY <1>2, <2>2, <2>4
    <3>2. stage[e] \in Handed \cup {"closed"}
      BY <2>1, <2>4, <3>1 DEF RunnersInv, OrderInv
    <3>3. QED
      BY <1>2, <3>2
  <2>5. ASSUME NEW d \in Conns, NEW e \in Conns, Ahead(arrived, e, d), stage'[d] \in Handed
        PROVE  stage'[e] = "closed" \/ Ahead(handed', e, d)
    <3>1. stage[d] \in InHandshake \cup Handed
      BY <1>2, <2>2, <2>5
    <3>2. stage[e] \in Handed \cup {"closed"}
      BY <2>1, <2>5, <3>1 DEF RunnersInv, OrderInv
    <3>3. e # c
      BY <1>4, <3>2
    <3>4. CASE d = c
      BY <1>2, <1>6, <3>2, <3>3, <3>4 DEF RunnersInv, AnswerInv
    <3>5. CASE d # c
      BY <1>2, <1>6, <2>1, <2>5, <3>3, <3>5 DEF RunnersInv, OrderInv
    <3>6. QED
      BY <3>4, <3>5
  <2>6. \A d \in Conns : stage'[d] \notin InHttp
    BY <1>2, <2>1, <2>3 DEF RunnersInv, OrderInv
  <2>7. \A d, e \in Conns : stage'[d] \in InHandshake /\ stage'[e] \in InHandshake => d = e
    BY <1>2, <2>1, <2>3 DEF RunnersInv, OrderInv
  <2>8. QED
    BY <1>3, <2>4, <2>5, <2>6, <2>7 DEF OrderInv
<1>11. QED
  BY <1>7, <1>8, <1>9, <1>10 DEF RunnersInv

LEMMA RespondStep ==
    ASSUME RunnersInv, NEW c \in Conns, NEW a \in {"101", "rejected"}, Respond(c, a)
    PROVE  RunnersInv'
<1>1. /\ answer' \in [Conns -> {"none", "rejected", "101"}]
      /\ \A d \in Conns : d # c => answer'[d] = answer[d]
  BY Answered DEF Respond, RunnersInv
<1>2. UNCHANGED <<acceptor, peer, arrived, backlog, stage, fault, handed, alive>>
  BY DEF Respond
<1>3. stage[c] \notin Handed
  BY DEF Respond, Handed
<1>4. RunnersTypeOK'
  BY <1>1, <1>2 DEF RunnersInv, RunnersTypeOK
<1>5. QueuesInv'
  BY <1>2 DEF RunnersInv, QueuesInv
<1>6. AnswerInv'
  BY <1>1, <1>2, <1>3 DEF RunnersInv, AnswerInv
<1>7. OrderInv'
  BY <1>2 DEF RunnersInv, OrderInv
<1>8. QED
  BY <1>4, <1>5, <1>6, <1>7 DEF RunnersInv

(* The server's own steps: what it was handed stays handed.                  *)
LEMMA ServerStep ==
    ASSUME RunnersInv, stage' \in [Conns -> Stages], alive' \in BOOLEAN,
           \A c \in Conns : stage'[c] = stage[c] \/ (stage[c] \in Handed /\ stage'[c] \in Handed),
           ~alive' => \A c \in Conns : stage'[c] # "queued",
           UNCHANGED <<acceptor, peer, arrived, backlog, fault, answer, handed>>
    PROVE  RunnersInv'
<1>1. \A c \in Conns : \A t \in Stages \ Handed : stage'[c] = t <=> stage[c] = t
  OBVIOUS
<1>2. \A c \in Conns : stage'[c] \in Handed <=> stage[c] \in Handed
  OBVIOUS
<1>3. /\ {"new", "backlog", "closed", "open", "requested"} \subseteq Stages \ Handed
      /\ InHandshake \subseteq Stages \ Handed /\ InHttp \subseteq Stages \ Handed
  BY DEF Stages, Handed, InHandshake, InHttp
<1>4. RunnersTypeOK'
  BY DEF RunnersInv, RunnersTypeOK, Stages
<1>5. QueuesInv'
  <2>1. \A c \in Conns : /\ stage'[c] = "new" <=> stage[c] = "new"
                         /\ stage'[c] = "backlog" <=> stage[c] = "backlog"
    BY <1>1, <1>3
  <2>2. QED
    BY <2>1 DEF RunnersInv, QueuesInv
<1>6. AnswerInv'
  <2>1. \A c \in Conns : stage'[c] \in {"open", "requested", "closed"}
                         <=> stage[c] \in {"open", "requested", "closed"}
    BY <1>1, <1>3
  <2>2. QED
    BY <1>2, <2>1 DEF RunnersInv, AnswerInv
<1>7. OrderInv'
  <2>1. \A c \in Conns : /\ stage'[c] \in InHttp <=> stage[c] \in InHttp
                         /\ stage'[c] \in InHandshake <=> stage[c] \in InHandshake
                         /\ stage'[c] = "closed" <=> stage[c] = "closed"
    BY <1>1, <1>3
  <2>2. QED
    BY <1>2, <2>1 DEF RunnersInv, OrderInv
<1>8. QED
  BY <1>4, <1>5, <1>6, <1>7 DEF RunnersInv

LEMMA TakeStep ==
    ASSUME RunnersInv, NEW c \in Conns, TakeConnection(c)
    PROVE  RunnersInv'
<1>1. stage[c] = "queued" /\ Enter(c, "taken")
  BY DEF TakeConnection
<1>2. /\ stage' \in [Conns -> Stages] /\ stage'[c] = "taken"
      /\ \A d \in Conns : d # c => stage'[d] = stage[d]
  <2>1. "taken" \in Stages
    BY DEF Stages, Handed
  <2>2. QED
    BY <1>1, <2>1, Entered DEF RunnersInv
<1>3. UNCHANGED <<acceptor, peer, arrived, backlog, fault, answer, handed, alive>>
  BY DEF TakeConnection
<1>4. \A d \in Conns : stage'[d] = stage[d] \/ (stage[d] \in Handed /\ stage'[d] \in Handed)
  BY <1>1, <1>2 DEF Handed
<1>5. alive' \in BOOLEAN /\ (~alive' => \A d \in Conns : stage'[d] # "queued")
  BY <1>2, <1>3 DEF RunnersInv, RunnersTypeOK, AnswerInv
<1>6. QED
  BY <1>2, <1>3, <1>4, <1>5, ServerStep

LEMMA ExitStep ==
    ASSUME RunnersInv, ServerExits
    PROVE  RunnersInv'
<1>1. stage' = [c \in Conns |-> IF stage[c] = "queued" THEN "dropped" ELSE stage[c]]
  BY DEF ServerExits
<1>2. stage' \in [Conns -> Stages]
  BY <1>1 DEF RunnersInv, RunnersTypeOK, Stages, Handed
<1>3. \A c \in Conns : stage'[c] = stage[c] \/ (stage[c] \in Handed /\ stage'[c] \in Handed)
  BY <1>1 DEF Handed
<1>4. \A c \in Conns : stage'[c] # "queued"
  BY <1>1
<1>5. QED
  BY <1>2, <1>3, <1>4, ServerStep DEF ServerExits

-----------------------------------------------------------------------------
LEMMA NextInv ==
    ASSUME RunnersInv, [Next]_vars
    PROVE  RunnersInv'
<1>1. ASSUME NEW c \in Conns, Kinds(c),
             answer' \in [Conns -> {"none", "rejected", "101"}]
      PROVE  RunnersInv'
  <2>1. CASE Connect(c)
    BY <2>1, ConnectStep
  <2>2. CASE \/ Leaves(c, "closed")
             \/ acceptor # "Axum" /\ LoopFree /\ Leaves(c, "tls")
             \/ acceptor # "Axum" /\ LoopFree /\ Leaves(c, "websocket")
             \/ acceptor = "Axum" /\ Leaves(c, "open")
    BY <2>2, LeavesStep
  <2>3. CASE Advance(c)
    BY <2>3, AdvanceStep
  <2>4. CASE stage[c] \in {"websocket", "upgrading"} /\ HandsOver(c)
    BY <1>1, <2>4, HandsOverStep
  <2>5. CASE \E a \in {"101", "rejected"} : Respond(c, a)
    BY <2>5, RespondStep
  <2>6. CASE TakeConnection(c)
    BY <2>6, TakeStep
  <2>7. QED
    BY <1>1, <2>1, <2>2, <2>3, <2>4, <2>5, <2>6 DEF Kinds
<1>2. ASSUME NEW c \in Conns,
             \/ Connect(c) \/ Reset(c) \/ SendRequest(c)
             \/ Runner(c) \/ Handler(c) \/ Hyper(c) \/ Task(c) \/ TakeConnection(c)
      PROVE  RunnersInv'
  <2>1. RunnersTypeOK
    BY DEF RunnersInv
  <2>2. answer' \in [Conns -> {"none", "rejected", "101"}]
    <3>1. UNCHANGED answer \/ \E a \in {"none", "rejected", "101"} : Answer(c, a)
      BY <1>2 DEF Connect, Reset, SendRequest, Runner, AcceptStream, Handshake, TlsAccepted,
                  HandshakeFails, HandshakeDone, Serve, Handler, Reject, OnUpgrade, Hyper,
                  Respond, Task, UpgradeDone, UpgradeFails, TakeConnection, Answer
    <3>2. QED
      BY <2>1, <3>1, Answered DEF RunnersTypeOK
  <2>3. Kinds(c)
    BY <1>2, <2>1, StepKinds
  <2>4. QED
    BY <1>1, <2>2, <2>3
<1>3. CASE UNCHANGED vars
  BY <1>3 DEF vars, RunnersInv, RunnersTypeOK, QueuesInv, AnswerInv, OrderInv
<1>4. QED
  BY <1>2, <1>3, ExitStep DEF Next

(* The runners, whichever they are, keep every connection at one stage, and  *)
(* the backlog, the order of arrival and what the server holds agree on it.  *)
THEOREM RunnersInvariant == Spec => []RunnersInv
<1>1. Init => RunnersInv
  BY InitInv
<1>2. RunnersInv /\ [Next]_vars => RunnersInv'
  BY NextInv
<1>3. QED
  BY <1>1, <1>2, PTL DEF Spec

(* The variables of the runners stay in their sets.                          *)
THEOREM RunnersType == Spec => []RunnersTypeOK
<1>1. RunnersInv => RunnersTypeOK
  BY DEF RunnersInv
<1>2. QED
  BY <1>1, RunnersInvariant, PTL

(* Server::accept is called once per connection and only after the peer was  *)
(* answered 101, for any number of connections, requests and faults.         *)
THEOREM HandedOnce == Spec => []HandedAsAnswered
<1>1. RunnersInv => HandedAsAnswered
  <2>1. SUFFICES ASSUME RunnersInv PROVE HandedAsAnswered
    OBVIOUS
  <2>2. \A c \in Conns : stage[c] \in Handed => answer[c] = "101" /\ fault[c] = "none"
    BY <2>1 DEF RunnersInv, AnswerInv, Handed
  <2>3. QED
    BY <2>1, <2>2 DEF RunnersInv, AnswerInv, HandedAsAnswered, In, Distinct
<1>2. QED
  BY <1>1, RunnersInvariant, PTL

(* The tungstenite runner keeps the order of arrival, however many wait.     *)
THEOREM InOrder == Spec => []HandedInOrder
<1>1. RunnersInv => HandedInOrder
  BY DEF RunnersInv, OrderInv, HandedInOrder
<1>2. QED
  BY <1>1, RunnersInvariant, PTL

=============================================================================
