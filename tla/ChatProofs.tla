----------------------------- MODULE ChatProofs -----------------------------
(* Rooms and sessions of the example, for any number of sessions, ids, rooms *)
(* and texts.                                                                *)
EXTENDS Chat, FiniteSetTheorems, SequenceTheorems, WellFoundedInduction, TLAPS

-----------------------------------------------------------------------------
(* A room's list of ids: one more, and one less.                             *)
LEMMA Joined ==
    ASSUME NEW S, NEW s \in Seq(S), NEW i \in S, IsInjective(s), i \notin Range(s)
    PROVE  /\ Append(s, i) \in Seq(S)
           /\ IsInjective(Append(s, i))
           /\ Range(Append(s, i)) = Range(s) \cup {i}
<1> DEFINE t == Append(s, i)
<1>1. /\ t \in Seq(S) /\ Len(s) \in Nat /\ Len(t) = Len(s) + 1
      /\ DOMAIN t = 1..Len(s) + 1 /\ DOMAIN s = 1..Len(s)
      /\ t[Len(s) + 1] = i /\ \A k \in 1..Len(s) : t[k] = s[k]
  OBVIOUS
<1>2. \A k \in DOMAIN t : k \in DOMAIN s \/ k = Len(s) + 1
  BY <1>1
<1>3. \A k \in DOMAIN s : k \in DOMAIN t
  BY <1>1
<1>4. Len(s) + 1 \in DOMAIN t
  BY <1>1
<1> HIDE DEF t
<1>5. Range(t) = Range(s) \cup {i}
  BY <1>1, <1>2, <1>3, <1>4 DEF Range
<1>6. IsInjective(t)
  BY <1>1, <1>2, <1>3 DEF IsInjective, Range
<1>7. QED
  BY <1>1, <1>5, <1>6 DEF t

LEMMA Rest ==
    ASSUME NEW S, NEW s \in Seq(S), NEW m \in Nat, 1 <= m, m <= Len(s) + 1
    PROVE  /\ SubSeq(s, m, Len(s)) \in Seq(S)
           /\ Len(SubSeq(s, m, Len(s))) = Len(s) - m + 1
           /\ \A k \in 1..Len(s) - m + 1 : SubSeq(s, m, Len(s))[k] = s[m + k - 1]
<1> DEFINE l == Len(s)
<1>1. l \in Nat /\ m \in Int /\ l \in Int /\ \A k \in m..l : s[k] \in S
  OBVIOUS
<1>2. (IF m <= l THEN l - m + 1 ELSE 0) = l - m + 1
  BY <1>1
<1>3. /\ SubSeq(s, m, l) \in Seq(S)
      /\ Len(SubSeq(s, m, l)) = IF m <= l THEN l - m + 1 ELSE 0
      /\ \A k \in 1..l - m + 1 : SubSeq(s, m, l)[k] = s[m + k - 1]
  <2> HIDE DEF l
  <2>1. QED
    BY <1>1, SubSeqProperties
<1>4. QED
  BY <1>2, <1>3

LEMMA Removed ==
    ASSUME NEW S, NEW s \in Seq(S), NEW n \in 1..Len(s), IsInjective(s)
    PROVE  /\ RemoveAt(s, n) \in Seq(S)
           /\ IsInjective(RemoveAt(s, n))
           /\ Range(RemoveAt(s, n)) = Range(s) \ {s[n]}
<1> DEFINE t == RemoveAt(s, n)
<1>1. /\ t \in Seq(S) /\ Len(s) \in Nat /\ DOMAIN s = 1..Len(s) /\ DOMAIN t = 1..Len(s) - 1
      /\ \A k \in 1..Len(s) - 1 : t[k] = IF k < n THEN s[k] ELSE s[k + 1]
  <2> DEFINE a == SubSeq(s, 1, n - 1)
             b == SubSeq(s, n + 1, Len(s))
  <2>1. Len(s) \in Nat /\ DOMAIN s = 1..Len(s) /\ n \in Nat /\ 1 <= n /\ n <= Len(s)
    OBVIOUS
  <2>2. a \in Seq(S) /\ Len(a) = n - 1 /\ \A k \in 1..n - 1 : a[k] = s[k]
    BY <2>1, SubSeqProperties
  <2>3. b \in Seq(S) /\ Len(b) = Len(s) - n /\ \A k \in 1..Len(s) - n : b[k] = s[n + k]
    <3>1. \A k \in 1..Len(s) - (n + 1) + 1 : b[k] = s[n + 1 + k - 1]
      BY <2>1, Rest
    <3>2. b \in Seq(S) /\ Len(b) = Len(s) - (n + 1) + 1
      <4>1. n + 1 \in Nat /\ 1 <= n + 1 /\ n + 1 <= Len(s) + 1
        BY <2>1
      <4>2. QED
        BY <4>1, Rest, Zenon
    <3> HIDE DEF b
    <3>3. \A k \in 1..Len(s) - n : k \in 1..Len(s) - (n + 1) + 1 /\ n + 1 + k - 1 = n + k
      BY <2>1
    <3>4. Len(s) - (n + 1) + 1 = Len(s) - n
      BY <2>1
    <3>5. QED
      BY <3>1, <3>2, <3>3, <3>4
  <2> HIDE DEF a, b
  <2>4. /\ a \o b \in Seq(S) /\ Len(a \o b) = Len(s) - 1 /\ DOMAIN (a \o b) = 1..Len(s) - 1
        /\ \A k \in 1..Len(s) - 1 : (a \o b)[k] = IF k <= n - 1 THEN a[k] ELSE b[k - (n - 1)]
    <3>1. /\ a \o b \in Seq(S) /\ Len(a \o b) = Len(a) + Len(b)
          /\ \A k \in 1..Len(a) + Len(b) :
               (a \o b)[k] = IF k <= Len(a) THEN a[k] ELSE b[k - Len(a)]
      BY <2>2, <2>3, ConcatProperties
    <3>2. Len(a) + Len(b) = Len(s) - 1
      BY <2>1, <2>2, <2>3
    <3>3. \A k \in 1..Len(s) - 1 :
             (a \o b)[k] = IF k <= n - 1 THEN a[k] ELSE b[k - (n - 1)]
      BY <2>2, <3>1, <3>2
    <3>4. \A q \in Seq(S) : DOMAIN q = 1..Len(q)
      OBVIOUS
    <3>5. QED
      BY <3>1, <3>2, <3>3, <3>4
  <2>5. t = a \o b
    BY DEF RemoveAt, a, b
  <2>6. ASSUME NEW k \in 1..Len(s) - 1 PROVE t[k] = IF k < n THEN s[k] ELSE s[k + 1]
    <3>1. t[k] = IF k <= n - 1 THEN a[k] ELSE b[k - (n - 1)]
      BY <2>4, <2>5
    <3> HIDE DEF t
    <3>2. CASE k < n
      BY <2>1, <2>2, <3>1, <3>2
    <3>3. CASE ~(k < n)
      <4>1. k - (n - 1) \in 1..Len(s) - n
        BY <2>1, <3>3
      <4>2. n + (k - (n - 1)) = k + 1
        BY <2>1
      <4>3. t[k] = b[k - (n - 1)]
        BY <2>1, <3>1, <3>3
      <4>4. b[k - (n - 1)] = s[n + (k - (n - 1))]
        BY <2>3, <4>1
      <4>5. QED
        BY <3>3, <4>2, <4>3, <4>4
    <3>4. QED
      BY <3>2, <3>3
  <2>7. QED
    BY <2>1, <2>4, <2>5, <2>6
<1> HIDE DEF t
<1>2. \A k \in DOMAIN t : \E m \in DOMAIN s : m # n /\ t[k] = s[m]
  <2>1. SUFFICES ASSUME NEW k \in DOMAIN t PROVE \E m \in DOMAIN s : m # n /\ t[k] = s[m]
    OBVIOUS
  <2>2. CASE k < n
    BY <1>1, <2>2
  <2>3. CASE ~(k < n)
    <3>1. k + 1 \in DOMAIN s /\ k + 1 # n /\ t[k] = s[k + 1]
      BY <1>1, <2>3
    <3>2. QED
      BY <3>1
  <2>4. QED
    BY <2>2, <2>3
<1>3. \A m \in DOMAIN s : m # n => \E k \in DOMAIN t : t[k] = s[m]
  <2>1. SUFFICES ASSUME NEW m \in DOMAIN s, m # n PROVE \E k \in DOMAIN t : t[k] = s[m]
    OBVIOUS
  <2>2. CASE m < n
    BY <1>1, <2>1, <2>2
  <2>3. CASE m > n
    <3>1. m - 1 \in DOMAIN t /\ t[m - 1] = s[m]
      BY <1>1, <2>1, <2>3
    <3>2. QED
      BY <3>1
  <2>4. QED
    BY <1>1, <2>1, <2>2, <2>3
<1>4. \A m \in DOMAIN s : s[m] = s[n] => m = n
  BY <1>1 DEF IsInjective
<1>5. Range(t) = Range(s) \ {s[n]}
  BY <1>2, <1>3, <1>4 DEF Range
<1>6. IsInjective(t)
  <2>1. SUFFICES ASSUME NEW j \in DOMAIN t, NEW k \in DOMAIN t, t[j] = t[k] PROVE j = k
    BY DEF IsInjective
  <2>2. \A l, m \in DOMAIN s : s[l] = s[m] => l = m
    BY DEF IsInjective
  <2>3. QED
    BY <1>1, <2>1, <2>2
<1>7. QED
  BY <1>1, <1>5, <1>6 DEF t

LEMMA LeftBehind ==
    ASSUME NEW S, NEW s \in Seq(S), NEW i, IsInjective(s), i \in Range(s)
    PROVE  /\ Without(s, i) \in Seq(S)
           /\ IsInjective(Without(s, i))
           /\ Range(Without(s, i)) = Range(s) \ {i}
<1>1. PICK n \in 1..Len(s) : s[n] = i
  BY DEF Range
<1>2. {k \in 1..Len(s) : s[k] = i} = {n}
  BY <1>1 DEF IsInjective
<1>3. Min({n}) = n
  BY DEF Min
<1>4. SelectInSeq(s, LAMBDA v : v = i) = n
  BY <1>2, <1>3 DEF SelectInSeq
<1>5. Without(s, i) = RemoveAt(s, n)
  BY <1>1, <1>4 DEF Without, RemoveFirst
<1>6. QED
  BY <1>1, <1>5, Removed

(* The search in on_connect finds an id when there is one.                   *)
LEMMA FreeID ==
    ASSUME NEW T \in SUBSET Nat, T # {}
    PROVE  Min(T) \in T
<1>1. PICK x \in T : \A y \in T : ~(<<y, x>> \in OpToRel(<, Nat))
  BY NatLessThanWellFounded, WFMin
<1>2. ASSUME NEW y \in T PROVE x <= y
  <2>1. <<y, x>> \in Nat \X Nat /\ <<y, x>>[1] = y /\ <<y, x>>[2] = x
    OBVIOUS
  <2>2. ~(y < x)
    BY <1>1, <2>1 DEF OpToRel
  <2>3. QED
    BY <2>2
<1>3. QED
  BY <1>2 DEF Min

-----------------------------------------------------------------------------
(* Rooms rs that list each of the ids D once, and no others.                 *)
Agree(rs, D) ==
    /\ DefaultRoom \in DOMAIN rs /\ DOMAIN rs \subseteq RoomNames
    /\ \A r \in DOMAIN rs :
         rs[r] \in Seq(SessionID) /\ IsInjective(rs[r]) /\ Range(rs[r]) \subseteq D
    /\ \A i \in D : \E r \in DOMAIN rs : i \in Range(rs[r])
    /\ \A r, q \in DOMAIN rs : \A i \in D : i \in Range(rs[r]) /\ i \in Range(rs[q]) => r = q

(* The rooms rs with i at the end of q.                                      *)
Put(rs, i, q) ==
    [p \in DOMAIN rs \cup {q} |->
        IF p # q THEN rs[p] ELSE IF q \in DOMAIN rs THEN Append(rs[q], i) ELSE <<i>>]

LEMMA AgreePut ==
    ASSUME NEW rs, NEW D, Agree(rs, D), NEW i \in SessionID, i \notin D, NEW q \in RoomNames
    PROVE  Agree(Put(rs, i, q), D \cup {i})
<1> DEFINE t == Put(rs, i, q)
           Old(p) == IF p \in DOMAIN rs THEN Range(rs[p]) ELSE {}
<1>1. DOMAIN t = DOMAIN rs \cup {q}
  BY DEF Put
<1>2. ASSUME NEW p \in DOMAIN t
      PROVE  /\ t[p] \in Seq(SessionID) /\ IsInjective(t[p])
             /\ Range(t[p]) = Old(p) \cup (IF p = q THEN {i} ELSE {})
  <2>1. CASE p # q
    <3>1. p \in DOMAIN rs /\ t[p] = rs[p]
      BY <1>1, <2>1 DEF Put
    <3>2. QED
      BY <2>1, <3>1 DEF Agree
  <2>2. CASE p = q /\ q \in DOMAIN rs
    <3>1. t[p] = Append(rs[q], i)
      BY <2>2 DEF Put
    <3>2. rs[q] \in Seq(SessionID) /\ IsInjective(rs[q]) /\ i \notin Range(rs[q])
      BY <2>2 DEF Agree
    <3>3. QED
      BY <2>2, <3>1, <3>2, Joined
  <2>3. CASE p = q /\ q \notin DOMAIN rs
    <3>1. t[p] = <<i>>
      BY <2>3 DEF Put
    <3>2. <<i>> \in Seq(SessionID) /\ DOMAIN <<i>> = {1} /\ <<i>>[1] = i
      OBVIOUS
    <3>3. Range(<<i>>) = {i} /\ IsInjective(<<i>>)
      BY <3>2 DEF Range, IsInjective
    <3>4. QED
      BY <2>3, <3>1, <3>2, <3>3
  <2>4. QED
    BY <2>1, <2>2, <2>3
<1> HIDE DEF t
<1>3. \A p \in DOMAIN t : Old(p) \subseteq D
  BY DEF Agree
<1>4. \A p \in DOMAIN t : Range(t[p]) \subseteq D \cup {i}
  BY <1>2, <1>3
<1>5. \A j \in D : \E p \in DOMAIN t : j \in Range(t[p])
  BY <1>1, <1>2 DEF Agree
<1>6. i \in Range(t[q]) /\ q \in DOMAIN t
  BY <1>1, <1>2
<1>7. ASSUME NEW p \in DOMAIN t, NEW r \in DOMAIN t, NEW j \in D \cup {i},
             j \in Range(t[p]), j \in Range(t[r])
      PROVE  p = r
  <2>1. CASE j = i
    BY <1>2, <1>3, <1>7, <2>1
  <2>2. CASE j # i
    <3>1. j \in Old(p) /\ j \in Old(r)
      BY <1>2, <1>7, <2>2
    <3>2. QED
      BY <1>7, <2>2, <3>1 DEF Agree
  <2>3. QED
    BY <2>1, <2>2
<1>8. DefaultRoom \in DOMAIN t /\ DOMAIN t \subseteq RoomNames
  BY <1>1 DEF Agree
<1>9. Agree(t, D \cup {i})
  BY <1>2, <1>4, <1>5, <1>6, <1>7, <1>8 DEF Agree
<1>10. QED
  BY <1>9 DEF t

LEMMA AgreeLeft ==
    ASSUME NEW D, Agree(rooms, D), NEW r \in DOMAIN rooms, NEW i \in Members(r)
    PROVE  Agree(Left(i, r), D \ {i}) /\ DOMAIN Left(i, r) = DOMAIN rooms
<1> DEFINE t == Left(i, r)
<1>1. /\ DOMAIN t = DOMAIN rooms
      /\ t[r] = Without(rooms[r], i)
      /\ \A p \in DOMAIN rooms : p # r => t[p] = rooms[p]
  BY DEF Left
<1>2. /\ t[r] \in Seq(SessionID) /\ IsInjective(t[r])
      /\ Range(t[r]) = Range(rooms[r]) \ {i}
  BY <1>1, LeftBehind DEF Agree, Members
<1> HIDE DEF t
<1>3. \A p \in DOMAIN rooms : p # r => i \notin Range(rooms[p])
  BY DEF Agree, Members
<1>4. \A p \in DOMAIN t : Range(t[p]) = Range(rooms[p]) \ {i}
  BY <1>1, <1>2, <1>3
<1>5. \A p \in DOMAIN t : t[p] \in Seq(SessionID) /\ IsInjective(t[p])
  BY <1>1, <1>2 DEF Agree
<1>6. Agree(t, D \ {i})
  BY <1>1, <1>4, <1>5 DEF Agree
<1>7. QED
  BY <1>1, <1>6 DEF t

LEMMA AgreeMoved ==
    ASSUME NEW D, Agree(rooms, D), NEW r \in DOMAIN rooms, NEW i \in Members(r),
           NEW q \in RoomNames
    PROVE  /\ Agree(Moved(i, r, q), D)
           /\ DOMAIN Moved(i, r, q) = DOMAIN rooms \cup {q}
<1>1. Agree(Left(i, r), D \ {i}) /\ DOMAIN Left(i, r) = DOMAIN rooms
  BY AgreeLeft
<1>2. Moved(i, r, q) = Put(Left(i, r), i, q)
  BY <1>1 DEF Moved, Put
<1>3. i \in D /\ i \in SessionID
  BY DEF Agree, Members, Range
<1>4. Agree(Put(Left(i, r), i, q), (D \ {i}) \cup {i})
  BY <1>1, <1>3, AgreePut
<1>5. (D \ {i}) \cup {i} = D
  BY <1>3
<1>6. QED
  BY <1>1, <1>2, <1>4, <1>5 DEF Moved

-----------------------------------------------------------------------------
(* A session that is not yet reported is the one behind its id; a reported   *)
(* one waits for on_disconnect once, and keeps its id until then, but no     *)
(* longer.                                                                   *)
IdsInv ==
    /\ \A i \in DOMAIN sessions : InUse(i)
    /\ \A c \in Conns :
         life[c] \in {"running", "ended"} => id[c] \in DOMAIN sessions /\ sessions[id[c]] = c
    /\ \A i \in Range(disconnects) : i \in DOMAIN sessions /\ life[sessions[i]] = "reported"
    /\ IsInjective(disconnects)

(* A Join to r is in the queue q ahead of its n-th call.                     *)
Opened(q, r, n) == \E k \in 1..Len(q) : k < n /\ q[k].type = "Join" /\ q[k].room = r

(* The room that a text is for, or that a session is in, is there or will be *)
(* when it is needed: the Join for it is ahead in the queue.                 *)
CallsInv ==
    /\ \A n \in 1..Len(calls) :
         calls[n].type = "Send" => calls[n].room \in DOMAIN rooms \/ Opened(calls, calls[n].room, n)
    /\ \A c \in Conns : room[c] \in DOMAIN rooms \/ Opened(calls, room[c], Len(calls) + 1)

ChatInv ==
    /\ ChatTypeOK
    /\ Running => Agree(rooms, DOMAIN sessions) /\ IdsInv /\ CallsInv
    /\ AssertionsHold

LEMMA InitInv ==
    ASSUME Init
    PROVE  ChatInv
<1>1. /\ <<>> \in Seq(SessionID) /\ <<>> \in Seq(Messages) /\ Len(<<>>) = 0
      /\ DOMAIN <<>> = {}
  OBVIOUS
<1>2. Range(<<>>) = {} /\ IsInjective(<<>>)
  BY <1>1 DEF Range, IsInjective
<1>3. DOMAIN sessions = {} /\ Range(sessions) = {}
  BY DEF Init, Range
<1>4. /\ DOMAIN rooms = {DefaultRoom} /\ rooms[DefaultRoom] = <<>> /\ DefaultRoom \in RoomNames
  BY DEF Init, RoomNames
<1>5. Range(rooms) = {<<>>}
  BY <1>4 DEF Range
<1>6. 0 \in SessionID /\ 0 \in 0..MaxTexts
  BY ChatAssumption DEF SessionID
<1>7. ChatTypeOK
  BY <1>1, <1>3, <1>4, <1>5, <1>6 DEF Init, ChatTypeOK
<1>8. Agree(rooms, {})
  BY <1>1, <1>2, <1>4 DEF Agree
<1>9. IdsInv /\ CallsInv
  BY <1>1, <1>2, <1>4 DEF Init, IdsInv, CallsInv
<1>10. AssertionsHold
  BY DEF Init, AssertionsHold
<1>11. QED
  BY <1>3, <1>7, <1>8, <1>9, <1>10 DEF ChatInv

-----------------------------------------------------------------------------
(* on_connect.                                                               *)
LEMMA ConnectStep ==
    ASSUME ChatInv, NEW c \in Conns, OnConnect(c)
    PROVE  ChatInv'
<1> DEFINE i == Min(FreeIDs)
<1>1. i \in SessionID /\ i \notin DOMAIN sessions
  BY FreeID DEF OnConnect, FreeIDs, SessionID
<1>2. /\ Running /\ Agree(rooms, DOMAIN sessions) /\ IdsInv /\ CallsInv /\ ChatTypeOK
      /\ life[c] = "new"
  BY DEF ChatInv, OnConnect
<1>3. /\ sessions' = [j \in DOMAIN sessions \cup {i} |-> IF j = i THEN c ELSE sessions[j]]
      /\ id' = [id EXCEPT ![c] = i]
      /\ rooms' = [rooms EXCEPT ![DefaultRoom] = Append(@, i)]
      /\ life' = [life EXCEPT ![c] = "running"]
      /\ UNCHANGED <<actor, disconnects, calls, room, texts>>
  BY DEF OnConnect
<1> HIDE DEF i
<1>4. /\ DOMAIN sessions' = DOMAIN sessions \cup {i} /\ sessions'[i] = c
      /\ \A j \in DOMAIN sessions : sessions'[j] = sessions[j]
  BY <1>1, <1>3
<1>5. DefaultRoom \in DOMAIN rooms /\ DefaultRoom \in RoomNames
  BY <1>2 DEF Agree
<1>6. rooms' = Put(rooms, i, DefaultRoom)
  BY <1>3, <1>5 DEF Put
<1>7. Agree(rooms', DOMAIN sessions') /\ DOMAIN rooms' = DOMAIN rooms
  <2>1. Agree(rooms', DOMAIN sessions \cup {i})
    BY <1>1, <1>2, <1>5, <1>6, AgreePut
  <2>2. QED
    BY <1>3, <1>4, <2>1
<1>8. /\ life'[c] = "running" /\ id'[c] = i
      /\ life' \in [Conns -> {"new", "running", "ended", "reported"}]
      /\ id' \in [Conns -> SessionID]
      /\ \A d \in Conns : d # c => life'[d] = life[d] /\ id'[d] = id[d]
  BY <1>1, <1>2, <1>3 DEF ChatTypeOK
<1>9. IdsInv'
  <2>1. ASSUME NEW d \in Conns, life'[d] \in {"running", "ended"}
        PROVE  id'[d] \in DOMAIN sessions' /\ sessions'[id'[d]] = d
    BY <1>2, <1>4, <1>8, <2>1 DEF IdsInv
  <2>2. ASSUME NEW j \in Range(disconnects)
        PROVE  j \in DOMAIN sessions' /\ life'[sessions'[j]] = "reported"
    <3>1. j \in DOMAIN sessions /\ life[sessions[j]] = "reported"
      BY <1>2 DEF IdsInv
    <3>2. sessions[j] \in Conns /\ sessions[j] # c
      BY <1>2, <3>1 DEF ChatTypeOK, Range
    <3>3. QED
      BY <1>4, <1>8, <3>1, <3>2
  <2>3. ASSUME NEW j \in DOMAIN sessions' PROVE InUse(j)'
    <3>1. CASE j = i
      BY <1>4, <1>8, <3>1 DEF InUse
    <3>2. CASE j # i
      <4>1. j \in DOMAIN sessions /\ sessions'[j] = sessions[j] /\ InUse(j)
        BY <1>2, <1>4, <3>2 DEF IdsInv
      <4>2. sessions[j] \in Conns
        BY <1>2, <4>1 DEF ChatTypeOK, Range
      <4>3. sessions[j] # c
        <5>1. CASE life[sessions[j]] \in {"running", "ended"}
          BY <1>2, <5>1
        <5>2. CASE j \in Range(disconnects)
          BY <1>2, <5>2 DEF IdsInv
        <5>3. QED
          BY <4>1, <5>1, <5>2 DEF InUse
      <4>4. QED
        BY <1>3, <1>8, <4>1, <4>2, <4>3 DEF InUse
    <3>3. QED
      BY <3>1, <3>2
  <2>4. QED
    BY <1>2, <1>3, <2>1, <2>2, <2>3 DEF IdsInv
<1>10. CallsInv'
  BY <1>2, <1>3, <1>7 DEF CallsInv, Opened
<1>11. ChatTypeOK'
  <2>1. Range(sessions') \subseteq Conns
    BY <1>2, <1>4 DEF ChatTypeOK, Range
  <2>2. DOMAIN rooms' \subseteq RoomNames /\ Range(rooms') \subseteq Seq(SessionID)
    BY <1>7 DEF Agree, Range
  <2>3. QED
    BY <1>1, <1>2, <1>3, <1>4, <1>8, <2>1, <2>2 DEF ChatTypeOK, SessionID, RoomNames
<1>12. QED
  BY <1>3, <1>7, <1>9, <1>10, <1>11 DEF ChatInv, AssertionsHold

(* A panic ends all there is to show.                                        *)
LEMMA PanicStep ==
    ASSUME ChatInv, NEW what \in {"id exhausted", "session ended", "joiner unknown"},
           Panic(what), disconnects' \in Seq(SessionID), calls' \in Seq(Messages)
    PROVE  ChatInv'
<1>1. ChatTypeOK'
  BY DEF ChatInv, ChatTypeOK, Panic, Panics
<1>2. ~Running' /\ AssertionsHold'
  BY DEF Panic, Running, AssertionsHold
<1>3. QED
  BY <1>1, <1>2 DEF ChatInv

LEMMA OverflowStep ==
    ASSUME ChatInv, NEW c \in Conns, OnConnectOverflows(c)
    PROVE  ChatInv'
  BY PanicStep DEF OnConnectOverflows, ChatInv, ChatTypeOK

-----------------------------------------------------------------------------
(* A queue whose head is taken.                                              *)
LEMMA Taken ==
    ASSUME NEW S, NEW q \in Seq(S), q # <<>>
    PROVE  /\ Head(q) \in S /\ Tail(q) \in Seq(S) /\ Len(q) \in Nat /\ Len(q) >= 1
           /\ Len(Tail(q)) = Len(q) - 1 /\ Head(q) = q[1] /\ 1 \in 1..Len(q)
           /\ DOMAIN q = 1..Len(q) /\ DOMAIN Tail(q) = 1..Len(q) - 1
           /\ \A k \in 1..Len(q) - 1 : Tail(q)[k] = q[k + 1] /\ k + 1 \in 2..Len(q)
  OBVIOUS

(* on_disconnect: its session is there, and in a room.                       *)
LEMMA DisconnectStep ==
    ASSUME ChatInv, OnDisconnect
    PROVE  ChatInv'
<1> DEFINE i == Head(disconnects)
<1>1. /\ Running /\ Agree(rooms, DOMAIN sessions) /\ IdsInv /\ CallsInv /\ ChatTypeOK
      /\ disconnects \in Seq(SessionID) /\ disconnects # <<>>
      /\ disconnects' = Tail(disconnects) /\ UNCHANGED calls
  BY DEF ChatInv, ChatTypeOK, OnDisconnect
<1>2. /\ i = disconnects[1] /\ 1 \in DOMAIN disconnects
      /\ disconnects' \in Seq(SessionID)
      /\ \A k \in DOMAIN disconnects' :
           disconnects'[k] = disconnects[k + 1] /\ k + 1 \in DOMAIN disconnects /\ k + 1 # 1
      /\ DOMAIN disconnects' \subseteq Nat
  BY <1>1, Taken
<1>3. i \in DOMAIN sessions /\ life[sessions[i]] = "reported"
  BY <1>1, <1>2 DEF IdsInv, Range
<1>4. RoomsOf(i) # {}
  BY <1>1, <1>3 DEF Agree, RoomsOf, Members
<1>5. PICK r \in RoomsOf(i) :
        /\ sessions' = [j \in DOMAIN sessions \ {i} |-> sessions[j]]
        /\ rooms' = Left(i, r)
        /\ UNCHANGED <<actor, life, id, room, texts>>
  BY <1>3, <1>4 DEF OnDisconnect
<1> HIDE DEF i
<1>6. /\ DOMAIN sessions' = DOMAIN sessions \ {i}
      /\ \A j \in DOMAIN sessions' : sessions'[j] = sessions[j]
  BY <1>5
<1>7. Agree(rooms', DOMAIN sessions') /\ DOMAIN rooms' = DOMAIN rooms
  <2>1. r \in DOMAIN rooms /\ i \in Members(r)
    BY DEF RoomsOf
  <2>2. QED
    BY <1>1, <1>5, <1>6, <2>1, AgreeLeft
<1>8. IdsInv'
  <2>1. ASSUME NEW d \in Conns, life'[d] \in {"running", "ended"}
        PROVE  id'[d] \in DOMAIN sessions' /\ sessions'[id'[d]] = d
    <3>1. id[d] \in DOMAIN sessions /\ sessions[id[d]] = d /\ id[d] # i
      BY <1>1, <1>3, <1>5, <2>1 DEF IdsInv
    <3>2. QED
      BY <1>5, <1>6, <3>1
  <2>2. \A k \in DOMAIN disconnects' : disconnects'[k] \in Range(disconnects) /\ disconnects'[k] # i
    BY <1>1, <1>2 DEF IdsInv, IsInjective, Range
  <2>3. \A j \in Range(disconnects') : j \in DOMAIN sessions' /\ life'[sessions'[j]] = "reported"
    BY <1>1, <1>5, <1>6, <2>2 DEF IdsInv, Range
  <2>4. IsInjective(disconnects')
    <3>1. SUFFICES ASSUME NEW k \in DOMAIN disconnects', NEW l \in DOMAIN disconnects',
                          disconnects'[k] = disconnects'[l]
                   PROVE  k = l
      BY DEF IsInjective
    <3>2. k + 1 = l + 1
      BY <1>1, <1>2, <3>1 DEF IdsInv, IsInjective
    <3>3. QED
      BY <1>2, <3>2
  <2>5. ASSUME NEW j \in DOMAIN sessions' PROVE InUse(j)'
    <3>1. j \in DOMAIN sessions /\ j # i /\ sessions'[j] = sessions[j] /\ InUse(j)
      BY <1>1, <1>5 DEF IdsInv
    <3>2. j \in Range(disconnects) => j \in Range(disconnects')
      <4>1. SUFFICES ASSUME j \in Range(disconnects) PROVE j \in Range(disconnects')
        OBVIOUS
      <4>2. PICK k \in 1..Len(disconnects) : j = disconnects[k]
        BY <1>1, <4>1 DEF Range
      <4>3. k # 1
        BY <1>2, <3>1, <4>2
      <4>4. k - 1 \in 1..Len(disconnects') /\ disconnects'[k - 1] = disconnects[k]
        BY <1>1, <4>2, <4>3
      <4>5. QED
        BY <1>2, <4>2, <4>4 DEF Range
    <3>3. QED
      BY <1>5, <3>1, <3>2 DEF InUse
  <2>6. QED
    BY <2>1, <2>3, <2>4, <2>5 DEF IdsInv
<1>9. CallsInv'
  BY <1>1, <1>5, <1>7 DEF CallsInv, Opened
<1>10. ChatTypeOK'
  <2>1. Range(sessions') \subseteq Conns
    BY <1>1, <1>6 DEF ChatTypeOK, Range
  <2>2. DOMAIN rooms' \subseteq RoomNames /\ Range(rooms') \subseteq Seq(SessionID)
    BY <1>7 DEF Agree, Range
  <2>3. QED
    BY <1>1, <1>2, <1>5, <1>6, <2>1, <2>2 DEF ChatTypeOK
<1>11. QED
  BY <1>5, <1>7, <1>8, <1>9, <1>10 DEF ChatInv, AssertionsHold

-----------------------------------------------------------------------------
(* on_call.  A call is taken, and the rooms it has opened stay.              *)
LEMMA CallTaken ==
    ASSUME ChatInv, Running, calls # <<>>, calls' = Tail(calls), UNCHANGED room,
           DOMAIN rooms \subseteq DOMAIN rooms',
           Head(calls).type = "Join" => Head(calls).room \in DOMAIN rooms'
    PROVE  CallsInv' /\ calls' \in Seq(Messages)
<1>1. CallsInv /\ calls \in Seq(Messages)
  BY DEF ChatInv, ChatTypeOK
<1>2. /\ calls' \in Seq(Messages) /\ Len(calls) \in Nat /\ Len(calls) >= 1
      /\ Len(calls') = Len(calls) - 1 /\ Head(calls) = calls[1]
      /\ \A k \in 1..Len(calls) - 1 : calls'[k] = calls[k + 1] /\ k + 1 \in 2..Len(calls)
  BY <1>1, Taken
<1>3. ASSUME NEW r, NEW n \in 1..Len(calls), Opened(calls, r, n + 1)
      PROVE  r \in DOMAIN rooms' \/ Opened(calls', r, n)
  <2>1. PICK k \in 1..Len(calls) : k < n + 1 /\ calls[k].type = "Join" /\ calls[k].room = r
    BY <1>3 DEF Opened
  <2>2. CASE k = 1
    BY <1>2, <2>1, <2>2
  <2>3. CASE k # 1
    <3>1. /\ k - 1 \in 1..Len(calls') /\ k - 1 < n /\ calls'[k - 1] = calls[k]
      <4>1. k - 1 \in 1..Len(calls) - 1 /\ (k - 1) + 1 = k
        BY <1>2, <2>1, <2>3
      <4>2. QED
        BY <1>2, <2>1, <4>1
    <3>2. \E l \in 1..Len(calls') : l < n /\ calls'[l].type = "Join" /\ calls'[l].room = r
      BY <2>1, <3>1
    <3>3. QED
      BY <3>2 DEF Opened
  <2>4. QED
    BY <2>2, <2>3
<1>4. ASSUME NEW n \in 1..Len(calls'), calls'[n].type = "Send"
      PROVE  calls'[n].room \in DOMAIN rooms' \/ Opened(calls', calls'[n].room, n)
  <2>1. n \in 1..Len(calls) /\ n + 1 \in 1..Len(calls) /\ calls'[n] = calls[n + 1]
    BY <1>2
  <2>2. calls[n + 1].room \in DOMAIN rooms \/ Opened(calls, calls[n + 1].room, n + 1)
    BY <1>1, <1>4, <2>1 DEF CallsInv
  <2>3. QED
    BY <1>3, <2>1, <2>2
<1>5. ASSUME NEW c \in Conns
      PROVE  room'[c] \in DOMAIN rooms' \/ Opened(calls', room'[c], Len(calls') + 1)
  <2>1. room[c] \in DOMAIN rooms \/ Opened(calls, room[c], Len(calls) + 1)
    BY <1>1 DEF CallsInv
  <2>2. Len(calls) \in 1..Len(calls) /\ Len(calls') + 1 = Len(calls)
    BY <1>2
  <2>3. QED
    BY <1>3, <2>1, <2>2
<1>6. CallsInv'
  BY <1>4, <1>5 DEF CallsInv, Opened
<1>7. QED
  BY <1>2, <1>6

(* on_call leaves everything but the rooms and the actor as it was.          *)
LEMMA CallStep ==
    ASSUME ChatInv, OnCall
    PROVE  ChatInv'
<1> DEFINE m == Head(calls)
<1>1. /\ Running /\ Agree(rooms, DOMAIN sessions) /\ IdsInv /\ CallsInv /\ ChatTypeOK
      /\ calls \in Seq(Messages) /\ calls # <<>> /\ calls' = Tail(calls)
      /\ UNCHANGED <<sessions, disconnects, life, id, room, texts>>
      /\ OnSend(m) \/ OnJoin(m)
  BY DEF ChatInv, ChatTypeOK, OnCall
<1>2. m \in Messages /\ m = calls[1] /\ 1 \in 1..Len(calls) /\ calls' \in Seq(Messages)
  BY <1>1, Taken
<1> HIDE DEF m
<1>3. m.room \in RoomNames /\ m.id \in SessionID
  BY <1>2 DEF Messages
<1>4. \A ids : Tell(ids) \in {"running", "session ended"}
  BY DEF Tell
<1>5. CASE OnSend(m)
  <2>1. m.room \in DOMAIN rooms
    <3>1. ~Opened(calls, m.room, 1)
      BY DEF Opened
    <3>2. QED
      BY <1>1, <1>2, <1>5, <3>1 DEF CallsInv, OnSend
  <2>2. Members(m.room) \ {m.id} \subseteq DOMAIN sessions
    BY <1>1, <2>1 DEF Agree, Members
  <2>3. actor' \in {"running", "session ended"} /\ UNCHANGED rooms
    BY <1>4, <1>5, <2>1, <2>2 DEF OnSend
  <2>4. CallsInv'
    BY <1>1, <1>2, <1>5, <2>3, CallTaken DEF OnSend, m
  <2>5. ChatTypeOK'
    BY <1>1, <1>2, <2>3 DEF ChatTypeOK, Panics
  <2>6. Agree(rooms', DOMAIN sessions') /\ IdsInv'
    BY <1>1, <2>3 DEF IdsInv, InUse
  <2>7. QED
    BY <2>3, <2>4, <2>5, <2>6 DEF ChatInv, AssertionsHold
<1>6. CASE OnJoin(m) /\ RoomsOf(m.id) = {}
  <2>1. actor' = "joiner unknown" /\ UNCHANGED rooms
    BY <1>6 DEF OnJoin
  <2>2. ChatTypeOK'
    BY <1>1, <1>2, <2>1 DEF ChatTypeOK, Panics
  <2>3. QED
    BY <2>1, <2>2 DEF ChatInv, AssertionsHold, Running
<1>7. CASE OnJoin(m) /\ RoomsOf(m.id) # {}
  <2>1. PICK r \in RoomsOf(m.id) :
          /\ rooms' = Moved(m.id, r, m.room)
          /\ actor' = IF Range(rooms'[m.room]) \subseteq DOMAIN sessions
                      THEN Tell(Range(rooms'[m.room])) ELSE "member unknown"
    BY <1>7 DEF OnJoin
  <2>2. r \in DOMAIN rooms /\ m.id \in Members(r)
    BY DEF RoomsOf
  <2>3. Agree(rooms', DOMAIN sessions) /\ DOMAIN rooms' = DOMAIN rooms \cup {m.room}
    <3>1. /\ Agree(Moved(m.id, r, m.room), DOMAIN sessions)
          /\ DOMAIN Moved(m.id, r, m.room) = DOMAIN rooms \cup {m.room}
      <4>1. Agree(rooms, DOMAIN sessions)
        BY <1>1
      <4>2. \A i \in Members(r), q \in RoomNames :
               /\ Agree(Moved(i, r, q), DOMAIN sessions)
               /\ DOMAIN Moved(i, r, q) = DOMAIN rooms \cup {q}
        BY <2>2, <4>1, AgreeMoved
      <4>3. m.id \in Members(r) /\ m.room \in RoomNames
        BY <1>3, <2>2
      <4>4. QED
        BY <4>2, <4>3
    <3>2. QED
      BY <2>1, <3>1
  <2>4. actor' \in {"running", "session ended"}
    BY <1>4, <2>1, <2>3 DEF Agree
  <2>5. CallsInv'
    BY <1>1, <2>3, CallTaken DEF m
  <2>6. ChatTypeOK'
    <3>1. DOMAIN rooms' \subseteq RoomNames /\ Range(rooms') \subseteq Seq(SessionID)
      BY <2>3 DEF Agree, Range
    <3>2. QED
      BY <1>1, <1>2, <2>4, <3>1 DEF ChatTypeOK, Panics
  <2>7. IdsInv'
    BY <1>1 DEF IdsInv, InUse
  <2>8. QED
    BY <1>1, <2>3, <2>4, <2>5, <2>6, <2>7 DEF ChatInv, AssertionsHold
<1>8. QED
  BY <1>1, <1>5, <1>6, <1>7

-----------------------------------------------------------------------------
(* Sessions.                                                                 *)
LEMMA Asked ==
    ASSUME NEW q \in Seq(Messages), NEW m \in Messages
    PROVE  /\ Append(q, m) \in Seq(Messages) /\ Len(q) \in Nat
           /\ Len(Append(q, m)) = Len(q) + 1 /\ Append(q, m)[Len(q) + 1] = m
           /\ \A k \in 1..Len(q) : Append(q, m)[k] = q[k] /\ k \in 1..Len(q) + 1
           /\ \A k \in 1..Len(q) + 1 : k \in 1..Len(q) \/ k = Len(q) + 1
           /\ Len(q) + 1 \in 1..Len(q) + 1
  OBVIOUS

(* A session's text becomes a call, or the death of the session.             *)
LEMMA SayStep ==
    ASSUME ChatInv, NEW c \in Conns, NEW r \in RoomNames,
           Say(c, "Join", r) \/ (Say(c, "Send", r) /\ r = room[c])
    PROVE  ChatInv'
<1>1. PICK type \in {"Join", "Send"} : Say(c, type, r) /\ (type = "Send" => r = room[c])
  OBVIOUS
<1>2. /\ life[c] = "running" /\ texts' = [texts EXCEPT ![c] = @ + 1] /\ texts[c] < MaxTexts
      /\ room' = [room EXCEPT ![c] = r]
      /\ UNCHANGED <<sessions, rooms, actor, disconnects, id>>
  BY <1>1 DEF Say
<1>3. ChatTypeOK
  BY DEF ChatInv
<1>4. /\ room' \in [Conns -> RoomNames] /\ room'[c] = r
      /\ \A d \in Conns : d # c => room'[d] = room[d]
  BY <1>2, <1>3 DEF ChatTypeOK
<1>5. texts' \in [Conns -> 0..MaxTexts]
  BY <1>2, <1>3, ChatAssumption DEF ChatTypeOK
<1>6. CASE ~Running
  <2>1. life' = [life EXCEPT ![c] = "ended"] /\ UNCHANGED calls
    BY <1>1, <1>6 DEF Say
  <2>2. ChatTypeOK'
    BY <1>2, <1>3, <1>4, <1>5, <2>1 DEF ChatTypeOK
  <2>3. QED
    BY <1>2, <1>6, <2>2 DEF ChatInv, Running, AssertionsHold
<1>7. CASE Running
  <2> DEFINE m == [type |-> type, id |-> id[c], room |-> r]
  <2>1. /\ calls' = Append(calls, m) /\ UNCHANGED life
        /\ Agree(rooms, DOMAIN sessions) /\ IdsInv /\ CallsInv
    BY <1>1, <1>7 DEF Say, ChatInv
  <2>2. m \in Messages /\ m.type = type /\ m.room = r /\ calls \in Seq(Messages)
    BY <1>3 DEF Messages, ChatTypeOK
  <2> HIDE DEF m
  <2>3. /\ calls' \in Seq(Messages) /\ Len(calls) \in Nat
        /\ Len(calls') = Len(calls) + 1 /\ calls'[Len(calls) + 1] = m
        /\ \A k \in 1..Len(calls) : calls'[k] = calls[k] /\ k \in 1..Len(calls')
        /\ \A k \in 1..Len(calls') : k \in 1..Len(calls) \/ k = Len(calls) + 1
        /\ Len(calls) + 1 \in 1..Len(calls')
    BY <2>1, <2>2, Asked
  <2>4. ASSUME NEW p, NEW n \in Nat, NEW l \in Nat, Opened(calls, p, n), n <= l
        PROVE  Opened(calls', p, l)
    <3>1. PICK k \in 1..Len(calls) : k < n /\ calls[k].type = "Join" /\ calls[k].room = p
      BY <2>4 DEF Opened
    <3>2. k \in 1..Len(calls') /\ k < l /\ calls'[k] = calls[k]
      BY <2>3, <2>4, <3>1
    <3>3. \E j \in 1..Len(calls') : j < l /\ calls'[j].type = "Join" /\ calls'[j].room = p
      BY <3>1, <3>2
    <3>4. QED
      BY <3>3 DEF Opened
  <2>5. r \in DOMAIN rooms \/ Opened(calls', r, Len(calls') + 1)
    <3>1. CASE type = "Join"
      <4>1. /\ Len(calls) + 1 \in 1..Len(calls') /\ Len(calls) + 1 < Len(calls') + 1
            /\ calls'[Len(calls) + 1].type = "Join" /\ calls'[Len(calls) + 1].room = r
        BY <2>2, <2>3, <3>1
      <4>2. \E j \in 1..Len(calls') :
               j < Len(calls') + 1 /\ calls'[j].type = "Join" /\ calls'[j].room = r
        BY <4>1
      <4>3. QED
        BY <4>2 DEF Opened
    <3>2. CASE type = "Send"
      <4>1. r \in DOMAIN rooms \/ Opened(calls, r, Len(calls) + 1)
        BY <1>1, <2>1, <3>2 DEF CallsInv
      <4>2. QED
        BY <2>3, <2>4, <4>1
    <3>3. QED
      BY <3>1, <3>2
  <2>6. ASSUME NEW d \in Conns
        PROVE  room'[d] \in DOMAIN rooms \/ Opened(calls', room'[d], Len(calls') + 1)
    <3>1. CASE d = c
      BY <1>4, <2>5, <3>1
    <3>2. CASE d # c
      <4>1. room[d] \in DOMAIN rooms \/ Opened(calls, room[d], Len(calls) + 1)
        BY <2>1 DEF CallsInv
      <4>2. QED
        BY <1>4, <2>3, <2>4, <3>2, <4>1
    <3>3. QED
      BY <3>1, <3>2
  <2>7. ASSUME NEW n \in 1..Len(calls'), calls'[n].type = "Send"
        PROVE  calls'[n].room \in DOMAIN rooms \/ Opened(calls', calls'[n].room, n)
    <3>1. CASE n \in 1..Len(calls)
      <4>1. calls[n].room \in DOMAIN rooms \/ Opened(calls, calls[n].room, n)
        BY <2>1, <2>3, <2>7, <3>1 DEF CallsInv
      <4>2. QED
        BY <2>3, <2>4, <3>1, <4>1
    <3>2. CASE n = Len(calls) + 1
      <4>1. r \in DOMAIN rooms \/ Opened(calls, r, Len(calls) + 1)
        BY <1>1, <2>1, <2>2, <2>3, <2>7, <3>2 DEF CallsInv
      <4>2. QED
        BY <2>2, <2>3, <2>4, <3>2, <4>1
    <3>3. QED
      BY <2>3, <3>1, <3>2
  <2>8. CallsInv'
    BY <1>2, <2>6, <2>7 DEF CallsInv, Opened
  <2>9. IdsInv' /\ Agree(rooms', DOMAIN sessions')
    BY <1>2, <2>1 DEF IdsInv, InUse
  <2>10. ChatTypeOK'
    BY <1>2, <1>3, <1>4, <1>5, <2>1, <2>3 DEF ChatTypeOK
  <2>11. QED
    BY <1>2, <2>8, <2>9, <2>10 DEF ChatInv, AssertionsHold
<1>8. QED
  BY <1>6, <1>7

(* The session ends, and is reported.                                        *)
LEMMA EndStep ==
    ASSUME ChatInv, NEW c \in Conns, EndSession(c)
    PROVE  ChatInv'
<1>1. /\ life[c] = "running" /\ life' = [life EXCEPT ![c] = "ended"]
      /\ UNCHANGED <<sessions, rooms, actor, disconnects, calls, id, room, texts>>
  BY DEF EndSession
<1>2. ChatTypeOK /\ ChatTypeOK'
  BY <1>1 DEF ChatInv, ChatTypeOK
<1>3. life'[c] = "ended" /\ \A d \in Conns : d # c => life'[d] = life[d]
  BY <1>1, <1>2 DEF ChatTypeOK
<1>4. CASE Running
  <2>1. Agree(rooms, DOMAIN sessions) /\ IdsInv /\ CallsInv
    BY <1>4 DEF ChatInv
  <2>2. IdsInv'
    <3>1. ASSUME NEW i \in Range(disconnects)
          PROVE  i \in DOMAIN sessions /\ life'[sessions[i]] = "reported"
      <4>1. i \in DOMAIN sessions /\ life[sessions[i]] = "reported"
        BY <2>1 DEF IdsInv
      <4>2. sessions[i] \in Conns /\ sessions[i] # c
        BY <1>1, <1>2, <4>1 DEF ChatTypeOK, Range
      <4>3. QED
        BY <1>3, <4>1, <4>2
    <3>2. \A d \in Conns : life'[d] \in {"running", "ended"} => life[d] \in {"running", "ended"}
      BY <1>1, <1>3
    <3>3. ASSUME NEW i \in DOMAIN sessions PROVE InUse(i)'
      <4>1. InUse(i) /\ sessions[i] \in Conns
        BY <1>2, <2>1 DEF IdsInv, ChatTypeOK, Range
      <4>2. QED
        BY <1>1, <1>3, <4>1 DEF InUse
    <3>4. QED
      BY <1>1, <2>1, <3>1, <3>2, <3>3 DEF IdsInv
  <2>3. CallsInv'
    BY <1>1, <2>1 DEF CallsInv, Opened
  <2>4. QED
    BY <1>1, <1>2, <2>1, <2>2, <2>3 DEF ChatInv, AssertionsHold
<1>5. CASE ~Running
  BY <1>1, <1>2, <1>5 DEF ChatInv, Running, AssertionsHold
<1>6. QED
  BY <1>4, <1>5

LEMMA WatcherStep ==
    ASSUME ChatInv, NEW c \in Conns, Watcher(c)
    PROVE  ChatInv'
<1>1. /\ life[c] = "ended" /\ life' = [life EXCEPT ![c] = "reported"]
      /\ UNCHANGED <<sessions, rooms, actor, calls, id, room, texts>>
  BY DEF Watcher
<1>2. ChatTypeOK /\ disconnects \in Seq(SessionID) /\ id[c] \in SessionID
  BY DEF ChatInv, ChatTypeOK
<1>3. /\ life' \in [Conns -> {"new", "running", "ended", "reported"}]
      /\ life'[c] = "reported" /\ \A d \in Conns : d # c => life'[d] = life[d]
  BY <1>1, <1>2 DEF ChatTypeOK
<1>4. CASE Running
  <2>1. /\ Agree(rooms, DOMAIN sessions) /\ IdsInv /\ CallsInv
        /\ disconnects' = Append(disconnects, id[c])
    BY <1>4 DEF ChatInv, Watcher
  <2>2. id[c] \in DOMAIN sessions /\ sessions[id[c]] = c
    BY <1>1, <2>1 DEF IdsInv
  <2>3. IsInjective(disconnects) /\ id[c] \notin Range(disconnects)
    BY <1>1, <2>1, <2>2 DEF IdsInv
  <2>4. /\ disconnects' \in Seq(SessionID) /\ IsInjective(disconnects')
        /\ Range(disconnects') = Range(disconnects) \cup {id[c]}
    BY <1>2, <2>1, <2>3, Joined
  <2>5. IdsInv'
    <3>1. ASSUME NEW i \in Range(disconnects')
          PROVE  i \in DOMAIN sessions /\ life'[sessions[i]] = "reported"
      <4>1. CASE i = id[c]
        BY <1>3, <2>2, <4>1
      <4>2. CASE i # id[c]
        <5>1. i \in DOMAIN sessions /\ life[sessions[i]] = "reported"
          BY <2>1, <2>4, <4>2 DEF IdsInv
        <5>2. sessions[i] \in Conns /\ sessions[i] # c
          BY <1>1, <1>2, <5>1 DEF ChatTypeOK, Range
        <5>3. QED
          BY <1>3, <5>1, <5>2
      <4>3. QED
        BY <4>1, <4>2
    <3>2. \A d \in Conns :
             life'[d] \in {"running", "ended"} => life[d] \in {"running", "ended"}
      BY <1>3
    <3>3. ASSUME NEW i \in DOMAIN sessions PROVE InUse(i)'
      <4>1. InUse(i) /\ sessions[i] \in Conns
        BY <1>2, <2>1 DEF IdsInv, ChatTypeOK, Range
      <4>2. sessions[i] = c => i \in Range(disconnects')
        BY <2>4, <4>1 DEF InUse
      <4>3. QED
        BY <1>1, <1>3, <2>4, <4>1, <4>2 DEF InUse
    <3>4. QED
      BY <1>1, <2>1, <2>4, <3>1, <3>2, <3>3 DEF IdsInv
  <2>6. CallsInv'
    BY <1>1, <2>1 DEF CallsInv, Opened
  <2>7. ChatTypeOK'
    BY <1>1, <1>2, <1>3, <2>4 DEF ChatTypeOK
  <2>8. QED
    BY <1>1, <2>1, <2>5, <2>6, <2>7 DEF ChatInv, AssertionsHold
<1>5. CASE ~Running
  <2>1. UNCHANGED disconnects
    BY <1>5 DEF Watcher
  <2>2. ChatTypeOK'
    BY <1>1, <1>2, <1>3, <2>1 DEF ChatTypeOK
  <2>3. QED
    BY <1>1, <1>5, <2>2 DEF ChatInv, Running, AssertionsHold
<1>6. QED
  BY <1>4, <1>5

-----------------------------------------------------------------------------
LEMMA NextInv ==
    ASSUME ChatInv, [Next]_vars
    PROVE  ChatInv'
<1>1. ASSUME NEW c \in Conns, OnText(c)
      PROVE  ChatInv'
  BY <1>1, SayStep DEF OnText
<1>2. ASSUME NEW c \in Conns, OnPlainText(c)
      PROVE  ChatInv'
  <2>1. room[c] \in RoomNames
    BY DEF ChatInv, ChatTypeOK
  <2>2. QED
    BY <1>2, <2>1, SayStep DEF OnPlainText
<1>3. CASE UNCHANGED vars
  <2>1. UNCHANGED <<sessions, rooms, actor, disconnects, calls, life, id, room, texts>>
    BY <1>3 DEF vars
  <2>2. ChatTypeOK' <=> ChatTypeOK
    BY <2>1 DEF ChatTypeOK
  <2>3. IdsInv' <=> IdsInv
    BY <2>1 DEF IdsInv, InUse
  <2>4. CallsInv' <=> CallsInv
    BY <2>1 DEF CallsInv, Opened
  <2>5. QED
    BY <2>1, <2>2, <2>3, <2>4 DEF ChatInv, Running, AssertionsHold
<1>4. QED
  BY <1>1, <1>2, <1>3, ConnectStep, OverflowStep, EndStep, WatcherStep, DisconnectStep, CallStep
  DEF Next

(* The rooms, the ids and the queues fit together in every reachable state   *)
(* of main.rs, for any number of sessions, ids, rooms and texts.             *)
THEOREM ChatInvariant == Spec => []ChatInv
<1>1. Init => ChatInv
  BY InitInv
<1>2. ChatInv /\ [Next]_vars => ChatInv'
  BY NextInv
<1>3. QED
  BY <1>1, <1>2, PTL DEF Spec

(* Type correctness of the example's state.                                  *)
THEOREM ChatType == Spec => []ChatTypeOK
<1>1. ChatInv => ChatTypeOK
  BY DEF ChatInv
<1>2. QED
  BY <1>1, ChatInvariant, PTL

(* Every session in the map is in one room, once, and a room lists no        *)
(* others: of joins (main.rs 100-110) and disconnects (64-71) that cross.    *)
(* No id is taken for longer than its session is there or reported.          *)
THEOREM OneRoomEach == Spec => []RoomsMatchSessions
<1>1. ChatInv => RoomsMatchSessions
  <2>1. SUFFICES ASSUME ChatInv, Running PROVE RoomsMatchSessions
    BY DEF RoomsMatchSessions
  <2>2. Agree(rooms, DOMAIN sessions)
    BY <2>1 DEF ChatInv
  <2>3. ASSUME NEW i \in DOMAIN sessions PROVE Cardinality(RoomsOf(i)) = 1
    <3>1. PICK r \in DOMAIN rooms : i \in Range(rooms[r])
      BY <2>2 DEF Agree
    <3>2. RoomsOf(i) = {r}
      BY <2>2, <3>1 DEF Agree, RoomsOf, Members
    <3>3. QED
      BY <3>2, FS_Singleton
  <2>4. \A i \in DOMAIN sessions : InUse(i)
    BY <2>1 DEF ChatInv, IdsInv
  <2>5. QED
    BY <2>1, <2>2, <2>3, <2>4 DEF Agree, RoomsMatchSessions, Members
<1>2. QED
  BY <1>1, ChatInvariant, PTL

(* The lookups that main.rs unwraps at 64, 70, 81, 84, 115 and 117 find what *)
(* they look for.                                                            *)
THEOREM LookupsSucceed == Spec => []AssertionsHold
<1>1. ChatInv => AssertionsHold
  BY DEF ChatInv
<1>2. QED
  BY <1>1, ChatInvariant, PTL

=============================================================================
