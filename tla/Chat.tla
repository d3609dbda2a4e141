-------------------------------- MODULE Chat --------------------------------
(* examples/chat-server/src/main.rs: the server's extension, a map of        *)
(* sessions and rooms of session ids, and the sessions' extension, which     *)
(* calls it.  ServerActor takes disconnects and calls from two queues, in    *)
(* any order between them (src/server.rs 136-225, here as far as the example *)
(* meets it).                                                                *)
EXTENDS Naturals, FiniteSets, SequencesExt, FiniteSetsExt, Functions

CONSTANTS
    Conns,      \* connections, each with the session made for it
    MaxID,      \* the largest SessionID: 255 in a u8
    Rooms,      \* what a user may name in /join
    MaxTexts    \* bound: the texts that a session handles

DefaultRoom == "main"

SessionID == 0..MaxID
RoomNames == Rooms \cup {DefaultRoom}

ASSUME ChatAssumption == MaxID \in Nat /\ MaxTexts \in Nat

Messages == [type : {"Join", "Send"}, id : SessionID, room : RoomNames]

VARIABLES
    sessions,     \* ChatServer.sessions: the session behind an id
    rooms,        \* ChatServer.rooms
    actor,        \* "running", or what it panicked at
    disconnects,  \* the queue of ended sessions' ids
    calls,        \* the queue of calls
    life,         \* of each session: "new", "running", "ended" or "reported"
    id,           \* SessionActor.id
    room,         \* SessionActor.room
    texts         \* how many texts it has handled

vars == <<sessions, rooms, actor, disconnects, calls, life, id, room, texts>>

Panics == {"id exhausted", "session ended", "joiner unknown",
           "disconnect unknown", "room unknown", "member unknown"}

ChatTypeOK ==
    /\ DOMAIN sessions \subseteq SessionID /\ Range(sessions) \subseteq Conns
    /\ DOMAIN rooms \subseteq RoomNames /\ Range(rooms) \subseteq Seq(SessionID)
    /\ actor \in {"running"} \cup Panics
    /\ disconnects \in Seq(SessionID) /\ calls \in Seq(Messages)
    /\ life \in [Conns -> {"new", "running", "ended", "reported"}]
    /\ id \in [Conns -> SessionID] /\ room \in [Conns -> RoomNames]
    /\ texts \in [Conns -> 0..MaxTexts]

Init ==
    /\ sessions = [i \in {} |-> CHOOSE c \in Conns : TRUE]
    /\ rooms = [r \in {DefaultRoom} |-> <<>>]
    /\ actor = "running"
    /\ disconnects = <<>> /\ calls = <<>>
    /\ life = [c \in Conns |-> "new"]
    /\ id = [c \in Conns |-> 0]
    /\ room = [c \in Conns |-> DefaultRoom]
    /\ texts = [c \in Conns |-> 0]

Running == actor = "running"

Panic(what) ==
    /\ actor' = what
    /\ UNCHANGED <<sessions, rooms, life, id, room, texts>>

-----------------------------------------------------------------------------
(* Rooms.                                                                    *)
Members(r) == Range(rooms[r])

(* values_mut().find_map(...): the rooms that list an id.                    *)
RoomsOf(i) == {r \in DOMAIN rooms : i \in Members(r)}

MutWithout(s, i) == s

(* ids.remove(n), at the first position of the id.                           *)
Without(s, i) == RemoveFirst(s, i)

(* rooms with i taken out of room r, and put at the end of room q.           *)
Left(i, r) == [rooms EXCEPT ![r] = Without(@, i)]

MutMoved(i, r, q) ==
    [p \in DOMAIN rooms \cup {q} |-> IF p = q THEN <<i>> ELSE Left(i, r)[p]]

Moved(i, r, q) ==
    [p \in DOMAIN rooms \cup {q} |->
        IF p # q THEN Left(i, r)[p]
        ELSE IF q \in DOMAIN rooms THEN Append(Left(i, r)[q], i) ELSE <<i>>]

(* session.text(..).unwrap() on each: some actor may have ended.             *)
Tell(ids) ==
    IF \E i \in ids : life[sessions[i]] # "running" THEN "session ended" ELSE "running"

-----------------------------------------------------------------------------
(* on_connect.  (0..).find panics on its overflow, or in a build without     *)
(* overflow checks, when every id is taken, never returns; with the checks   *)
(* it has overflowed already when it looks at the last id.                   *)
FreeIDs == SessionID \ DOMAIN sessions

OnConnect(c) ==
    /\ Running /\ life[c] = "new" /\ FreeIDs # {}
    /\ LET i == Min(FreeIDs) IN
         /\ sessions' = [j \in DOMAIN sessions \cup {i} |-> IF j = i THEN c ELSE sessions[j]]
         /\ id' = [id EXCEPT ![c] = i]
         /\ rooms' = [rooms EXCEPT ![DefaultRoom] = Append(@, i)]
    /\ life' = [life EXCEPT ![c] = "running"]
    /\ UNCHANGED <<actor, disconnects, calls, room, texts>>

OnConnectOverflows(c) ==
    /\ Running /\ life[c] = "new"
    /\ FreeIDs \subseteq {MaxID}
    /\ Panic("id exhausted")
    /\ UNCHANGED <<disconnects, calls>>

(* on_disconnect.                                                            *)
OnDisconnect ==
    /\ Running /\ disconnects # <<>>
    /\ disconnects' = Tail(disconnects)
    /\ UNCHANGED calls
    /\ LET i == Head(disconnects) IN
         \/ /\ i \in DOMAIN sessions /\ RoomsOf(i) # {}
            /\ sessions' = [j \in DOMAIN sessions \ {i} |-> sessions[j]]
            /\ \E r \in RoomsOf(i) : rooms' = Left(i, r)
            /\ UNCHANGED <<actor, life, id, room, texts>>
         \/ /\ i \notin DOMAIN sessions \/ RoomsOf(i) = {}
            /\ Panic("disconnect unknown")

-----------------------------------------------------------------------------
(* on_call.  What it panics at, if it does.                                  *)
OnSend(m) ==
    /\ m.type = "Send"
    /\ actor' = IF m.room \notin DOMAIN rooms THEN "room unknown"
                ELSE IF ~(Members(m.room) \ {m.id} \subseteq DOMAIN sessions)
                THEN "member unknown"
                ELSE Tell(Members(m.room) \ {m.id})
    /\ UNCHANGED rooms

OnJoin(m) ==
    /\ m.type = "Join"
    /\ \/ /\ RoomsOf(m.id) = {}
          /\ actor' = "joiner unknown"
          /\ UNCHANGED rooms
       \/ \E r \in RoomsOf(m.id) :
            /\ rooms' = Moved(m.id, r, m.room)
            /\ LET ids == Range(rooms'[m.room]) IN
               actor' = IF ids \subseteq DOMAIN sessions THEN Tell(ids)
                        ELSE "member unknown"

OnCall ==
    /\ Running /\ calls # <<>>
    /\ calls' = Tail(calls)
    /\ OnSend(Head(calls)) \/ OnJoin(Head(calls))
    /\ UNCHANGED <<sessions, disconnects, life, id, room, texts>>

-----------------------------------------------------------------------------
(* Sessions.  on_text: /join, or a text for the room.  The call to a dead    *)
(* server panics, and that ends the session.                                 *)
Say(c, type, r) ==
    /\ life[c] = "running"
    /\ texts[c] < MaxTexts
    /\ texts' = [texts EXCEPT ![c] = @ + 1]
    /\ room' = [room EXCEPT ![c] = r]
    /\ IF Running
       THEN /\ calls' = Append(calls, [type |-> type, id |-> id[c], room |-> r])
            /\ UNCHANGED life
       ELSE /\ life' = [life EXCEPT ![c] = "ended"]
            /\ UNCHANGED calls
    /\ UNCHANGED <<sessions, rooms, actor, disconnects, id>>

OnText(c) == \E r \in RoomNames : Say(c, "Join", r)

OnPlainText(c) == Say(c, "Send", room[c])

(* Close, error or end of stream; also a panic, as of /join without a room.  *)
EndSession(c) ==
    /\ life[c] = "running"
    /\ life' = [life EXCEPT ![c] = "ended"]
    /\ UNCHANGED <<sessions, rooms, actor, disconnects, calls, id, room, texts>>

(* The watcher that ServerActor has spawned for the session.                 *)
Watcher(c) ==
    /\ life[c] = "ended"
    /\ life' = [life EXCEPT ![c] = "reported"]
    /\ disconnects' = IF Running THEN Append(disconnects, id[c]) ELSE disconnects
    /\ UNCHANGED <<sessions, rooms, actor, calls, id, room, texts>>

Next ==
    \/ \E c \in Conns :
         \/ OnConnect(c) \/ OnConnectOverflows(c)
         \/ OnText(c) \/ OnPlainText(c) \/ EndSession(c) \/ Watcher(c)
    \/ OnDisconnect \/ OnCall

Spec == Init /\ [][Next]_vars

-----------------------------------------------------------------------------
(* Properties.                                                               *)

(* An id that is taken is that of a session which lives, or whose disconnect *)
(* is still in the queue.                                                    *)
InUse(i) ==
    /\ id[sessions[i]] = i
    /\ life[sessions[i]] \in {"running", "ended"} \/ i \in Range(disconnects)

(* While the server runs every session in its map is listed in one room,     *)
(* once, and the rooms list no others; so a member is always found.  This    *)
(* must hold through joins and disconnects that cross (main.rs 54-55, 64-71, *)
(* 100-110).  No id leaks: the search for a free one (43) fails only while   *)
(* as many sessions live, or have ended and are about to be taken out.       *)
RoomsMatchSessions ==
    Running =>
        /\ \A i \in DOMAIN sessions : InUse(i)
        /\ \A r \in DOMAIN rooms :
             /\ IsInjective(rooms[r])
             /\ Members(r) \subseteq DOMAIN sessions
        /\ \A i \in DOMAIN sessions : Cardinality(RoomsOf(i)) = 1

(* The assertions that the program may rely on: a session that is reported   *)
(* is in the map and in a room, the room of a text exists, its members are   *)
(* in the map (main.rs 64, 70, 81, 84, 115, 117).  The other three panics    *)
(* happen: a join may be handled after its sender's disconnect (104), a text *)
(* may be for a session that has ended (96, 122), and ids may run out (43).  *)
AssertionsHold ==
    actor \notin {"disconnect unknown", "room unknown", "member unknown"}

=============================================================================
