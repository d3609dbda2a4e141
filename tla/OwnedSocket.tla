---------------------------- MODULE OwnedSocket ----------------------------
(* What a Socket promises whoever owns it, with none of the tasks and        *)
(* channels that keep the promise: messages leave in order while the sink is *)
(* open; when it closes at most the next one is known to have failed, and    *)
(* the others fail later, once the owner has let go of its Sink; the sink    *)
(* closes by itself after a failed send only, or after the end of the        *)
(* stream.                                                                   *)
EXTENDS Sequences

CONSTANT Messages

VARIABLES
    queue,        \* messages still to be sent, as long as the sink is open
    signal,       \* MessageStatus of each message of the owner
    open,         \* the sink takes messages
    result,       \* how the sink ended: "ok", "failed", or "none" so far
    sink_held,    \* the owner holds a Sink
    stream_held,  \* the owner holds the Stream
    items,        \* what the Stream holds for its owner
    over,         \* the Stream ends behind them
    told          \* await_sink_close has returned that result

sinkVars == <<queue, signal, open>>
heldVars == <<sink_held, stream_held>>
ownerVars == <<result, items, over, told>>
vars == <<sinkVars, heldVars, ownerVars>>

Init ==
    /\ queue = <<>>
    /\ signal = [m \in Messages |-> "none"]
    /\ open = TRUE
    /\ result = "none"
    /\ sink_held = TRUE
    /\ stream_held = TRUE
    /\ items = <<>>
    /\ over = FALSE
    /\ told = FALSE

Held == sink_held \/ stream_held

Sending == {m \in Messages : signal[m] = "Sending"}

Fails(lost) ==
    signal' = [m \in Messages |-> IF m \in lost THEN "Failed" ELSE signal[m]]

-----------------------------------------------------------------------------
(* The owner.                                                                *)

(* It lets go of one half, of both or of none, and of what goes with them.   *)
LetGo ==
    /\ sink_held' \in {sink_held, FALSE}
    /\ stream_held' \in {stream_held, FALSE}
    /\ items' = IF stream_held' THEN items ELSE <<>>
    /\ result' = IF sink_held' \/ stream_held' THEN result ELSE "none"
    /\ over' = (over /\ (sink_held' \/ stream_held'))
    /\ told' = (told /\ sink_held' /\ stream_held')

(* A closed sink refuses the message.  An owner that leaves with its last    *)
(* message drops the socket in the same breath.                              *)
Submit(m) ==
    /\ sink_held
    /\ signal[m] = "none"
    /\ IF open
       THEN /\ queue' = Append(queue, m)
            /\ signal' = [signal EXCEPT ![m] = "Sending"]
       ELSE /\ signal' = [signal EXCEPT ![m] = "Failed"]
            /\ UNCHANGED queue
    /\ LetGo
    /\ UNCHANGED open

(* Without an owner's Sink a closed sink may drop what it held.              *)
Leave ==
    /\ LetGo
    /\ \/ UNCHANGED signal
       \/ ~open /\ ~sink_held' /\ Fails(Sending)
    /\ UNCHANGED <<queue, open>>

Take ==
    /\ stream_held
    /\ items # <<>>
    /\ items' = Tail(items)
    /\ UNCHANGED <<sinkVars, heldVars, result, over, told>>

(* await_sink_close of the whole socket returns when everything is over.     *)
Tell ==
    /\ sink_held /\ stream_held
    /\ over /\ ~open
    /\ told' = TRUE
    /\ UNCHANGED <<sinkVars, heldVars, result, items, over>>

-----------------------------------------------------------------------------
(* The socket.                                                               *)

Deliver ==
    /\ open
    /\ queue # <<>>
    /\ queue' = Tail(queue)
    /\ signal' = [signal EXCEPT ![Head(queue)] = "Sent"]
    /\ UNCHANGED <<open, heldVars, ownerVars>>

(* The sink closes.  A failed send may be one of a frame of the socket's own.*)
Stop(res) ==
    /\ open
    /\ open' = FALSE
    /\ queue' = <<>>
    /\ res = "ok" /\ sink_held => over
    /\ \/ UNCHANGED signal
       \/ res = "failed" /\ queue # <<>> /\ Fails({Head(queue)})
       \/ ~sink_held /\ Fails(Sending)
    /\ result' = IF Held THEN res ELSE result
    /\ UNCHANGED <<heldVars, items, over, told>>

DropRest ==
    /\ ~open
    /\ ~sink_held
    /\ Fails(Sending)
    /\ UNCHANGED <<queue, open, heldVars, ownerVars>>

Yield(item) ==
    /\ stream_held
    /\ ~over
    /\ items' = Append(items, item)
    /\ UNCHANGED <<sinkVars, heldVars, result, over, told>>

End ==
    /\ Held
    /\ ~over
    /\ over' = TRUE
    /\ UNCHANGED <<sinkVars, heldVars, result, items, told>>

-----------------------------------------------------------------------------
OwnerStep == (\E m \in Messages : Submit(m)) \/ Leave \/ Take \/ Tell

SocketStep ==
    \/ Deliver \/ DropRest \/ End
    \/ \E res \in {"ok", "failed"} : Stop(res)
    \/ \E item \in {"data", "close", "error"} : Yield(item)

Next == OwnerStep \/ SocketStep

Spec == Init /\ [][Next]_vars

-----------------------------------------------------------------------------
(* A socket that has told its owner how it ended is closed, its stream is    *)
(* over and the answer is a real one; one that is closed with "ok" under a   *)
(* Sink that is still held has reached the end of its stream.                *)
OwnerInformed ==
    /\ told => ~open /\ over /\ result # "none"
    /\ sink_held => (result = "none" <=> open)
    /\ sink_held /\ result = "ok" => over

=============================================================================
