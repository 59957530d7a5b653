------------------------------ MODULE I3Client ------------------------------
(***************************************************************************)
(* The Intermud3 client of src/net/i3_client.c: a thread that keeps a      *)
(* connection to a gateway, and the game loop of src/comm.c, which shares  *)
(* with it a connection state and two bounded queues, each under a mutex,  *)
(* and a pipe that wakes the loop when it sleeps without connections.      *)
(*                                                                         *)
(* One critical section, or one system call, is one step.  The gateway is  *)
(* external: it welcomes a connection, accepts or refuses its key, sends   *)
(* what other games say, and may close at any time.  What it sends is      *)
(* numbered, so that order can be stated; a message is received whole or   *)
(* not at all, and the receive buffer is counted in messages.  Commands    *)
(* are alike, so their queue is its length.                                *)
(***************************************************************************)
EXTENDS Naturals, SequencesExt

CONSTANTS
  MaxQueue,     \* max_queue_size, of either queue
  MaxSessions,  \* bounds the connections the gateway accepts
  MaxEvents,    \* bounds what the gateway sends
  Risks         \* the risky situations that may come up

\* shutdown: the game goes down during a handshake.  admin: i3admin reconnect.
\* reading: it empties the receive buffer while the thread reads it.
AllRisks == {"shutdown", "admin", "reading"}

ASSUME I3Assumption ==
  /\ MaxQueue \in Nat \ {0}
  /\ MaxSessions \in Nat \ {0}
  /\ MaxEvents \in Nat
  /\ Risks \subseteq AllRisks

VARIABLES
  state,      \* i3_client->state
  authed,     \* authenticated
  synced,     \* last_presence_sync is not 0
  sock,       \* socket_fd, as the number of the session; 0 is -1
  open,       \* the sessions whose descriptor is open
  calls,      \* the sessions accepted so far
  gw,         \* the gateway's view of the session of sock
  wire,       \* what it has sent on it that was not received yet
  sent,       \* the number of the last thing it sent
  pc,         \* where the client's thread is
  inbox,      \* received, not parsed yet
  received,   \* receive_length, in messages
  consumed,   \* the local variable of i3_process_input, in messages
  cmds,       \* command_queue_size
  evts,       \* the event queue
  wake,       \* the wake pipe holds a byte
  main,       \* where the game loop is
  players,    \* descriptor_list is not empty
  heard,      \* the number of the last thing delivered to players
  came        \* the risky situations that have come up

shared == <<state, authed, synced, sock, open>>
gateway == <<calls, gw, wire, sent>>
buffer == <<inbox, received, consumed>>
thread == <<pc, buffer>>
queues == <<cmds, evts, wake>>
loop == <<main, players, heard, came>>
vars == <<shared, gateway, thread, queues, loop>>

None == 0
Sessions == 1 .. MaxSessions
Events == 1 .. MaxEvents

\* The two messages of the handshake, beside the numbered ones.
Welcome == 0
Authenticated == MaxEvents + 1
Messages == 0 .. MaxEvents + 1
States == {"DISCONNECTED", "CONNECTING", "AUTHENTICATING", "CONNECTED", "SHUTDOWN"}
ThreadPlaces == {"dial", "connect", "top", "nap", "recv", "parse", "signal", "done",
                 "crashed"}
MainPlaces == {"run", "asleep", "drain", "pop", "sync", "publish", "reset", "redial",
               "redialing", "joining", "over", "crashed"}

Init ==
  /\ state = "DISCONNECTED" /\ authed = FALSE /\ synced = FALSE
  /\ sock = None /\ open = {}
  /\ calls = 0 /\ gw = "closed" /\ wire = <<>> /\ sent = 0
  /\ pc = "dial" /\ inbox = <<>> /\ received = 0 /\ consumed = 0
  /\ cmds = 0 /\ evts = <<>> /\ wake = FALSE
  /\ main = "run" /\ players = FALSE /\ heard = 0 /\ came = {}

-----------------------------------------------------------------------------
(* Connecting and disconnecting, by either thread.                         *)

\* The first critical section of i3_connect: whatever the state was.
Dial == state' = "CONNECTING"

\* The rest of i3_connect, once connect() has returned.
Dialled ==
  \/ /\ calls < MaxSessions
     /\ calls' = calls + 1
     /\ sock' = calls'
     /\ open' = open \cup {sock'}
     /\ gw' = "welcomed"
     /\ wire' = <<Welcome>>
     /\ UNCHANGED state
  \/ /\ sock' = None
     /\ gw' = "closed"
     /\ wire' = <<>>
     /\ state' = "DISCONNECTED"
     /\ UNCHANGED <<calls, open>>

StateAfterClose == IF state = "SHUTDOWN" THEN state ELSE "DISCONNECTED"

\* Mutant: the descriptor is forgotten, not closed.
StillOpen == open

OpenAfterClose == open \ {sock}

\* The descriptor and the state; what was on its way is lost.
Closed ==
  /\ open' = OpenAfterClose
  /\ gw' = "closed"
  /\ wire' = <<>>
  /\ sock' = None
  /\ state' = StateAfterClose
  /\ authed' = FALSE

\* i3_disconnect, by the thread.
Disconnect == Closed /\ received' = 0

\* The peer of the socket is there and has not closed.
Reachable == sock # None /\ gw # "closed"

-----------------------------------------------------------------------------
(* The client's thread.                                                    *)

\* i3_client_thread's first call of i3_connect, and i3_reconnect.
ThreadDial ==
  /\ pc = "dial"
  /\ Dial
  /\ pc' = "connect"
  /\ UNCHANGED <<authed, synced, sock, open, gateway, buffer, queues, loop>>

ThreadConnect ==
  /\ pc = "connect"
  /\ Dialled
  /\ pc' = "top"
  /\ UNCHANGED <<authed, synced, sent, buffer, queues, loop>>

\* The head of the main loop; auto_reconnect is always on.
ThreadRest ==
  /\ pc = "top"
  /\ state = "DISCONNECTED"
  /\ pc' = "nap"
  /\ UNCHANGED <<shared, gateway, buffer, queues, loop>>

\* The head of the loop, i3_pop_command and i3_send_json.  What cannot be sent is lost
\* with the connection.
ThreadSend ==
  /\ pc = "top"
  /\ state \notin {"DISCONNECTED", "SHUTDOWN"}
  /\ pc' = "recv"
  /\ cmds' = IF cmds > 0 THEN cmds - 1 ELSE 0
  /\ \/ /\ cmds = 0 \/ Reachable
        /\ UNCHANGED <<shared, gw, wire, received>>
     \/ /\ cmds > 0
        /\ Disconnect
        /\ UNCHANGED synced
  /\ UNCHANGED <<calls, sent, inbox, consumed, evts, wake, loop>>

ThreadExit ==
  /\ pc = "top"
  /\ state = "SHUTDOWN"
  /\ Disconnect
  /\ pc' = "done"
  /\ UNCHANGED <<synced, calls, sent, inbox, consumed, queues, loop>>

\* Mutant: the delay is slept in one go.
AwakenedAnyhow == "dial"

\* After the delay, or as soon as the game goes down.
Awakened == IF state = "SHUTDOWN" THEN "top" ELSE "dial"

ThreadNap ==
  /\ pc = "nap"
  /\ pc' = Awakened
  /\ UNCHANGED <<shared, gateway, buffer, queues, loop>>

\* select and recv, and the head of i3_process_input: all that has arrived goes to the
\* buffer, behind what it has.
ThreadReceive ==
  /\ pc = "recv"
  /\ sock # None
  /\ wire # <<>>
  /\ inbox' = wire
  /\ received' = received + Len(wire)
  /\ consumed' = 0
  /\ wire' = <<>>
  /\ pc' = "parse"
  /\ UNCHANGED <<shared, calls, gw, sent, queues, loop>>

\* The gateway has closed the connection, select or recv fails, or the buffer has no room
\* for what was received: i3_process_input returns -1 before it parses anything.
ThreadHangup ==
  /\ pc = "recv"
  /\ sock # None
  /\ Disconnect
  /\ pc' = "top"
  /\ UNCHANGED <<synced, calls, sent, inbox, consumed, queues, loop>>

\* No socket, or the select timed out.
ThreadQuiet ==
  /\ pc = "recv"
  /\ sock # None => wire = <<>> /\ gw # "closed"
  /\ pc' = "top"
  /\ UNCHANGED <<shared, gateway, buffer, queues, loop>>

\* No line is left of receive_length.  After a reset at the start these may be lost.
ThreadParsed ==
  /\ pc = "parse"
  /\ received = consumed
  /\ inbox' = <<>>
  /\ received' = 0
  /\ consumed' = 0
  /\ pc' = "top"
  /\ UNCHANGED <<shared, gateway, queues, loop>>

\* What is left is a message without an end that fills the buffer.
ThreadRejects ==
  /\ pc = "parse"
  /\ inbox = <<>>
  /\ received = consumed
  /\ Disconnect
  /\ consumed' = 0
  /\ pc' = "top"
  /\ UNCHANGED <<synced, calls, sent, inbox, queues, loop>>

\* The next line.  receive_length - consumed is unsigned: when the buffer was reset in
\* between, it is not 0 but beyond the end.
Parsing(m) ==
  /\ pc = "parse"
  /\ received # consumed
  /\ inbox # <<>>
  /\ Head(inbox) = m
  /\ inbox' = Tail(inbox)
  /\ consumed' = consumed + 1
  /\ UNCHANGED received

\* Bounds how far the thread reads beyond the end.
MaxRead == MaxEvents + 1

\* Undefined behaviour, beyond the end of the buffer: a line that was parsed before is
\* still there, or the memory ends and so does the game.  It ends there at the latest
\* when the rest is moved to the front.
ThreadOverruns ==
  /\ pc = "parse"
  /\ inbox = <<>>
  /\ received < consumed
  /\ \/ /\ consumed < MaxRead
        /\ \E e \in (ToSet(evts) \cup {heard}) \ {None} : inbox' = <<e>>
        /\ UNCHANGED <<pc, main>>
     \/ /\ pc' = "crashed"
        /\ main' = "crashed"
        /\ UNCHANGED inbox
  /\ UNCHANGED <<shared, gateway, received, consumed, queues, players, heard, came>>

\* i3_authenticate; the result of the send decides, the state is not looked at.
ThreadWelcome ==
  /\ Parsing(Welcome)
  /\ \/ /\ Reachable
        /\ gw' = "asked"
        /\ state' = "AUTHENTICATING"
     \/ UNCHANGED <<gw, state>>
  /\ UNCHANGED <<pc, authed, synced, sock, open, calls, wire, sent, queues, loop>>

\* i3_queue_command
Queued(n) == IF cmds + n <= MaxQueue THEN cmds + n ELSE MaxQueue

\* The session is established: i3_request_mudlist and i3_list_channels are queued.
ThreadAuthenticated ==
  /\ Parsing(Authenticated)
  /\ state' = "CONNECTED"
  /\ authed' = TRUE
  /\ synced' = FALSE
  /\ cmds' = Queued(2)
  /\ UNCHANGED <<pc, sock, open, gateway, evts, wake, main, players, heard, came>>

\* Mutant: events are pushed on the front of the queue.
AtFront(e) == <<e>> \o evts

AtTail(e) == Append(evts, e)

\* i3_queue_event under its mutex: a full queue drops the event.
ThreadEvent ==
  \E e \in Events :
    /\ Parsing(e)
    /\ \/ /\ Len(evts) >= MaxQueue
          /\ UNCHANGED <<pc, evts>>
       \/ /\ Len(evts) < MaxQueue
          /\ evts' = AtTail(e)
          /\ pc' = "signal"
    /\ UNCHANGED <<shared, gateway, cmds, wake, loop>>

\* Mutant: there is no pipe.
WakeWithout == wake

WakeWritten == TRUE

\* The rest of i3_queue_event: the byte, after the unlock.
ThreadSignal ==
  /\ pc = "signal"
  /\ wake' = WakeWritten
  /\ pc' = "parse"
  /\ UNCHANGED <<shared, gateway, buffer, cmds, evts, loop>>

ThreadStep ==
  \/ ThreadDial \/ ThreadConnect \/ ThreadRest \/ ThreadExit \/ ThreadNap
  \/ ThreadSend \/ ThreadReceive \/ ThreadHangup \/ ThreadQuiet
  \/ ThreadParsed \/ ThreadRejects \/ ThreadOverruns
  \/ ThreadWelcome \/ ThreadAuthenticated \/ ThreadEvent \/ ThreadSignal

-----------------------------------------------------------------------------
(* The gateway.                                                            *)

Answered(answer) ==
  /\ wire' = Append(wire, answer)
  /\ UNCHANGED <<shared, calls, thread, queues, loop>>

GatewayAccept ==
  /\ gw = "asked"
  /\ gw' = "accepted"
  /\ Answered(Authenticated)
  /\ UNCHANGED sent

\* The key is refused: an error, which the client hands to the players as an event.
GatewayRefuse ==
  /\ gw = "asked"
  /\ sent < MaxEvents
  /\ gw' = "refused"
  /\ sent' = sent + 1
  /\ Answered(sent')

GatewayEvent ==
  /\ gw = "accepted"
  /\ sent < MaxEvents
  /\ sent' = sent + 1
  /\ Answered(sent')
  /\ UNCHANGED gw

\* The end of what is on its way may be lost.
GatewayClose ==
  /\ gw # "closed"
  /\ gw' = "closed"
  /\ \E n \in 0 .. Len(wire) : wire' = SubSeq(wire, 1, n)
  /\ UNCHANGED <<shared, calls, sent, thread, queues, loop>>

-----------------------------------------------------------------------------
(* The game loop.                                                          *)

\* A connection arrives: the select of the sleeping loop returns.
Arrive ==
  /\ main = "asleep"
  /\ players' = TRUE
  /\ main' = "run"
  /\ UNCHANGED <<shared, gateway, thread, queues, heard, came>>

\* The last connection is gone, and the loop is back at its top.
Sleep ==
  /\ main = "run"
  /\ players' = FALSE
  /\ main' = "asleep"
  /\ UNCHANGED <<shared, gateway, thread, queues, heard, came>>

\* The pipe is readable: i3_process_events, and one turn of the loop.
WakeUp ==
  /\ main = "asleep"
  /\ wake
  /\ main' = "drain"
  /\ UNCHANGED <<shared, gateway, thread, queues, players, heard, came>>

\* Once a second: i3_process_events, then i3_sync_presence.
Heartbeat ==
  /\ main = "run"
  /\ main' = "drain"
  /\ UNCHANGED <<shared, gateway, thread, queues, players, heard, came>>

\* The loop goes on, or sleeps again when nobody is there.
Onward == IF players THEN "run" ELSE "asleep"

Drain ==
  /\ main = "drain"
  /\ wake' = FALSE
  /\ main' = "pop"
  /\ UNCHANGED <<shared, gateway, thread, cmds, evts, players, heard, came>>

\* i3_pop_event and the delivery of what it returns.
Deliver ==
  /\ main = "pop"
  /\ evts # <<>>
  /\ evts' = Tail(evts)
  /\ heard' = Head(evts)
  /\ UNCHANGED <<shared, gateway, thread, cmds, wake, main, players, came>>

\* The turn of a loop that was asleep may fall on a second, or not.
Delivered ==
  /\ main = "pop"
  /\ evts = <<>>
  /\ main' \in (IF players THEN {"sync"} ELSE {"sync", "asleep"})
  /\ UNCHANGED <<shared, gateway, thread, queues, players, heard, came>>

Ready == state = "CONNECTED" /\ authed

\* i3_sync_presence under the mutex.  Whether I3_PRESENCE_INTERVAL has passed since the
\* last time is left open; a new session does not wait for it.
Sync ==
  /\ main = "sync"
  /\ \/ /\ Ready
        /\ main' = "publish"
        /\ synced' = TRUE
     \/ /\ Ready => synced
        /\ main' = Onward
        /\ UNCHANGED synced
  /\ UNCHANGED <<state, authed, sock, open, gateway, thread, queues, players, heard, came>>

\* The rest of it: the list goes to the command queue.
Publish ==
  /\ main = "publish"
  /\ cmds' = Queued(1)
  /\ main' = Onward
  /\ UNCHANGED <<shared, gateway, thread, evts, wake, players, heard, came>>

\* A player's command: i3_is_connected, then i3_queue_command.
Tell ==
  /\ main = "run"
  /\ state = "CONNECTED"
  /\ cmds' = Queued(1)
  /\ UNCHANGED <<shared, gateway, thread, evts, wake, loop>>

\* i3admin reconnect, on the game loop: i3_disconnect, whose last line resets the buffer
\* outside the mutex, and i3_connect.
AdminReconnect ==
  /\ main = "run"
  /\ "admin" \in Risks \ came  \* once
  /\ Closed
  /\ main' = "reset"
  /\ came' = came \cup {"admin"}
  /\ UNCHANGED <<synced, calls, sent, thread, queues, players, heard>>

AdminReset ==
  /\ main = "reset"
  /\ consumed = 0 \/ "reading" \in Risks
  /\ received' = 0
  /\ main' = "redial"
  /\ came' = came \cup (IF consumed = 0 THEN {} ELSE {"reading"})
  /\ UNCHANGED <<shared, gateway, pc, inbox, consumed, queues, players, heard>>

AdminDial ==
  /\ main = "redial"
  /\ Dial
  /\ main' = "redialing"
  /\ UNCHANGED <<authed, synced, sock, open, gateway, thread, queues, players, heard, came>>

AdminConnect ==
  /\ main = "redialing"
  /\ Dialled
  /\ main' = "run"
  /\ UNCHANGED <<authed, synced, sent, thread, queues, players, heard, came>>

\* The thread reads the state before it next writes it.
Settled == pc \in {"top", "nap"} \/ state = "CONNECTED"

\* i3_shutdown tells the thread to end ...
Shutdown ==
  /\ main \in {"run", "asleep"}
  /\ Settled \/ "shutdown" \in Risks
  /\ state' = "SHUTDOWN"
  /\ main' = "joining"
  /\ came' = came \cup (IF Settled THEN {} ELSE {"shutdown"})
  /\ UNCHANGED <<authed, synced, sock, open, gateway, thread, queues, players, heard>>

\* ... joins it, and frees the queues and the client.
Joined ==
  /\ main = "joining"
  /\ pc = "done"
  /\ main' = "over"
  /\ cmds' = 0
  /\ evts' = <<>>
  /\ wake' = FALSE
  /\ UNCHANGED <<shared, gateway, thread, players, heard, came>>

LoopStep ==
  \/ WakeUp \/ Drain \/ Deliver \/ Delivered \/ Sync \/ Publish
  \/ AdminReset \/ AdminDial \/ AdminConnect \/ Joined

-----------------------------------------------------------------------------
Next ==
  \/ ThreadStep
  \/ LoopStep
  \/ Arrive \/ Sleep \/ Heartbeat
  \/ Tell \/ AdminReconnect \/ Shutdown
  \/ GatewayAccept \/ GatewayRefuse \/ GatewayEvent \/ GatewayClose

Spec == Init /\ [][Next]_vars

\* The operating system schedules both threads; the loop beats every second however
\* busy the players keep it, until it sleeps.
FairSpec ==
  /\ Spec
  /\ WF_vars(ThreadStep)
  /\ WF_vars(LoopStep)
  /\ SF_vars(Heartbeat)

-----------------------------------------------------------------------------
(* Properties.                                                             *)

TypeOK ==
  /\ state \in States /\ authed \in BOOLEAN /\ synced \in BOOLEAN
  /\ sock \in Sessions \cup {None} /\ open \subseteq Sessions
  /\ gw \in {"welcomed", "asked", "accepted", "refused", "closed"}
  /\ calls \in 0 .. MaxSessions
  /\ wire \in Seq(Messages) /\ sent \in 0 .. MaxEvents
  /\ pc \in ThreadPlaces /\ inbox \in Seq(Messages) /\ received \in Nat /\ consumed \in Nat
  /\ cmds \in 0 .. MaxQueue
  /\ evts \in Seq(Events) /\ Len(evts) <= MaxQueue
  /\ wake \in BOOLEAN
  /\ main \in MainPlaces /\ players \in BOOLEAN
  /\ heard \in 0 .. MaxEvents /\ came \subseteq Risks

\* What the gateway said is heard in its order and once, whatever is dropped by a full
\* queue or lost with a connection, and with the two threads at any point: the event
\* heard last, those queued, and those received and sent before they are queued.
InOrder ==
  LET all == evts \o inbox \o wire
  IN  \A i \in 1 .. Len(all) : all[i] \in Events =>
        /\ heard < all[i]
        /\ \A j \in i + 1 .. Len(all) : all[j] \in Events => all[i] < all[j]

\* A reconnection by hand keeps the order, unless it empties the receive buffer between
\* two lines that i3_process_input parses.
HeardInOrder == TypeOK /\ ("reading" \notin came => InOrder)

\* Unless an administrator has reconnected by hand: one descriptor at most is open, the
\* one in use; the game believes it is connected only on a session that asked with its
\* key after the welcome; and what it believes ends with the session.
SessionSound ==
  "admin" \notin came =>
    /\ open = {sock} \ {None}
    /\ state = "CONNECTED" => authed /\ sock # None /\ gw \in {"accepted", "closed"}
    /\ authed => state \in {"CONNECTED", "SHUTDOWN"}

\* A new session hears who is playing while anybody plays and the session lasts.
PresenceAnnounced ==
  (state = "CONNECTED" /\ ~synced /\ players)
    ~> (main \in {"publish", "joining", "crashed"} \/ state # "CONNECTED" \/ ~players)

\* Every event the client queues is handed to the players, with the loop asleep or not,
\* unless the game goes down or crashes; and presence is announced.
EventsDelivered ==
  /\ \A e \in Events :
       (\E i \in 1 .. Len(evts) : evts[i] = e)
         ~> (heard >= e \/ main \in {"joining", "over", "crashed"})
  /\ PresenceAnnounced

\* i3_shutdown returns, unless it met a handshake or a reconnection by hand.
ShutdownEnds == (main = "joining" /\ came = {}) ~> (main = "over")

\* What the documentation promises, "Proper cleanup on shutdown": i3_shutdown returns.
ShutdownCompletes == (main = "joining") ~> (main = "over")
=============================================================================
