----------------------------- MODULE SocketHub -----------------------------
(***************************************************************************)
(* What the chat's and the whiteboard's websocket handlers have in common: *)
(* socket_whiteboard_handler.go repeats socket_chat_handler.go line by     *)
(* line, but for who is admitted and what a frame does. ChatSocket and     *)
(* Whiteboard extend this module with that; names and lines are the        *)
(* chat's, and a "conversation" is a whiteboard there.                     *)
(*                                                                         *)
(* Three kinds of goroutine share the hub under one mutex:                 *)
(*   - one per connection: it registers its socket, reads frames, and      *)
(*     deletes a hub entry when its client goes away;                      *)
(*   - the Redis consumer: it writes each event to every socket of the     *)
(*     event's conversation, holding the mutex;                            *)
(*   - main: after a signal it closes all sockets, holding the mutex.      *)
(* Clients come, fall silent and leave whenever they like.                 *)
(***************************************************************************)
EXTENDS Hub, FiniteSets

CONSTANTS
    Ways,       \* the ways in which clients leave
    Slow        \* the connections whose client may stop reading its socket

ASSUME WaysAssumption == Ways \subseteq {"listed", "unlisted", "eof", "reset"}
ASSUME SlowAssumption == Slow \subseteq Conn

VARIABLES
    hub,      \* the registry of connections
    mu,       \* its mutex: "free", or held by "redis" (the consumer) or "main"
    pc,       \* where the goroutine of each connection is
    peer,     \* what the client's end of the socket is doing
    closed,   \* the connections whose socket the server has closed
    sent,     \* sent[c]: positions in log of the events written to socket c
    log,      \* every event published on the handler's Redis channel, in order
    head,     \* how many of them the consumer is done with
    rpc,      \* where the consumer is
    ri,       \* its position in the slice it ranges over
    main      \* where main is, or "crashed" when the process died

consumer == <<head, rpc, ri>>
sockets == <<peer, closed, sent>>
socketVars == <<hub, mu, pc, sockets, log, consumer, main>>

\* A client leaves with a close frame whose code the read loop lists (1000, 1005) or
\* does not (1001 and others), with a bare end of file (gorilla's 1006), or so
\* that the read sees a network error.
Departures == {"listed", "unlisted", "eof", "reset"}
Gone(c) == peer[c] \in Departures

Goto(c, from, to) == pc[c] = from /\ pc' = [pc EXCEPT ![c] = to]

SocketInit ==
    /\ hub = EmptyHub
    /\ mu = "free"
    /\ pc = [c \in Conn |-> "none"]
    /\ peer = [c \in Conn |-> "here"]
    /\ closed = {}
    /\ sent = [c \in Conn |-> << >>]
    /\ log = << >>
    /\ head = 0
    /\ rpc = "starting"
    /\ ri = 1
    /\ main = "serving"

(***************************************************************************)
(* The goroutine of a connection                                           *)
(***************************************************************************)

\* The upgrade, after which the close handler is set.
Upgrade(c) ==
    /\ main = "serving"
    /\ Goto(c, "none", "upgraded")
    /\ UNCHANGED <<hub, mu, sockets, log, consumer, main>>

\* Mutant: the mutex is not taken.
RegisterUnlocked(c) ==
    /\ Goto(c, "upgraded", "logging")
    /\ hub' = Register(hub, ConvOf[c], c)
    /\ UNCHANGED <<mu, sockets, log, consumer, main>>

HandleConversationAndClient(c) ==
    /\ mu = "free"
    /\ Goto(c, "upgraded", "logging")
    /\ hub' = Register(hub, ConvOf[c], c)
    /\ UNCHANGED <<mu, sockets, log, consumer, main>>

\* logConversations ranges over the map after the mutex was released.
LogConversations(c) ==
    /\ Goto(c, "logging", "reading")
    /\ UNCHANGED <<hub, mu, sockets, log, consumer, main>>

DeleteDisconnectedClient(c) ==
    /\ mu = "free"
    /\ hub' = Unregister(hub, ConvOf[c], UserOf[c])
    /\ UNCHANGED <<mu, sockets, log, consumer, main>>

\* Mutant: a network error is read again for ever.
ReadResetForever(c) ==
    /\ \/ peer[c] \in {"listed", "unlisted"} /\ Goto(c, "reading", "closeHandler")
       \/ peer[c] = "eof" /\ Goto(c, "reading", "loopDelete")
    /\ UNCHANGED <<hub, mu, sockets, log, consumer, main>>

\* The read fails because the client is gone. A close frame first runs the close
\* handler; without one, the loop itself decides.
ReadClose(c) ==
    /\ \/ peer[c] \in {"listed", "unlisted"} /\ Goto(c, "reading", "closeHandler")
       \/ peer[c] = "eof" /\ Goto(c, "reading", "loopDelete")
       \/ peer[c] = "reset" /\ Goto(c, "reading", "closing")
    /\ UNCHANGED <<hub, mu, sockets, log, consumer, main>>

\* Mutant: no close handler is set.
NoCloseHandler(c) ==
    /\ Goto(c, "closeHandler", IF peer[c] = "listed" THEN "loopDelete" ELSE "closing")
    /\ UNCHANGED <<hub, mu, sockets, log, consumer, main>>

\* After the handler, a listed code makes the loop delete the user again; any
\* other is read again until gorilla panics, gin recovers and the defer runs.
CloseHandler(c) ==
    /\ Goto(c, "closeHandler", IF peer[c] = "listed" THEN "loopDelete" ELSE "closing")
    /\ DeleteDisconnectedClient(c)

DeleteAfterRead(c) == Goto(c, "loopDelete", "closing") /\ DeleteDisconnectedClient(c)

\* The server closed the socket under the reader: no close error, no deletion.
ReadClosedSocket(c) ==
    /\ c \in closed
    /\ Goto(c, "reading", "closing")
    /\ UNCHANGED <<hub, mu, sockets, log, consumer, main>>

\* The deferred ws.Close().
CloseSocket(c) ==
    /\ Goto(c, "closing", "done")
    /\ closed' = closed \union {c}
    /\ UNCHANGED <<hub, mu, peer, sent, log, consumer, main>>

\* The goroutine's next step is one that assigns to or deletes from the map.
WritesMap(c) == pc[c] \in {"upgraded", "dropping", "closeHandler", "loopDelete"}

\* The Go runtime kills a process in which one goroutine ranges over a map while
\* another writes it, and it may catch LogConversations doing so.
ConcurrentMapAccess ==
    /\ \E c \in Conn :
        /\ pc[c] = "logging"
        /\ \/ mu = "free" /\ \E d \in Conn : WritesMap(d)
           \/ main = "draining"
    /\ main' = "crashed"
    /\ UNCHANGED <<hub, mu, pc, sockets, log, consumer>>

(***************************************************************************)
(* The client's end of the socket                                          *)
(***************************************************************************)

\* Before it is registered nothing can notice what a client does.
Connected(c) == pc[c] \notin {"none", "upgraded", "done"}

Leave(c) ==
    /\ Connected(c)
    /\ ~Gone(c)
    /\ \E how \in Ways : peer' = [peer EXCEPT ![c] = how]
    /\ UNCHANGED <<hub, mu, pc, closed, sent, log, consumer, main>>

StopReading(c) ==
    /\ c \in Slow
    /\ Connected(c)
    /\ peer[c] = "here"
    /\ peer' = [peer EXCEPT ![c] = "stalled"]
    /\ UNCHANGED <<hub, mu, pc, closed, sent, log, consumer, main>>

ResumeReading(c) ==
    /\ Connected(c)
    /\ peer[c] = "stalled"
    /\ peer' = [peer EXCEPT ![c] = "here"]
    /\ UNCHANGED <<hub, mu, pc, closed, sent, log, consumer, main>>

(***************************************************************************)
(* The Redis consumer                                                      *)
(***************************************************************************)

\* Mutant: the cursor starts one too far.
SubscribePastEnd ==
    /\ rpc = "starting"
    /\ rpc' = "idle"
    /\ head' = Len(log) + 1
    /\ UNCHANGED <<hub, mu, pc, sockets, log, ri, main>>

\* What was published before the subscription is not delivered.
SubscribeToChannel ==
    /\ rpc = "starting"
    /\ rpc' = "idle"
    /\ head' = Len(log)
    /\ UNCHANGED <<hub, mu, pc, sockets, log, ri, main>>

\* log.Fatalf
SubscribeFails ==
    /\ rpc = "starting"
    /\ main' = "crashed"
    /\ UNCHANGED <<hub, mu, pc, sockets, log, consumer>>

Current == log[head + 1]
Target == hub[Current.conv]

\* SendMessageToClient, up to its range over the conversation's clients.
SendMessageToClient ==
    /\ rpc = "idle"
    /\ head < Len(log)
    /\ mu = "free"
    /\ mu' = "redis"
    /\ rpc' = "sending"
    /\ ri' = 1
    /\ UNCHANGED <<hub, pc, sockets, log, head, main>>

\* Redis pub/sub drops what it cannot deliver (reconnects, a full buffer).
LoseEvent ==
    /\ rpc = "idle"
    /\ head < Len(log)
    /\ head' = head + 1
    /\ UNCHANGED <<hub, mu, pc, sockets, log, rpc, ri, main>>

\* A client that is gone may still be written to: the kernel takes the bytes.
WriteJSON ==
    /\ rpc = "sending"
    /\ ri <= Len(Target)
    /\ Target[ri] \notin closed
    /\ peer[Target[ri]] # "stalled"
    /\ sent' = [sent EXCEPT ![Target[ri]] = Append(@, head + 1)]
    /\ ri' = ri + 1
    /\ UNCHANGED <<hub, mu, pc, peer, closed, log, head, rpc, main>>

\* Mutant: the return forgets the unlock.
EndSendLocked ==
    /\ rpc' = "idle"
    /\ head' = head + 1
    /\ ri' = 1
    /\ UNCHANGED <<hub, mu, pc, sockets, log, main>>

\* Mutant: the event is not acknowledged and comes again.
EndSendAgain ==
    /\ mu' = "free"
    /\ rpc' = "idle"
    /\ ri' = 1
    /\ UNCHANGED <<hub, pc, sockets, log, head, main>>

\* The deferred unlock, reached after the last client or by the early return.
EndSend ==
    /\ mu' = "free"
    /\ rpc' = "idle"
    /\ head' = head + 1
    /\ ri' = 1
    /\ UNCHANGED <<hub, pc, sockets, log, main>>

\* Mutant: the range waits for one client more than there are.
FinishSendLate == rpc = "sending" /\ ri > Len(Target) + 1 /\ EndSend

FinishSend == rpc = "sending" /\ ri > Len(Target) /\ EndSend

\* Writing to a closed socket fails, closing it again fails, and the function
\* returns: the clients after this one do not get the event.
WriteToClosedSocket ==
    /\ rpc = "sending"
    /\ ri <= Len(Target)
    /\ Target[ri] \in closed
    /\ EndSend

\* Writing to a client that is gone fails and closing its socket succeeds; then
\* the consumer waits for the mutex it holds itself, and no action leads on.
WriteToGoneClient ==
    /\ rpc = "sending"
    /\ ri <= Len(Target)
    /\ Target[ri] \notin closed
    /\ Gone(Target[ri])
    /\ closed' = closed \union {Target[ri]}
    /\ rpc' = "relocking"
    /\ UNCHANGED <<hub, mu, pc, peer, sent, log, head, ri, main>>

(***************************************************************************)
(* WaitForShutdown                                                         *)
(***************************************************************************)

LockHub ==
    /\ main = "locking"
    /\ mu = "free"
    /\ mu' = "main"
    /\ main' = "draining"
    /\ UNCHANGED <<hub, pc, sockets, log, consumer>>

\* The clients of q that are closed when q is walked up to a socket that was
\* closed before.
ClosedBy(q) == {q[i] : i \in {j \in DOMAIN q : \A h \in 1..j : q[h] \notin closed}}

\* One conversation of the range, in the map's arbitrary order. A second Close
\* is an error, which returns with the mutex held.
CloseConversation(k) ==
    /\ main = "draining"
    /\ hub[k] # << >>
    /\ closed' = closed \union ClosedBy(hub[k])
    /\ IF ToSet(hub[k]) \intersect closed = {}
         THEN hub' = [hub EXCEPT ![k] = << >>] /\ UNCHANGED main
         ELSE main' = "aborted" /\ UNCHANGED hub
    /\ UNCHANGED <<mu, pc, peer, sent, log, consumer>>

UnlockHub ==
    /\ main = "draining"
    /\ hub = EmptyHub
    /\ mu' = "free"
    /\ main' = "drained"
    /\ UNCHANGED <<hub, pc, sockets, log, consumer>>

\* Both shutdowns have ended, and main returns.
Exit ==
    /\ main \in {"aborted", "drained"}
    /\ main' = "exited"
    /\ UNCHANGED <<hub, mu, pc, sockets, log, consumer>>

-----------------------------------------------------------------------------
ConnStep(c) ==
    \/ HandleConversationAndClient(c)
    \/ LogConversations(c)
    \/ CloseHandler(c)
    \/ DeleteAfterRead(c)
    \/ CloseSocket(c)

ReadFails(c) == ReadClose(c) \/ ReadClosedSocket(c)

ClientStep(c) == Leave(c) \/ StopReading(c) \/ ResumeReading(c)

ConsumerStep ==
    \/ SubscribeToChannel
    \/ SubscribeFails
    \/ SendMessageToClient
    \/ WriteJSON
    \/ FinishSend
    \/ WriteToClosedSocket
    \/ WriteToGoneClient

MainStep == LockHub \/ (\E k \in Conv : CloseConversation(k)) \/ UnlockHub

SocketStep ==
    \/ \E c \in Conn : ConnStep(c) \/ ReadFails(c) \/ ClientStep(c)
    \/ ConsumerStep
    \/ LoseEvent
    \/ ConcurrentMapAccess
    \/ MainStep
    \/ Exit

\* The process is alive.
Alive == main \notin {"crashed", "exited"}
=============================================================================
