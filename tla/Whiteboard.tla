----------------------------- MODULE Whiteboard -----------------------------
(***************************************************************************)
(* The whiteboard websocket of internal/handlers/                          *)
(* socket_whiteboard_handler.go: SocketHub, with whiteboards for           *)
(* conversations, connections that any authenticated user gets, frames     *)
(* that are published without a trace in the database, and a shutdown that *)
(* starts when the chat's is over and a second signal has come. The hub's  *)
(* steps are grouped here by the function of this handler they belong to.  *)
(***************************************************************************)
EXTENDS SocketHub

CONSTANT MaxEvents    \* bound: events published

ASSUME MaxEventsAssumption == MaxEvents \in Nat

vars == socketVars

Event == [conv : Conv]

Init == SocketInit

-----------------------------------------------------------------------------
\* Neither that the whiteboard exists nor that the user belongs to it is checked.
HandleConnection(c) == Upgrade(c)

HandleWhiteboardAndClient(c) == HandleConversationAndClient(c) \/ LogConversations(c)

\* An update goes to the whiteboard its payload names, whichever it is; when Redis
\* refuses it, nothing changes.
HandleUpdateWhiteboardEvent(c, b) ==
    /\ Len(log) < MaxEvents
    /\ pc[c] = "reading"
    /\ log' = Append(log, [conv |-> b])
    /\ UNCHANGED <<hub, mu, pc, sockets, consumer, main>>

HandleIncomingWhiteboardEvent(c) ==
    \/ \E b \in Conv : HandleUpdateWhiteboardEvent(c, b)
    \/ ReadFails(c)

DeleteDisconnectedClientFromWhiteboard(c) == CloseHandler(c) \/ DeleteAfterRead(c)

Subscribe == SubscribeToChannel \/ SubscribeFails

\* One event at a time, from the lock to the deferred unlock.
Send ==
    \/ SendMessageToClient
    \/ WriteJSON
    \/ FinishSend
    \/ WriteToClosedSocket
    \/ WriteToGoneClient

(***************************************************************************)
(* Main: the chat's WaitForShutdown takes the first signal and ends the    *)
(* HTTP server (log.Fatalf when that fails); this handler's waits for      *)
(* another one, and takes none that came before the chat's returned.       *)
(***************************************************************************)
ChatShutdown ==
    /\ main = "serving"
    /\ main' \in {"waiting", "crashed"}
    /\ UNCHANGED <<hub, mu, pc, sockets, log, consumer>>

SecondSignal ==
    /\ main = "waiting"
    /\ main' = "locking"
    /\ UNCHANGED <<hub, mu, pc, sockets, log, consumer>>

CloseAll == LockHub \/ (\E k \in Conv : CloseConversation(k)) \/ UnlockHub

-----------------------------------------------------------------------------
Goroutine(c) ==
    \/ HandleWhiteboardAndClient(c)
    \/ DeleteDisconnectedClientFromWhiteboard(c)
    \/ CloseSocket(c)

Next ==
    /\ Alive
    /\ \/ \E c \in Conn :
            \/ HandleConnection(c)
            \/ Goroutine(c)
            \/ HandleIncomingWhiteboardEvent(c)
            \/ ClientStep(c)
       \/ Subscribe
       \/ Send
       \/ LoseEvent
       \/ ConcurrentMapAccess
       \/ ChatShutdown
       \/ SecondSignal
       \/ CloseAll
       \/ Exit

Spec == Init /\ [][Next]_vars

\* As in ChatSocket; and main, once past both shutdowns, returns.
Fairness ==
    /\ \A c \in Conn :
          /\ WF_vars(Alive /\ Goroutine(c))
          /\ SF_vars(Alive /\ ReadFails(c))
    /\ WF_vars(Alive /\ (Subscribe \/ Send))
    /\ WF_vars(Alive /\ (CloseAll \/ Exit))

FairSpec == Spec /\ Fairness
=============================================================================
