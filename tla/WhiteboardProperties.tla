------------------------ MODULE WhiteboardProperties ------------------------
(***************************************************************************)
(* What is claimed of Whiteboard, besides what SocketHubProperties says of *)
(* the machinery.                                                          *)
(***************************************************************************)
EXTENDS Whiteboard, SocketHubProperties

\* Every variable stays in the set the code's types and control points allow.
TypeOK == SocketTypeOK /\ log \in Seq(Event)

\* Anybody may join any whiteboard.
Listener == Conn

Distribution == INSTANCE Fanout

\* The handler implements an ordered, duplicate-free broadcast to whoever joined
\* a whiteboard, whichever connection sent the update (send).
ImplementsFanout == Distribution!Spec

\* When the walk that closes all sockets is completed, it has reached every user
\* with one connection to a whiteboard: the socket is closed, or its goroutine
\* had not registered it yet (then it outlives the walk), or had deleted it.
CompletedShutdownClosed ==
    [][main = "draining" /\ main' = "drained" =>
        \A c \in Conn :
            Lone(c) /\ pc[c] \in {"logging", "reading", "closeHandler"} => c \in closed]_vars

\* The second signal ends the process, however busy the whiteboards are, unless
\* the consumer waits for the mutex it holds or for a client that does not read.
SecondSignalExits == (main = "locking") ~> (ConsumerHeld \/ main = "exited")
=============================================================================
