--------------------------- MODULE WhiteboardProofs ---------------------------
(***************************************************************************)
(* Theorems about Whiteboard for every set of users, whiteboards and       *)
(* connections, and every kind of client.                                  *)
(***************************************************************************)
EXTENDS WhiteboardProperties, SocketHubProofs

LogType == log \in Seq(Event)

Inv == SocketInv /\ LogType

LEMMA InitInv == Init => Inv
BY InitSocketInv DEF Init, Inv, SocketInit, LogType

\* An update extends the log by one event, for a whiteboard.
LEMMA UpdateIsAside ==
    ASSUME TypeInv, LogType, NEW c \in Conn, NEW b \in Conv,
           HandleUpdateWhiteboardEvent(c, b)
    PROVE  Aside /\ LogType'
<1> DEFINE e == [conv |-> b]
<1>1. e \in Event /\ e.conv \in Conv
  BY DEF Event
<1> HIDE DEF e
<1>2. /\ log' \in Seq(Event) /\ Len(log') = Len(log) + 1
      /\ \A p \in 1..Len(log) : log'[p] = log[p]
      /\ log'[Len(log) + 1] = e
  BY <1>1, AppendProperties DEF LogType, HandleUpdateWhiteboardEvent, e
<1>3. LogGrows
  <2>1. /\ Len(log) \in Nat /\ DOMAIN log = 1..Len(log)
        /\ \A p \in DOMAIN log : log[p].conv \in Conv
    BY DEF TypeInv, SocketTypeOK
  <2>2. DOMAIN log' = 1..(Len(log) + 1)
    BY <1>2
  <2>3. ASSUME NEW p \in DOMAIN log' PROVE log'[p].conv \in Conv
    <3>1. p \in 1..Len(log) \/ p = Len(log) + 1
      BY <2>1, <2>2, <2>3
    <3> QED BY <1>1, <1>2, <2>1, <3>1
  <2> QED BY <1>2, <2>1, <2>2, <2>3 DEF LogGrows
<1> QED
  BY <1>2, <1>3 DEF Aside, LogType, TypeInv, SocketTypeOK, HandleUpdateWhiteboardEvent,
     sockets, consumer

\* Every step is one of the hub, or one of a handler that the hub allows.
LEMMA NextIsStep ==
    ASSUME TypeInv, LogType, [Next]_vars
    PROVE  Step /\ LogType'
<1> USE DEF Step, HandlerStep
<1>1. ASSUME NEW c \in Conn, NEW b \in Conv, HandleUpdateWhiteboardEvent(c, b)
      PROVE  Step /\ LogType'
  BY <1>1, UpdateIsAside
<1>2. CASE SocketStep
  <2>1. log' = log
    BY <1>2, HiddenStep DEF WriteJSON
  <2> QED BY <1>2, <2>1 DEF LogType
<1>3. ASSUME NEW c \in Conn, HandleConnection(c) PROVE Step /\ LogType'
  BY <1>3 DEF HandleConnection, Upgrade, LogType
<1>4. CASE ChatShutdown \/ SecondSignal
  <2>1. LogGrows
    BY <1>4, SameLog DEF ChatShutdown, SecondSignal
  <2>2. Aside
    BY <1>4, <2>1 DEF ChatShutdown, SecondSignal, Aside, TypeInv, SocketTypeOK, sockets,
       consumer
  <2> QED BY <1>4, <2>2 DEF ChatShutdown, SecondSignal, LogType
<1>5. CASE UNCHANGED vars
  <2>1. LogGrows
    BY <1>5, SameLog DEF vars, socketVars
  <2>2. Aside
    BY <1>5, <2>1 DEF vars, socketVars, Aside, TypeInv, SocketTypeOK, sockets, consumer
  <2> QED BY <1>5, <2>2 DEF vars, socketVars, LogType
<1> QED
  BY <1>1, <1>2, <1>3, <1>4, <1>5
     DEF Next, Goroutine, HandleIncomingWhiteboardEvent, HandleWhiteboardAndClient,
     DeleteDisconnectedClientFromWhiteboard, Subscribe, Send, CloseAll, SocketStep,
     ConnStep, ConsumerStep, MainStep

LEMMA NextInv == Inv /\ [Next]_vars => Inv'
BY NextIsStep, NextSocketInv DEF Inv, SocketInv

\* Every variable keeps its type in every behaviour.
THEOREM TypeCorrect == Spec => []TypeOK
<1>1. Inv => TypeOK
  BY DEF Inv, SocketInv, TypeInv, LogType, TypeOK
<1> QED
  BY InitInv, NextInv, <1>1, PTL DEF Spec

\* No connection is ever entered twice or under a whiteboard it did not join, and
\* each socket is written its whiteboard's updates in order and at most once.
THEOREM HubCorrect == Spec => [](HubSound /\ MutexHeld /\ DeliveredInOrder)
<1>1. Inv => HubSound /\ MutexHeld /\ DeliveredInOrder
  BY DEF Inv, SocketInv, HubInv, OrderInv
<1> QED
  BY InitInv, NextInv, <1>1, PTL DEF Spec

\* The handler, with mutex, hub, losses and failures, implements the broadcast.
THEOREM Implementation == Spec => ImplementsFanout
<1>1. Init => Distribution!Init
  BY DEF Init, SocketInit, Distribution!Init
<1>2. Inv /\ [Next]_vars => [Distribution!Next]_(Distribution!vars)
  <2> SUFFICES ASSUME Inv, [Next]_vars
               PROVE  Distribution!Next \/ (log' = log /\ sent' = sent)
    BY DEF Distribution!vars
  <2>1. ASSUME NEW c \in Conn, NEW b \in Conv, HandleUpdateWhiteboardEvent(c, b)
        PROVE  Distribution!Next
    <3> DEFINE e == [conv |-> b]
    <3>1. e \in Event /\ log' = Append(log, e) /\ sent' = sent
      BY <2>1 DEF Event, HandleUpdateWhiteboardEvent, sockets
    <3> HIDE DEF e
    <3> QED
      BY <3>1 DEF Distribution!Next, Distribution!Publish
  <2>2. CASE WriteJSON
    <3> DEFINE c == Target[ri]
    <3>1. /\ c \in Conn /\ c \in Listener /\ head + 1 \in DOMAIN log /\ head \in Nat
          /\ log[head + 1].conv = ConvOf[c]
          /\ \A i \in DOMAIN sent[c] : sent[c][i] <= head
      BY <2>2, WriteIsNew DEF Inv, Listener
    <3>2. \A i \in DOMAIN sent[c] : sent[c][i] < head + 1
      BY <3>1 DEF Inv, SocketInv, TypeInv, SocketTypeOK
    <3>3. sent' = [sent EXCEPT ![c] = Append(@, head + 1)] /\ log' = log
      BY <2>2 DEF WriteJSON
    <3>4. Distribution!Deliver(c, head + 1)
      BY <3>1, <3>2, <3>3 DEF Distribution!Deliver
    <3> QED
      BY <3>1, <3>4 DEF Distribution!Next
  <2>3. CASE SocketStep /\ ~WriteJSON
    BY <2>3, HiddenStep
  <2>4. ASSUME NEW c \in Conn, HandleConnection(c) PROVE log' = log /\ sent' = sent
    BY <2>4 DEF HandleConnection, Upgrade, sockets
  <2>5. CASE ChatShutdown \/ SecondSignal \/ UNCHANGED vars
    BY <2>5 DEF ChatShutdown, SecondSignal, vars, socketVars, sockets
  <2> QED
    BY <2>1, <2>2, <2>3, <2>4, <2>5
       DEF Next, Goroutine, HandleIncomingWhiteboardEvent, HandleWhiteboardAndClient,
       DeleteDisconnectedClientFromWhiteboard, Subscribe, Send, CloseAll, SocketStep,
       ConnStep, ConsumerStep, MainStep
<1> QED
  BY <1>1, <1>2, InitInv, NextInv, PTL
     DEF Spec, ImplementsFanout, Distribution!Spec

(***************************************************************************)
(* The walk of the shutdown                                                *)
(***************************************************************************)

\* A goroutine's moves: unlike the chat's it neither publishes nor drops itself.
Moves(c) ==
    \/ pc[c] = "none" /\ pc'[c] = "upgraded"
    \/ HandleConversationAndClient(c) /\ pc'[c] = "logging"
    \/ pc[c] = "logging" /\ pc'[c] = "reading"
    \/ pc[c] = "reading" /\ pc'[c] \in {"closeHandler", "loopDelete", "closing"}
    \/ pc[c] \in {"closeHandler", "loopDelete"} /\ pc'[c] \in {"loopDelete", "closing"}
    \/ pc[c] = "closing" /\ pc'[c] = "done"

LEMMA NextMoves ==
    ASSUME Inv, [Next]_vars, NEW c \in Conn
    PROVE  /\ pc'[c] = pc[c] \/ Moves(c)
           /\ closed \subseteq closed'
           /\ main = "draining" /\ main' = "drained" => UnlockHub
<1> USE DEF consumer, sockets
<1>0. pc \in [Conn -> Places]
  BY DEF Inv, SocketInv, TypeInv, SocketTypeOK
<1> DEFINE Ok == /\ pc'[c] = pc[c] \/ Moves(c)
                 /\ closed \subseteq closed'
                 /\ main = "draining" /\ main' = "drained" => UnlockHub
<1>1. ASSUME NEW d \in Conn, ConnStep(d) PROVE Ok
  <2>1. CASE HandleConversationAndClient(d)
    BY <1>0, <2>1 DEF HandleConversationAndClient, Goto, Moves
  <2>2. CASE LogConversations(d)
    BY <1>0, <2>2 DEF LogConversations, Goto, Moves
  <2>3. CASE CloseHandler(d) \/ DeleteAfterRead(d)
    BY <1>0, <2>3 DEF CloseHandler, DeleteAfterRead, DeleteDisconnectedClient, Goto, Moves
  <2>4. CASE CloseSocket(d)
    BY <1>0, <2>4 DEF CloseSocket, Goto, Moves
  <2> QED BY <1>1, <2>1, <2>2, <2>3, <2>4 DEF ConnStep
<1>2. ASSUME NEW d \in Conn, ReadFails(d) PROVE Ok
  BY <1>0, <1>2 DEF ReadFails, ReadClose, ReadClosedSocket, Goto, Moves
<1>3. ASSUME NEW d \in Conn, HandleConnection(d) PROVE Ok
  BY <1>0, <1>3 DEF HandleConnection, Upgrade, Goto, Moves
<1>4. ASSUME NEW d \in Conn, NEW b \in Conv, HandleUpdateWhiteboardEvent(d, b) PROVE Ok
  BY <1>4 DEF HandleUpdateWhiteboardEvent
<1>5. ASSUME NEW d \in Conn, ClientStep(d) PROVE Ok
  BY <1>5 DEF ClientStep, Leave, StopReading, ResumeReading
<1>6. ASSUME ConsumerStep \/ LoseEvent PROVE Ok
  BY <1>6 DEF ConsumerStep, SubscribeToChannel, SubscribeFails, SendMessageToClient,
     WriteJSON, FinishSend, WriteToClosedSocket, EndSend, WriteToGoneClient, LoseEvent
<1>7. ASSUME ConcurrentMapAccess \/ MainStep \/ Exit \/ ChatShutdown \/ SecondSignal
      PROVE  Ok
  <2>1. ASSUME NEW k \in Conv, CloseConversation(k) PROVE Ok
    BY <2>1 DEF CloseConversation
  <2>2. ASSUME UnlockHub PROVE Ok
    BY <2>2 DEF UnlockHub
  <2>3. ASSUME ConcurrentMapAccess \/ LockHub \/ Exit PROVE Ok
    BY <2>3 DEF ConcurrentMapAccess, LockHub, Exit
  <2>4. ASSUME ChatShutdown \/ SecondSignal PROVE Ok
    BY <2>4 DEF ChatShutdown, SecondSignal
  <2> HIDE DEF Ok
  <2> QED BY <1>7, <2>1, <2>2, <2>3, <2>4 DEF MainStep
<1>8. ASSUME UNCHANGED vars PROVE Ok
  BY <1>8 DEF vars, socketVars
<1> HIDE DEF Ok
<1>9. Ok
  BY <1>1, <1>2, <1>3, <1>4, <1>5, <1>6, <1>7, <1>8
     DEF Next, Goroutine, HandleIncomingWhiteboardEvent, HandleWhiteboardAndClient,
     DeleteDisconnectedClientFromWhiteboard, Subscribe, Send, CloseAll, ConnStep, ConsumerStep,
     MainStep
<1> QED
  BY <1>9 DEF Ok

\* A user's only connection that reads its socket has an entry for the walk to
\* find, or the walk, or a failed write, has closed the socket.
Reachable ==
    /\ \A c \in Conn : pc[c] # "dropping"
    /\ \A c \in Conn :
          Lone(c) /\ pc[c] \in {"logging", "reading", "closeHandler"} =>
              Registered(hub, c) \/ c \in closed

LEMMA NextReachable == Inv /\ Reachable /\ [Next]_vars => Reachable'
<1> SUFFICES ASSUME Inv, Reachable, [Next]_vars PROVE Reachable'
  OBVIOUS
<1>1. hub \in Hubs /\ TypeInv /\ HubSound /\ Step
  BY NextIsStep DEF Inv, SocketInv, TypeInv, SocketTypeOK, HubInv
<1>2. ASSUME NEW c \in Conn PROVE pc'[c] # "dropping"
  BY NextMoves DEF Moves, Reachable
<1>3. ASSUME NEW c \in Conn, Lone(c), pc'[c] \in {"logging", "reading", "closeHandler"},
             c \notin closed'
      PROVE  Registered(hub', c)
  <2>1. CASE pc[c] \in {"logging", "reading", "closeHandler"}
    <3> SUFFICES ASSUME ~Registered(hub', c) PROVE FALSE
      OBVIOUS
    <3>1. Registered(hub, c)
      BY <1>3, <2>1, NextMoves DEF Reachable
    <3>2. PICK d \in Conn : /\ Deleting(d) /\ pc'[d] # pc[d]
                            /\ UserOf[d] = UserOf[c] /\ ConvOf[d] = ConvOf[c]
      BY <1>1, <1>3, <3>1, WhoUnregisters
    <3>3. d = c
      BY <1>3, <3>2 DEF Lone
    <3>4. pc'[c] \in {"loopDelete", "closing"}
      BY <2>1, <3>2, <3>3, NextMoves DEF Deleting, Moves, HandleConversationAndClient, Goto
    <3> QED BY <1>3, <3>4
  <2>2. CASE pc[c] \notin {"logging", "reading", "closeHandler"}
    <3>1. HandleConversationAndClient(c)
      BY <1>3, <2>2, NextMoves DEF Moves
    <3>2. hub' = Register(hub, ConvOf[c], c)
      BY <3>1 DEF HandleConversationAndClient
    <3> QED BY <1>1, <3>2, RegisterEnters, ConvOfAssumption
  <2> QED BY <2>1, <2>2
<1> QED
  BY <1>2, <1>3 DEF Reachable, Lone

\* A completed walk has closed the socket of every user with one connection that
\* was registered and had not left.
THEOREM ShutdownCorrect == Spec => CompletedShutdownClosed
<1>1. Init => Reachable
  BY DEF Init, SocketInit, Reachable
<1>2. ASSUME Inv, Reachable, [Next]_vars, main = "draining", main' = "drained", NEW c \in Conn,
             Lone(c), pc[c] \in {"logging", "reading", "closeHandler"}
      PROVE  c \in closed
  <2>1. hub = EmptyHub
    BY <1>2, NextMoves DEF UnlockHub
  <2>2. ~Registered(hub, c)
    BY <2>1 DEF EmptyHub, Registered, ToSet
  <2> QED BY <1>2, <2>2 DEF Reachable
<1>3. Inv /\ Reachable /\ [Next]_vars =>
        [main = "draining" /\ main' = "drained" =>
          \A c \in Conn :
            Lone(c) /\ pc[c] \in {"logging", "reading", "closeHandler"} => c \in closed]_vars
  BY <1>2
<1> QED
  BY <1>1, <1>3, InitInv, NextInv, NextReachable, PTL DEF Spec, CompletedShutdownClosed
===============================================================================
