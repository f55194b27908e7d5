--------------------------- MODULE ChatSocketProofs ---------------------------
(***************************************************************************)
(* Theorems about ChatSocket for every set of users, conversations and     *)
(* connections, every bound and every kind of client: the chat's own steps *)
(* are of the kinds that SocketHubProofs allows a handler; what is         *)
(* broadcast is in the database, in the order it was saved in.             *)
(***************************************************************************)
EXTENDS ChatSocketProperties, SocketHubProofs

(***************************************************************************)
(* Types                                                                   *)
(***************************************************************************)

\* Marking rows keeps the table's type, length and everything but the marks.
LEMMA MarkSeenProperties ==
    ASSUME NEW s \in Seq(Message), NEW M
    PROVE  /\ MarkSeen(s, M) \in Seq(Message)
           /\ Len(MarkSeen(s, M)) = Len(s)
           /\ \A i \in DOMAIN s :
                 MarkSeen(s, M)[i] = [s[i] EXCEPT !.seen = @ \/ i \in M]
<1>1. DOMAIN s = 1..Len(s) /\ Len(s) \in Nat /\ \A i \in DOMAIN s : s[i] \in Message
  OBVIOUS
<1>2. \A i \in DOMAIN s : [s[i] EXCEPT !.seen = @ \/ i \in M] \in Message
  BY <1>1 DEF Message
<1>3. MarkSeen(s, M) \in [1..Len(s) -> Message]
  BY <1>1, <1>2 DEF MarkSeen
<1>4. \A i \in DOMAIN s : MarkSeen(s, M)[i] = [s[i] EXCEPT !.seen = @ \/ i \in M]
  BY DEF MarkSeen
<1> QED
  BY <1>1, <1>3, <1>4, SeqDef

\* What a goroutine may publish is an event.
LEMMA UnsentIsEvent ==
    ASSUME NEW c \in Conn, NEW ids \in SUBSET MsgId,
           NEW kind \in {"send", "seen", "typing"}
    PROVE  Unsent(kind, c, ids) \in Event /\ Nothing(c) \in Event
BY ConvOfAssumption DEF Unsent, Nothing, Event

\* The types of what the chat adds to the hub, of which a step of the chat must
\* know what it publishes.
ChatTypes ==
    /\ pend \in [Conn -> Event]
    /\ msgs \in Seq(Message) /\ Len(msgs) <= MaxMsgs
    /\ log \in Seq(Event)
    /\ dropped \subseteq Conn

\* A frame is handled aside of the hub, and what it prepares is an event.
LEMMA FrameTypes ==
    ASSUME TypeInv, ChatTypes, NEW c \in Conn, HandleFrame(c)
    PROVE  Aside /\ ChatTypes'
<1> USE DEF table, consumer, sockets, elsewhere
<1>0. LogGrows \/ log' # log
  BY SameLog
<1>1. CASE HandleSendMessageEvent(c)
  <2>1. Unread(UserOf[c], ConvOf[c]) \in Message
    BY ConvOfAssumption, UserOfAssumption DEF Message, Unread
  <2>2. msgs' \in Seq(Message) /\ Len(msgs') = Len(msgs) + 1
    BY <1>1, <2>1, AppendProperties DEF ChatTypes, HandleSendMessageEvent
  <2>3. Len(msgs) \in Nat /\ Len(msgs) < MaxMsgs
    BY <1>1 DEF ChatTypes, HandleSendMessageEvent
  <2>4. {Len(msgs) + 1} \in SUBSET MsgId
    BY <2>3, BoundsAssumption DEF MsgId
  <2>5. Unsent("send", c, {Len(msgs) + 1}) \in Event
    BY <2>4, UnsentIsEvent
  <2>6. ChatTypes'
    BY <1>1, <2>2, <2>3, <2>5, BoundsAssumption DEF ChatTypes, HandleSendMessageEvent
  <2> QED
    BY <1>0, <1>1, <2>6
       DEF Aside, TypeInv, SocketTypeOK, HandleSendMessageEvent, Goto, Places
<1>2. ASSUME NEW ids \in SUBSET MsgId, HandleSeenMessageEvent(c, ids)
      PROVE  Aside /\ ChatTypes'
  <2>1. msgs' \in Seq(Message) /\ Len(msgs') = Len(msgs)
    BY <1>2, MarkSeenProperties DEF ChatTypes, HandleSeenMessageEvent
  <2>2. ids \in SUBSET MsgId
    BY BoundsAssumption DEF ChatTypes, MsgId
  <2>3. Unsent("seen", c, ids) \in Event
    BY <2>2, UnsentIsEvent
  <2>4. ChatTypes'
    BY <1>2, <2>1, <2>3 DEF ChatTypes, HandleSeenMessageEvent
  <2> QED
    BY <1>0, <1>2, <2>4
       DEF Aside, TypeInv, SocketTypeOK, HandleSeenMessageEvent, Goto, Places
<1>3. CASE HandleIsTypingEvent(c)
  <2>1. Unsent("typing", c, {}) \in Event
    BY UnsentIsEvent
  <2>2. ChatTypes'
    BY <1>3, <2>1 DEF ChatTypes, HandleIsTypingEvent
  <2> QED
    BY <1>0, <1>3, <2>2
       DEF Aside, TypeInv, SocketTypeOK, HandleIsTypingEvent, Goto, Places
<1>4. CASE RejectSendMessageEvent(c)
  BY <1>0, <1>4
     DEF Aside, TypeInv, SocketTypeOK, ChatTypes, RejectSendMessageEvent, Goto, Places
<1> QED
  BY <1>1, <1>2, <1>3, <1>4 DEF HandleFrame

\* A publication extends the log by an event, or fails without a trace.
LEMMA PublishTypes ==
    ASSUME TypeInv, ChatTypes, NEW c \in Conn, Publishing(c)
    PROVE  Aside /\ ChatTypes'
<1> USE DEF table, consumer, sockets, elsewhere
<1>1. Nothing(c) \in Event /\ pend[c] \in Event
  BY UnsentIsEvent DEF ChatTypes
<1>2. pend[c].conv \in Conv
  BY <1>1 DEF Event
<1>3. CASE PublishMessage(c)
  <2>1. /\ log' \in Seq(Event) /\ Len(log') = Len(log) + 1
        /\ \A p \in 1..Len(log) : log'[p] = log[p]
        /\ log'[Len(log) + 1] = pend[c]
    BY <1>1, <1>3, AppendProperties DEF ChatTypes, PublishMessage
  <2>2. LogGrows
    <3>1. /\ Len(log) \in Nat /\ DOMAIN log = 1..Len(log)
          /\ \A p \in DOMAIN log : log[p].conv \in Conv
      BY DEF TypeInv, SocketTypeOK
    <3>2. DOMAIN log' = 1..(Len(log) + 1)
      BY <2>1
    <3>3. ASSUME NEW p \in DOMAIN log' PROVE log'[p].conv \in Conv
      <4>1. p \in 1..Len(log) \/ p = Len(log) + 1
        BY <3>1, <3>2, <3>3
      <4> QED BY <1>2, <2>1, <3>1, <4>1
    <3> QED BY <2>1, <3>1, <3>2, <3>3 DEF LogGrows
  <2>3. ChatTypes'
    BY <1>1, <1>3, <2>1 DEF ChatTypes, PublishMessage
  <2> QED
    BY <1>3, <2>2, <2>3 DEF Aside, TypeInv, SocketTypeOK, PublishMessage, Goto, Places
<1>4. CASE PublishMessageFails(c)
  <2>1. ChatTypes' /\ LogGrows
    BY <1>1, <1>4, SameLog DEF ChatTypes, PublishMessageFails
  <2> QED
    BY <1>4, <2>1
       DEF Aside, TypeInv, SocketTypeOK, PublishMessageFails, Goto, Places
<1> QED
  BY <1>3, <1>4 DEF Publishing

\* Every step is one of the hub, or one of a handler that the hub allows.
LEMMA NextIsHandlers ==
    ASSUME TypeInv, ChatTypes, [Next]_vars
    PROVE  /\ SocketStep \/ HandlerStep \/ \E c \in Conn : HandleConnections(c) /\ Upgrade(c)
           /\ ChatTypes'
<1> DEFINE Ok == SocketStep \/ HandlerStep \/ \E c \in Conn : HandleConnections(c) /\ Upgrade(c)
<1> USE DEF HandlerStep, table, consumer, sockets, elsewhere
<1>1. CASE SocketStep /\ UNCHANGED table
  <2>1. CASE log' = log
    BY <1>1, <2>1 DEF ChatTypes
  <2>2. CASE WriteJSON
    BY <1>1, <2>2 DEF ChatTypes, WriteJSON
  <2> QED BY <1>1, <2>1, <2>2, HiddenStep
<1>2. ASSUME NEW c \in Conn, HandleConnections(c)
      PROVE  Ok /\ ChatTypes'
  BY <1>2 DEF HandleConnections, Upgrade, ChatTypes
<1>3. ASSUME NEW c \in Conn, HandleFrame(c) \/ Publishing(c)
      PROVE  Ok /\ ChatTypes'
  BY <1>3, FrameTypes, PublishTypes
<1>4. ASSUME NEW c \in Conn, DropSender(c)
      PROVE  Ok /\ ChatTypes'
  BY <1>4 DEF DropSender, DeleteDisconnectedClient, ChatTypes
<1>5. CASE ShutdownServer \/ UNCHANGED vars
  <2>1. LogGrows
    BY <1>5, SameLog DEF ShutdownServer, vars, socketVars
  <2>2. Aside
    BY <1>5, <2>1 DEF ShutdownServer, vars, socketVars, Aside, TypeInv, SocketTypeOK
  <2> QED BY <1>5, <2>2 DEF ShutdownServer, vars, socketVars, ChatTypes
<1>6. ASSUME NEW u \in User, NEW k \in Conv, SaveMessage(u, k)
      PROVE  Ok /\ ChatTypes'
  <2>1. LogGrows
    BY <1>6, SameLog DEF SaveMessage, socketVars
  <2>2. Aside
    BY <1>6, <2>1 DEF SaveMessage, socketVars, Aside, TypeInv, SocketTypeOK
  <2>3. Unread(u, k) \in Message
    BY DEF Message, Unread
  <2>4. msgs' \in Seq(Message) /\ Len(msgs') <= MaxMsgs
    BY <1>6, <2>3, AppendProperties, BoundsAssumption DEF ChatTypes, SaveMessage
  <2> QED BY <1>6, <2>2, <2>4 DEF SaveMessage, socketVars, ChatTypes
<1> QED
  BY <1>1, <1>2, <1>3, <1>4, <1>5, <1>6 DEF Next

(***************************************************************************)
(* The invariant                                                           *)
(***************************************************************************)

\* Only members are upgraded, hence registered.
MembersOnly ==
    \A c \in Conn : pc[c] = "upgraded" \/ Registered(hub, c) => c \in Listener

Inv == SocketInv /\ ChatTypes /\ MembersOnly

LEMMA InitInv == Init => Inv
<1> SUFFICES ASSUME Init PROVE Inv
  OBVIOUS
<1>1. SocketInv
  BY InitSocketInv DEF Init
<1>2. ChatTypes
  <2>1. pend \in [Conn -> Event]
    BY UnsentIsEvent DEF Init, Nothing, Unsent
  <2> QED
    BY <2>1, BoundsAssumption DEF Init, SocketInit, ChatTypes
<1>3. MembersOnly
  <2>1. \A c \in Conn : pc[c] = "none"
    BY DEF Init, SocketInit
  <2> QED
    BY <1>1, <2>1 DEF MembersOnly, SocketInv, HubInv, NotYetRegistered
<1> QED
  BY <1>1, <1>2, <1>3 DEF Inv

LEMMA NextInv == Inv /\ [Next]_vars => Inv'
<1> SUFFICES ASSUME Inv, [Next]_vars PROVE Inv'
  OBVIOUS
<1>1. Step /\ ChatTypes' /\ SocketInv'
  BY NextIsHandlers, NextSocketInv DEF Inv, SocketInv, Step
<1>2. ASSUME NEW c \in Conn, HandleConnections(c) PROVE MembersOnly'
  <2>1. /\ c \in Listener /\ hub' = hub
        /\ pc' = [pc EXCEPT ![c] = "upgraded"] /\ pc \in [Conn -> Places]
    BY <1>2 DEF HandleConnections, Upgrade, Goto, Listener, Inv, SocketInv, TypeInv,
       SocketTypeOK
  <2> QED
    BY <2>1 DEF Inv, MembersOnly, Listener
<1>3. ASSUME SocketStep \/ HandlerStep PROVE MembersOnly'
  BY <1>3, NextHub DEF Inv, SocketInv, MembersOnly, Listener
<1> QED
  BY <1>1, <1>2, <1>3, NextIsHandlers DEF Inv, SocketInv

(***************************************************************************)
(* The theorems                                                            *)
(***************************************************************************)

\* Every variable keeps its type in every behaviour.
THEOREM TypeCorrect == Spec => []TypeOK
<1>1. Inv => TypeOK
  BY DEF Inv, SocketInv, TypeInv, ChatTypes, TypeOK
<1> QED
  BY InitInv, NextInv, <1>1, PTL DEF Spec

\* The mutex is held exactly by the goroutine that ranges over the hub.
THEOREM MutexCorrect == Spec => []MutexHeld
<1>1. Inv => MutexHeld
  BY DEF Inv, SocketInv
<1> QED
  BY InitInv, NextInv, <1>1, PTL DEF Spec

\* No step changes the hub while the consumer ranges over it.
THEOREM HubStandsStill == Spec => HeldHubStandsStill
<1>1. Inv /\ [Next]_vars => [mu = "redis" => UNCHANGED hub]_socketVars
  <2> SUFFICES ASSUME Inv, [Next]_vars, mu = "redis" PROVE hub' = hub
    OBVIOUS
  <2>1. Step /\ MutexHeld
    BY NextIsHandlers DEF Inv, SocketInv, Step
  <2>2. rpc \in {"sending", "relocking"}
    BY <2>1 DEF MutexHeld
  <2> QED
    BY <2>1, <2>2, HeldHub
<1> QED
  BY <1>1, InitInv, NextInv, PTL DEF Spec, HeldHubStandsStill

\* No connection is ever entered twice or under a conversation not its own.
THEOREM HubCorrect == Spec => []HubSound
<1>1. Inv => HubSound
  BY DEF Inv, SocketInv, HubInv
<1> QED
  BY <1>1, InitInv, NextInv, PTL DEF Spec

\* A connection loses its entry only to its own user in its own conversation, or
\* to the shutdown.
THEOREM UnregisterCorrect == Spec => OnlyOwnUserUnregisters
<1> DEFINE Own(c) ==
             Registered(hub, c) /\ ~Registered(hub', c) =>
                 \/ main = "draining" /\ c \in closed'
                 \/ \E d \in Conn :
                       /\ Deleting(d) /\ pc'[d] # pc[d]
                       /\ UserOf[d] = UserOf[c] /\ ConvOf[d] = ConvOf[c]
<1>1. Inv /\ [Next]_vars => [\A c \in Conn : Own(c)]_socketVars
  <2> SUFFICES ASSUME Inv, [Next]_vars, NEW c \in Conn,
                      Registered(hub, c), ~Registered(hub', c)
               PROVE  \/ main = "draining" /\ c \in closed'
                      \/ \E d \in Conn :
                            /\ Deleting(d) /\ pc'[d] # pc[d]
                            /\ UserOf[d] = UserOf[c] /\ ConvOf[d] = ConvOf[c]
    OBVIOUS
  <2>1. Step /\ TypeInv /\ HubSound
    BY NextIsHandlers DEF Inv, SocketInv, HubInv, Step
  <2> QED
    BY <2>1, WhoUnregisters
<1> QED
  BY <1>1, InitInv, NextInv, PTL DEF Spec, OnlyOwnUserUnregisters

\* Every socket is written events of its own conversation only, in the order of
\* their publication and each at most once.
THEOREM OrderCorrect == Spec => []DeliveredInOrder
<1>1. Inv => DeliveredInOrder
  BY DEF Inv, SocketInv, OrderInv
<1> QED
  BY <1>1, InitInv, NextInv, PTL DEF Spec

(***************************************************************************)
(* The only connection of a user                                           *)
(***************************************************************************)

\* A goroutine's moves from one place to another, with what they do to the hub
\* and on whose account they are.
Moves(c) ==
    \/ pc[c] = "none" /\ pc'[c] = "upgraded"
    \/ HandleConversationAndClient(c) /\ pc'[c] = "logging"
    \/ pc[c] = "logging" /\ pc'[c] = "reading"
    \/ pc[c] = "reading" /\ pc'[c] \in {"publishing", "dropping", "closeHandler", "loopDelete"}
    \/ pc[c] = "reading" /\ pc'[c] = "closing" /\ (peer'[c] = "reset" \/ c \in closed)
    \/ pc[c] = "publishing" /\ pc'[c] = "reading"
    \/ pc[c] = "dropping" /\ pc'[c] = "reading" /\ c \in dropped'
    \/ /\ pc[c] \in {"closeHandler", "loopDelete"} /\ pc'[c] \in {"loopDelete", "closing"}
       /\ hub' = Unregister(hub, ConvOf[c], UserOf[c])
    \/ pc[c] = "closing" /\ pc'[c] = "done"

LEMMA NextMoves ==
    ASSUME Inv, [Next]_vars, NEW c \in Conn
    PROVE  pc'[c] = pc[c] \/ Moves(c)
<1> USE DEF table, consumer, sockets, elsewhere
<1>0. pc \in [Conn -> Places]
  BY DEF Inv, SocketInv, TypeInv, SocketTypeOK
<1> DEFINE Ok == pc'[c] = pc[c] \/ Moves(c)
<1>1. ASSUME NEW d \in Conn, ConnStep(d) PROVE Ok
  <2>1. CASE HandleConversationAndClient(d)
    BY <1>0, <2>1 DEF HandleConversationAndClient, Goto, Moves
  <2>2. CASE LogConversations(d)
    BY <1>0, <2>2 DEF LogConversations, Goto, Moves
  <2>3. CASE CloseHandler(d)
    BY <1>0, <2>3 DEF CloseHandler, DeleteDisconnectedClient, Goto, Moves
  <2>4. CASE DeleteAfterRead(d)
    BY <1>0, <2>4 DEF DeleteAfterRead, DeleteDisconnectedClient, Goto, Moves
  <2>5. CASE CloseSocket(d)
    BY <1>0, <2>5 DEF CloseSocket, Goto, Moves
  <2> QED BY <1>1, <2>1, <2>2, <2>3, <2>4, <2>5 DEF ConnStep
<1>2. ASSUME NEW d \in Conn, ReadFails(d) PROVE Ok
  BY <1>0, <1>2 DEF ReadFails, ReadClose, ReadClosedSocket, Goto, Moves
<1>3. ASSUME NEW d \in Conn, HandleConnections(d) PROVE Ok
  BY <1>0, <1>3 DEF HandleConnections, Upgrade, Goto, Moves
<1>4. ASSUME NEW d \in Conn, HandleFrame(d) PROVE Ok
  BY <1>0, <1>4 DEF HandleFrame, HandleSendMessageEvent, HandleSeenMessageEvent,
     HandleIsTypingEvent, RejectSendMessageEvent, Goto, Moves
<1>5. ASSUME NEW d \in Conn, Publishing(d) \/ DropSender(d) PROVE Ok
  BY <1>0, <1>5 DEF Publishing, PublishMessage, PublishMessageFails, DropSender,
     DeleteDisconnectedClient, Goto, Moves
<1>6. ASSUME NEW d \in Conn, ClientStep(d) PROVE pc' = pc
  BY <1>6 DEF ClientStep, Leave, StopReading, ResumeReading
<1>7. CASE ConsumerStep \/ LoseEvent
  BY <1>7 DEF ConsumerStep, SubscribeToChannel, SubscribeFails, SendMessageToClient,
     WriteJSON, FinishSend, WriteToClosedSocket, EndSend, WriteToGoneClient, LoseEvent
<1>8. CASE ConcurrentMapAccess \/ MainStep \/ Exit \/ ShutdownServer
  BY <1>8 DEF ConcurrentMapAccess, MainStep, LockHub, CloseConversation, UnlockHub,
     Exit, ShutdownServer
<1>9. ASSUME NEW u \in User, NEW k \in Conv, SaveMessage(u, k) PROVE pc' = pc
  BY <1>9 DEF SaveMessage, socketVars
<1>10. CASE UNCHANGED vars
  BY <1>10 DEF vars, socketVars
<1> HIDE DEF Ok
<1>11. Ok
  BY <1>1, <1>2, <1>3, <1>4, <1>5, <1>6, <1>7, <1>8, <1>9, <1>10 DEF Next, SocketStep, Ok
<1> QED
  BY <1>11 DEF Ok

\* What was dropped stays dropped.
LEMMA NextDropped ==
    ASSUME [Next]_vars
    PROVE  dropped \subseteq dropped'
<1>1. CASE Next
  BY <1>1 DEF Next, table, HandleConnections, HandleFrame, HandleSendMessageEvent,
     HandleSeenMessageEvent, HandleIsTypingEvent, RejectSendMessageEvent, Publishing,
     PublishMessage, PublishMessageFails, DropSender, SaveMessage, ShutdownServer
<1>2. CASE UNCHANGED vars
  BY <1>2 DEF vars, table
<1> QED
  BY <1>1, <1>2

\* What keeps an entry in the hub after its connection has ended.
Excused(c) ==
    \/ peer[c] = "reset"
    \/ rpc = "relocking"
    \/ main \in {"aborted", "crashed", "exited"}

\* The shutdown does not go back, and an excuse is one for ever.
LEMMA NextMain ==
    ASSUME Inv, [Next]_vars
    PROVE  /\ main' \in {"serving", "locking"} => main \in {"serving", "locking"}
           /\ \A c \in Conn : Excused(c) => Excused(c)'
<1> USE DEF table, consumer, sockets, elsewhere
<1>0. peer \in [Conn -> {"here", "stalled"} \union Departures]
  BY DEF Inv, SocketInv, TypeInv, SocketTypeOK
<1> DEFINE Ok == /\ main' \in {"serving", "locking"} => main \in {"serving", "locking"}
                 /\ \A c \in Conn : Excused(c) => Excused(c)'
<1>1. ASSUME NEW d \in Conn, ConnStep(d) \/ ReadFails(d) PROVE Ok
  BY <1>1 DEF ConnStep, HandleConversationAndClient, LogConversations, CloseHandler,
     DeleteAfterRead, DeleteDisconnectedClient, CloseSocket, ReadFails, ReadClose,
     ReadClosedSocket, Excused
<1>2. ASSUME NEW d \in Conn, ClientStep(d) PROVE Ok
  BY <1>0, <1>2 DEF ClientStep, Leave, StopReading, ResumeReading, Gone, Departures, Excused
<1>3. ASSUME NEW d \in Conn, HandleConnections(d) \/ HandleFrame(d) PROVE Ok
  BY <1>3 DEF HandleConnections, Upgrade, HandleFrame, HandleSendMessageEvent,
     HandleSeenMessageEvent, HandleIsTypingEvent, RejectSendMessageEvent, Excused
<1>4. ASSUME NEW d \in Conn, Publishing(d) \/ DropSender(d) PROVE Ok
  BY <1>4 DEF Publishing, PublishMessage, PublishMessageFails, DropSender,
     DeleteDisconnectedClient, Excused
<1>5. CASE ConsumerStep \/ LoseEvent
  BY <1>5 DEF ConsumerStep, SubscribeToChannel, SubscribeFails, SendMessageToClient,
     WriteJSON, FinishSend, WriteToClosedSocket, EndSend, WriteToGoneClient, LoseEvent,
     Excused
<1>6. CASE Alive /\ (ConcurrentMapAccess \/ MainStep \/ Exit \/ ShutdownServer)
  BY <1>6 DEF Alive, ConcurrentMapAccess, MainStep, LockHub, CloseConversation, UnlockHub,
     Exit, ShutdownServer, Excused
<1>7. ASSUME NEW u \in User, NEW k \in Conv, SaveMessage(u, k) PROVE Ok
  BY <1>7 DEF SaveMessage, socketVars, Excused
<1>8. CASE UNCHANGED vars
  BY <1>8 DEF vars, socketVars, Excused
<1> HIDE DEF Ok
<1>9. Ok
  <2>1. CASE Alive /\ SocketStep
    BY <1>1, <1>2, <1>5, <1>6, <2>1 DEF SocketStep, Ok
  <2> QED
    BY <1>3, <1>4, <1>6, <1>7, <1>8, <2>1 DEF Next, Ok
<1> QED
  BY <1>9 DEF Ok

\* Who closes a socket: its goroutine in the end, the consumer that is stuck
\* then, or the shutdown, which drops the entry or gives up.
LEMMA NextClosed ==
    ASSUME Inv, [Next]_vars, NEW c \in Conn, c \in closed', c \notin closed
    PROVE  \/ pc[c] = "closing"
           \/ Registered(hub, c) /\ (Registered(hub', c) => Excused(c)')
<1> USE DEF table, consumer, sockets, elsewhere
<1> DEFINE Ok == \/ pc[c] = "closing"
                 \/ Registered(hub, c) /\ (Registered(hub', c) => Excused(c)')
<1>0. hub \in Hubs /\ hub' \in Hubs /\ HubSound /\ HubSound'
  BY NextInv DEF Inv, SocketInv, TypeInv, SocketTypeOK, HubInv
<1>1. ASSUME NEW d \in Conn, CloseSocket(d) PROVE Ok
  BY <1>1 DEF CloseSocket, Goto
<1>2. CASE WriteToGoneClient
  <2>1. /\ rpc = "sending" /\ rpc' = "relocking" /\ hub' = hub
        /\ ri <= Len(Target) /\ c = Target[ri]
    BY <1>2 DEF WriteToGoneClient
  <2>2. Target \in Seq(Conn) /\ Current.conv \in Conv /\ ri \in Nat \ {0}
    BY <2>1, TargetType DEF Inv, SocketInv, TypeInv, SocketTypeOK
  <2>3. ri \in DOMAIN Target
    BY <2>1, <2>2
  <2>4. Registered(hub, c)
    BY <1>0, <2>1, <2>2, <2>3, RegisteredMeans DEF Target
  <2> QED
    BY <2>1, <2>4 DEF Excused
<1>3. ASSUME NEW k \in Conv, CloseConversation(k) PROVE Ok
  <2>1. c \in ClosedBy(hub[k])
    BY <1>3 DEF CloseConversation
  <2>2. PICK i \in DOMAIN hub[k] : hub[k][i] = c
    BY <2>1 DEF ClosedBy
  <2>3. Registered(hub, c) /\ ConvOf[c] = k
    BY <1>0, <2>2, RegisteredMeans DEF HubSound, SoundHub
  <2>4. CASE main' = "aborted"
    BY <2>3, <2>4 DEF Excused
  <2>5. CASE hub' = [hub EXCEPT ![k] = << >>]
    <3>1. DOMAIN hub'[k] = {}
      BY <1>0, <2>5 DEF Hubs
    <3>2. ~Registered(hub', c)
      BY <1>0, <2>3, <3>1, RegisteredMeans DEF HubSound, SoundHub
    <3> QED BY <2>3, <3>2
  <2> HIDE DEF Ok
  <2> QED BY <1>3, <2>4, <2>5 DEF CloseConversation
<1>4. ASSUME NEW d \in Conn,
             (ConnStep(d) /\ ~CloseSocket(d)) \/ ReadFails(d) \/ ClientStep(d)
      PROVE  closed' = closed
  BY <1>4 DEF ConnStep, HandleConversationAndClient, LogConversations, CloseHandler,
     DeleteAfterRead, DeleteDisconnectedClient, ReadFails, ReadClose, ReadClosedSocket,
     ClientStep, Leave, StopReading, ResumeReading
<1>5. ASSUME NEW d \in Conn, HandleConnections(d) \/ HandleFrame(d) PROVE closed' = closed
  BY <1>5 DEF HandleConnections, Upgrade, HandleFrame, HandleSendMessageEvent,
     HandleSeenMessageEvent, HandleIsTypingEvent, RejectSendMessageEvent
<1>6. ASSUME NEW d \in Conn, Publishing(d) \/ DropSender(d) PROVE closed' = closed
  BY <1>6 DEF Publishing, PublishMessage, PublishMessageFails, DropSender,
     DeleteDisconnectedClient
<1>7. CASE (ConsumerStep /\ ~WriteToGoneClient) \/ LoseEvent
  BY <1>7 DEF ConsumerStep, SubscribeToChannel, SubscribeFails, SendMessageToClient,
     WriteJSON, FinishSend, WriteToClosedSocket, EndSend, LoseEvent
<1>8. ASSUME ConcurrentMapAccess \/ LockHub \/ UnlockHub \/ Exit \/ ShutdownServer
      PROVE  closed' = closed
  BY <1>8 DEF ConcurrentMapAccess, LockHub, UnlockHub, Exit, ShutdownServer
<1>9. ASSUME \/ \E u \in User, k \in Conv : SaveMessage(u, k)
             \/ UNCHANGED vars
      PROVE  closed' = closed
  BY <1>9 DEF SaveMessage, vars, socketVars
<1> HIDE DEF Ok
<1>10. Ok
  <2>1. ASSUME NEW d \in Conn, ConnStep(d) \/ ReadFails(d) \/ ClientStep(d) PROVE Ok
    BY <1>1, <1>4, <2>1
  <2>2. CASE ConsumerStep \/ LoseEvent
    BY <1>2, <1>7, <2>2 DEF Ok
  <2>3. CASE ConcurrentMapAccess \/ MainStep \/ Exit \/ ShutdownServer
    BY <1>3, <1>8, <2>3 DEF MainStep
  <2>4. CASE SocketStep
    BY <2>1, <2>2, <2>3, <2>4 DEF SocketStep
  <2> QED
    BY <1>5, <1>6, <1>9, <2>3, <2>4 DEF Next
<1> QED
  BY <1>10 DEF Ok

\* The places in which the goroutine of a connection counts on its entry.
Staying == {"logging", "reading", "publishing", "dropping", "closeHandler"}

LoneInv ==
    /\ LoneStaysRegistered
    /\ \A c \in closed : pc[c] \notin {"none", "upgraded"}
    /\ \A c \in Conn :
          Lone(c) /\ Registered(hub, c) /\ (c \in closed \/ pc[c] \in {"closing", "done"}) =>
              Excused(c)

LEMMA InitLone == Init => LoneInv
BY DEF Init, SocketInit, LoneInv, LoneStaysRegistered

LEMMA NextLone == Inv /\ LoneInv /\ [Next]_vars => LoneInv'
<1> SUFFICES ASSUME Inv, LoneInv, [Next]_vars PROVE LoneInv'
  OBVIOUS
<1>0. /\ hub \in Hubs /\ hub' \in Hubs /\ HubSound /\ HubSound' /\ closed \subseteq Conn
      /\ closed' \subseteq Conn /\ NotYetRegistered /\ NotYetRegistered' /\ TypeInv /\ Step
  BY NextInv, NextIsHandlers DEF Inv, SocketInv, TypeInv, SocketTypeOK, HubInv, Step
<1>1. ASSUME NEW c \in Conn, Lone(c), main' \in {"serving", "locking"}, pc'[c] \in Staying,
             c \notin dropped'
      PROVE  Registered(hub', c)
  <2>1. main \in {"serving", "locking"} /\ c \notin dropped
    BY <1>1, NextMain, NextDropped
  <2>2. CASE pc[c] \in Staying
    <3> SUFFICES ASSUME ~Registered(hub', c) PROVE FALSE
      OBVIOUS
    <3>1. Registered(hub, c)
      BY <1>1, <2>1, <2>2 DEF LoneInv, LoneStaysRegistered, Staying
    <3>2. PICK d \in Conn : /\ Deleting(d) /\ pc'[d] # pc[d]
                            /\ UserOf[d] = UserOf[c] /\ ConvOf[d] = ConvOf[c]
      BY <1>0, <2>1, <3>1, WhoUnregisters
    <3>3. d = c
      BY <1>1, <3>2 DEF Lone
    <3>4. pc[c] \in {"dropping", "closeHandler"} /\ pc'[c] # pc[c]
      BY <2>2, <3>2, <3>3 DEF Deleting, Staying
    <3>5. pc'[c] \in {"loopDelete", "closing"} \/ c \in dropped'
      BY <3>4, NextMoves DEF Moves, HandleConversationAndClient, Goto
    <3> QED
      BY <1>1, <3>5 DEF Staying
  <2>3. CASE pc[c] \notin Staying
    <3>1. HandleConversationAndClient(c)
      BY <1>1, <2>3, NextMoves DEF Moves, Staying
    <3>2. hub' = Register(hub, ConvOf[c], c)
      BY <3>1 DEF HandleConversationAndClient
    <3> QED
      BY <1>0, <3>2, RegisterEnters, ConvOfAssumption
  <2> QED BY <2>2, <2>3
<1>3. ASSUME NEW c \in closed' PROVE pc'[c] \notin {"none", "upgraded"}
  <2>1. pc[c] \notin {"none", "upgraded"}
    <3>1. CASE c \in closed
      BY <3>1 DEF LoneInv
    <3>2. CASE c \notin closed
      BY <1>0, <1>3, <3>2, NextClosed DEF NotYetRegistered
    <3> QED BY <3>1, <3>2
  <2> QED
    BY <1>0, <1>3, <2>1, NextMoves DEF Moves
<1>4. ASSUME NEW c \in Conn, Lone(c), Registered(hub', c),
             c \in closed' \/ pc'[c] \in {"closing", "done"}
      PROVE  Excused(c)'
  <2> SUFFICES ASSUME ~Excused(c)' PROVE FALSE
    OBVIOUS
  <2>1. ~Excused(c)
    BY NextMain
  <2>2. CASE ~Registered(hub, c)
    <3>1. pc[c] = "upgraded" /\ pc'[c] = "logging"
      <4>1. CASE SocketStep \/ HandlerStep
        BY <1>0, <1>4, <2>2, <4>1, NextHub
      <4>2. CASE \E d \in Conn : Upgrade(d)
        BY <1>4, <2>2, <4>2 DEF Upgrade
      <4> QED BY <1>0, <4>1, <4>2 DEF Step
    <3>2. c \in closed' /\ c \notin closed
      BY <1>4, <3>1 DEF LoneInv
    <3> QED
      BY <2>2, <3>1, <3>2, NextClosed
  <2>3. CASE Registered(hub, c)
    <3>1. c \notin closed /\ pc[c] \notin {"closing", "done"}
      BY <1>4, <2>1, <2>3 DEF LoneInv
    <3>2. c \notin closed'
      BY <1>4, <3>1, NextClosed
    <3>3. pc'[c] \in {"closing", "done"}
      BY <1>4, <3>2
    <3>4. \/ peer'[c] = "reset"
          \/ hub' = Unregister(hub, ConvOf[c], UserOf[c])
      BY <3>1, <3>3, NextMoves DEF Moves
    <3>5. ~Registered(Unregister(hub, ConvOf[c], UserOf[c]), c)
      BY <1>0, <1>4, UnregisterLone DEF HubSound, Lone
    <3> QED
      BY <1>4, <3>4, <3>5 DEF Excused
  <2> QED BY <2>2, <2>3
<1> QED
  BY <1>1, <1>3, <1>4 DEF LoneInv, LoneStaysRegistered, Staying, Lone

\* While the chat serves, a user's only connection has its entry until its own
\* goroutine deletes it: when its client leaves, or after a frame of its own that
\* does not parse.
THEOREM StaysCorrect == Spec => []LoneStaysRegistered
<1>1. LoneInv => LoneStaysRegistered
  BY DEF LoneInv
<1> QED
  BY <1>1, InitInv, NextInv, InitLone, NextLone, PTL DEF Spec

\* A user's only connection leaves no entry behind, but after a network error, a
\* socket closed under its reader, or an aborted shutdown.
THEOREM LeavesCorrect == Spec => []LoneLeavesNoEntry
<1>1. LoneInv => LoneLeavesNoEntry
  BY DEF LoneInv, LoneLeavesNoEntry, Excused
<1> QED
  BY <1>1, InitInv, NextInv, InitLone, NextLone, PTL DEF Spec

(***************************************************************************)
(* Refinement                                                              *)
(***************************************************************************)

\* Every step of the handlers publishes an event, delivers one to a member that
\* has had nothing as late, or does not show.
LEMMA NextFanout ==
    Inv /\ [Next]_vars => [Distribution!Next]_(Distribution!vars)
<1> SUFFICES ASSUME Inv, [Next]_vars
             PROVE  Distribution!Next \/ (log' = log /\ sent' = sent)
  BY DEF Distribution!vars
<1> USE DEF table, consumer, sockets, elsewhere
<1>1. ASSUME NEW c \in Conn, PublishMessage(c) PROVE Distribution!Next
  <2>1. pend[c] \in Event
    BY DEF Inv, ChatTypes
  <2>2. log' = Append(log, pend[c]) /\ sent' = sent
    BY <1>1 DEF PublishMessage
  <2> QED
    BY <2>1, <2>2 DEF Distribution!Next, Distribution!Publish
<1>2. CASE WriteJSON
  <2> DEFINE c == Target[ri]
  <2>1. /\ c \in Conn /\ c \in Listener /\ head + 1 \in DOMAIN log /\ head \in Nat
        /\ log[head + 1].conv = ConvOf[c]
        /\ \A i \in DOMAIN sent[c] : sent[c][i] <= head
    BY <1>2, WriteIsNew DEF Inv, MembersOnly
  <2>2. \A i \in DOMAIN sent[c] : sent[c][i] < head + 1
    BY <2>1 DEF Inv, SocketInv, TypeInv, SocketTypeOK
  <2>3. sent' = [sent EXCEPT ![c] = Append(@, head + 1)] /\ log' = log
    BY <1>2 DEF WriteJSON
  <2>4. Distribution!Deliver(c, head + 1)
    BY <2>1, <2>2, <2>3 DEF Distribution!Deliver
  <2> QED
    BY <2>1, <2>4 DEF Distribution!Next
<1>3. CASE SocketStep /\ ~WriteJSON
  BY <1>3, HiddenStep
<1>4. ASSUME NEW c \in Conn,
             \/ HandleConnections(c)
             \/ HandleFrame(c)
             \/ PublishMessageFails(c)
             \/ DropSender(c)
      PROVE  log' = log /\ sent' = sent
  BY <1>4 DEF HandleConnections, Upgrade, HandleFrame, HandleSendMessageEvent,
     HandleSeenMessageEvent, HandleIsTypingEvent, RejectSendMessageEvent,
     PublishMessageFails, DropSender, DeleteDisconnectedClient
<1>5. CASE ShutdownServer \/ UNCHANGED vars
  BY <1>5 DEF ShutdownServer, vars, socketVars
<1>6. ASSUME NEW u \in User, NEW k \in Conv, SaveMessage(u, k)
      PROVE  log' = log /\ sent' = sent
  BY <1>6 DEF SaveMessage, socketVars
<1> QED
  BY <1>1, <1>2, <1>3, <1>4, <1>5, <1>6 DEF Next, Publishing

\* The handlers, with mutex, hub, losses and failures, implement the broadcast.
THEOREM Implementation == Spec => ImplementsFanout
<1>1. Init => Distribution!Init
  BY DEF Init, SocketInit, Distribution!Init
<1> QED
  BY <1>1, InitInv, NextInv, NextFanout, PTL
     DEF Spec, ImplementsFanout, Distribution!Spec


(***************************************************************************)
(* Rows and events                                                         *)
(***************************************************************************)

\* The rows m back the event e.
Backs(m, e) ==
    /\ e.kind = "send" => \E i \in DOMAIN m : e.ids = {i} /\ m[i].conv = e.conv
    /\ e.kind = "seen" => \E i \in e.ids \cap DOMAIN m : m[i].seen

\* Message e, if it is one, is a row that c saved.
OwnRow(m, c, e) ==
    e.kind = "send" => \A i \in e.ids : m[i].sender = UserOf[c] /\ m[i].conv = ConvOf[c]

\* Rows are added and marked; nothing else of them changes.
Grown(m, n) ==
    \A i \in DOMAIN m :
        /\ i \in DOMAIN n
        /\ n[i].sender = m[i].sender /\ n[i].conv = m[i].conv
        /\ m[i].seen => n[i].seen

\* What was backed stays backed, and whose it was.
LEMMA BackedLater ==
    ASSUME NEW m, NEW n, NEW e, NEW c, Grown(m, n), Backs(m, e), OwnRow(m, c, e)
    PROVE  Backs(n, e) /\ OwnRow(n, c, e)
BY DEF Grown, Backs, OwnRow

LEMMA BackedLaterAlone ==
    ASSUME NEW m, NEW n, NEW e, Grown(m, n), Backs(m, e)
    PROVE  Backs(n, e)
BY DEF Grown, Backs

(***************************************************************************)
(* The invariant                                                           *)
(***************************************************************************)

Sends(e) == e.kind = "send"

\* Events are backed, those that are still to be published included; these are of
\* rows of their own goroutine.
EventsBacked ==
    /\ \A p \in DOMAIN log : Backs(msgs, log[p])
    /\ \A c \in Conn : Backs(msgs, pend[c]) /\ OwnRow(msgs, c, pend[c])

\* What a lone connection is about to announce is no earlier than all it has
\* announced, and the same only if it announces it again.
PendingLast ==
    \A c \in Conn : Lone(c) /\ Sends(pend[c]) =>
        \A p \in DOMAIN log : SentBy(p, c) =>
            \A i \in log[p].ids, j \in pend[c].ids : i <= j

RowsInv == EventsBacked /\ LoneSenderOrder /\ PendingLast

LEMMA InitRows == Init => RowsInv
<1> SUFFICES ASSUME Init PROVE RowsInv
  OBVIOUS
<1>1. /\ DOMAIN log = {} /\ DOMAIN msgs = {}
      /\ \A c \in Conn : pend[c].kind = "typing" /\ pend[c].ids = {}
  BY DEF Init, SocketInit, Nothing, Unsent
<1>2. EventsBacked
  BY <1>1 DEF EventsBacked, Backs, OwnRow
<1> QED
  BY <1>1, <1>2 DEF RowsInv, LoneSenderOrder, PendingLast, Sends

(***************************************************************************)
(* Steps                                                                   *)
(***************************************************************************)

\* A step that leaves the log alone and has one goroutine, at most, prepare an
\* event: no message, or one of a row that was not there before.
Prepares(c, e) ==
    /\ log' = log
    /\ Grown(msgs, msgs')
    /\ pend' = [pend EXCEPT ![c] = e]
    /\ Backs(msgs', e) /\ OwnRow(msgs', c, e)
    /\ Sends(e) => \A i \in e.ids, j \in DOMAIN msgs : j <= i

\* Whose message an event is does not change.
LEMMA SameSender ==
    ASSUME EventsBacked, NEW c \in Conn, NEW p \in DOMAIN log,
           log'[p] = log[p], Grown(msgs, msgs')
    PROVE  SentBy(p, c)' <=> SentBy(p, c)
BY DEF SentBy, EventsBacked, Backs, Grown

LEMMA PreparesRows ==
    ASSUME RowsInv, ChatTypes, NEW c \in Conn, NEW e, Prepares(c, e)
    PROVE  RowsInv'
<1>1. /\ pend'[c] = e
      /\ \A d \in Conn \ {c} : pend'[d] = pend[d]
  BY DEF Prepares, ChatTypes
<1>2. EventsBacked'
  <2>1. ASSUME NEW p \in DOMAIN log PROVE Backs(msgs', log[p])
    BY BackedLaterAlone DEF RowsInv, EventsBacked, Prepares
  <2>2. ASSUME NEW d \in Conn PROVE Backs(msgs', pend'[d]) /\ OwnRow(msgs', d, pend'[d])
    <3>1. CASE d = c
      BY <1>1, <3>1 DEF Prepares
    <3>2. CASE d # c
      BY <1>1, <3>2, BackedLater DEF RowsInv, EventsBacked, Prepares
    <3> QED BY <3>1, <3>2
  <2> QED BY <2>1, <2>2 DEF EventsBacked, Prepares
<1>5. \A d \in Conn, p \in DOMAIN log : SentBy(p, d)' <=> SentBy(p, d)
  BY SameSender DEF RowsInv, Prepares
<1>6. LoneSenderOrder'
  BY <1>5 DEF RowsInv, LoneSenderOrder, Prepares, Lone
<1>7. PendingLast'
  <2> SUFFICES ASSUME NEW d \in Conn, Lone(d), Sends(pend'[d]),
                      NEW p \in DOMAIN log, SentBy(p, d),
                      NEW i \in log[p].ids, NEW j \in pend'[d].ids
               PROVE  i <= j
    BY <1>5 DEF PendingLast, Prepares, Lone, Sends
  <2>1. i \in DOMAIN msgs
    BY DEF RowsInv, EventsBacked, Backs, SentBy
  <2> QED
    BY <1>1, <2>1 DEF RowsInv, PendingLast, Prepares
<1> QED
  BY <1>2, <1>6, <1>7 DEF RowsInv

\* A goroutine appends its event to the log and has none in hand, or still has it.
LEMMA PublishesRows ==
    ASSUME RowsInv, ChatTypes, NEW c \in Conn, PublishMessage(c)
    PROVE  RowsInv'
<1>1. /\ Len(log) \in Nat /\ DOMAIN log = 1..Len(log)
      /\ DOMAIN log' = DOMAIN log \cup {Len(log) + 1}
      /\ \A p \in DOMAIN log : log'[p] = log[p]
      /\ log'[Len(log) + 1] = pend[c]
      /\ msgs' = msgs
  <2>1. log' = Append(log, pend[c]) /\ pend[c] \in Event /\ log \in Seq(Event)
    BY DEF PublishMessage, ChatTypes
  <2>2. DOMAIN log' = 1..(Len(log) + 1)
    BY <2>1, AppendProperties
  <2> QED
    BY <2>1, <2>2, AppendProperties DEF PublishMessage, elsewhere
<1> DEFINE last == Len(log) + 1
<1> HIDE DEF last
<1>2. /\ \/ pend'[c].kind = "typing" /\ pend'[c].ids = {}
         \/ pend'[c] = pend[c]
      /\ \A d \in Conn \ {c} : pend'[d] = pend[d]
  BY DEF PublishMessage, ChatTypes, Nothing, Unsent
<1>3. Grown(msgs, msgs')
  BY <1>1 DEF Grown
<1>4. EventsBacked'
  <2>1. ASSUME NEW p \in DOMAIN log' PROVE Backs(msgs, log'[p])
    BY <1>1 DEF RowsInv, EventsBacked
  <2>2. ASSUME NEW d \in Conn PROVE Backs(msgs, pend'[d]) /\ OwnRow(msgs, d, pend'[d])
    <3>1. CASE d = c
      BY <1>2, <3>1 DEF RowsInv, EventsBacked, Backs, OwnRow
    <3>2. CASE d # c
      BY <1>2, <3>2 DEF RowsInv, EventsBacked
    <3> QED BY <3>1, <3>2
  <2> QED BY <1>1, <2>1, <2>2 DEF EventsBacked
<1>6. \A d \in Conn, p \in DOMAIN log : SentBy(p, d)' <=> SentBy(p, d)
  BY <1>1, <1>3, SameSender DEF RowsInv
<1>7. ASSUME NEW d \in Conn, Lone(d), NEW q, q = Len(log) + 1, SentBy(q, d)'
      PROVE  d = c /\ Sends(pend[c])
  <2>1. /\ pend[c].kind = "send"
        /\ \E i \in pend[c].ids \cap DOMAIN msgs : msgs[i].sender = UserOf[d] /\ msgs[i].conv = ConvOf[d]
    BY <1>1, <1>7 DEF SentBy
  <2>2. UserOf[c] = UserOf[d] /\ ConvOf[c] = ConvOf[d]
    BY <2>1 DEF RowsInv, EventsBacked, OwnRow
  <2> QED
    BY <1>7, <2>1, <2>2 DEF Lone, Sends
<1>8. LoneSenderOrder'
  <2> SUFFICES ASSUME NEW d \in Conn, Lone(d),
                      NEW p \in DOMAIN log', NEW q \in DOMAIN log',
                      p < q, SentBy(p, d)', SentBy(q, d)',
                      NEW i \in log'[p].ids, NEW j \in log'[q].ids
               PROVE  i <= j
    BY DEF LoneSenderOrder, Lone
  <2>1. CASE q \in DOMAIN log
    <3>1. p \in DOMAIN log
      BY <1>1, <2>1
    <3> QED
      BY <1>1, <1>6, <2>1, <3>1 DEF RowsInv, LoneSenderOrder
  <2>2. CASE q = Len(log) + 1
    <3>1. p \in DOMAIN log
      BY <1>1, <2>2
    <3>2. d = c /\ Sends(pend[c])
      BY <1>7, <2>2
    <3> QED
      BY <1>1, <1>6, <2>2, <3>1, <3>2 DEF RowsInv, PendingLast
  <2> QED BY <1>1, <2>1, <2>2
<1>9. PendingLast'
  <2> SUFFICES ASSUME NEW d \in Conn, Lone(d), Sends(pend'[d]),
                      NEW p \in DOMAIN log', SentBy(p, d)',
                      NEW i \in log'[p].ids, NEW j \in pend'[d].ids
               PROVE  i <= j
    BY DEF PendingLast, Lone, Sends
  <2>1. pend'[d] = pend[d]
    BY <1>2 DEF Sends
  <2>2. CASE p \in DOMAIN log
    BY <1>1, <1>6, <2>1, <2>2 DEF RowsInv, PendingLast, Sends
  <2>3. CASE p = Len(log) + 1
    <3>1. d = c /\ Sends(pend[c])
      BY <1>7, <2>3
    <3>2. PICK k \in DOMAIN msgs : pend[c].ids = {k}
      BY <3>1 DEF RowsInv, EventsBacked, Backs, Sends
    <3>3. i = k /\ j = k /\ k \in Nat
      BY <1>1, <2>1, <2>3, <3>1, <3>2 DEF ChatTypes
    <3> QED BY <3>3
  <2> QED BY <1>1, <2>2, <2>3
<1> QED
  BY <1>4, <1>8, <1>9 DEF RowsInv

\* Rows may come and events may not.
LEMMA UnpreparedRows ==
    ASSUME RowsInv, log' = log, pend' = pend, Grown(msgs, msgs')
    PROVE  RowsInv'
<1>1. EventsBacked'
  <2>1. ASSUME NEW p \in DOMAIN log PROVE Backs(msgs', log[p])
    BY BackedLaterAlone DEF RowsInv, EventsBacked
  <2>2. ASSUME NEW d \in Conn PROVE Backs(msgs', pend[d]) /\ OwnRow(msgs', d, pend[d])
    BY BackedLater DEF RowsInv, EventsBacked
  <2> QED BY <2>1, <2>2 DEF EventsBacked
<1>2. \A d \in Conn, p \in DOMAIN log : SentBy(p, d)' <=> SentBy(p, d)
  BY SameSender DEF RowsInv
<1>4. LoneSenderOrder'
  BY <1>2 DEF RowsInv, LoneSenderOrder, Lone
<1>5. PendingLast'
  BY <1>2 DEF RowsInv, PendingLast, Lone, Sends
<1> QED
  BY <1>1, <1>4, <1>5 DEF RowsInv

\* Saving a row leaves the others as they are.
LEMMA AppendGrows ==
    ASSUME NEW m \in Seq(Message), NEW row \in Message
    PROVE  /\ Grown(m, Append(m, row))
           /\ DOMAIN Append(m, row) = DOMAIN m \cup {Len(m) + 1}
           /\ Append(m, row)[Len(m) + 1] = row
<1>1. /\ Append(m, row) \in Seq(Message) /\ Len(Append(m, row)) = Len(m) + 1
      /\ \A i \in 1..Len(m) : Append(m, row)[i] = m[i]
      /\ Append(m, row)[Len(m) + 1] = row
      /\ DOMAIN m = 1..Len(m) /\ Len(m) \in Nat
  BY AppendProperties
<1>2. DOMAIN Append(m, row) = 1..(Len(m) + 1)
  BY <1>1
<1> QED
  BY <1>1, <1>2 DEF Grown

LEMMA NextRows == Inv /\ RowsInv /\ [Next]_vars => RowsInv'
<1> SUFFICES ASSUME Inv, RowsInv, [Next]_vars PROVE RowsInv'
  OBVIOUS
<1> USE DEF elsewhere, table
<1>0. ChatTypes /\ Grown(msgs, msgs)
  BY DEF Inv, Grown
<1>1. CASE SocketStep /\ UNCHANGED table
  <2>1. log' = log
    BY <1>1, HiddenStep DEF WriteJSON
  <2> QED BY <1>0, <1>1, <2>1, UnpreparedRows
<1>2. ASSUME NEW c \in Conn,
             HandleConnections(c) \/ RejectSendMessageEvent(c) \/ DropSender(c)
      PROVE  RowsInv'
  <2>1. log' = log /\ pend' = pend /\ msgs' = msgs
    BY <1>2 DEF HandleConnections, Upgrade, RejectSendMessageEvent, DropSender,
       DeleteDisconnectedClient
  <2> QED BY <1>0, <2>1, UnpreparedRows
<1>3. CASE ShutdownServer \/ UNCHANGED vars
  <2>1. log' = log /\ pend' = pend /\ msgs' = msgs
    BY <1>3 DEF ShutdownServer, vars, socketVars
  <2> QED BY <1>0, <2>1, UnpreparedRows
<1>4. ASSUME NEW u \in User, NEW k \in Conv, SaveMessage(u, k) PROVE RowsInv'
  <2>1. Unread(u, k) \in Message
    BY DEF Unread, Message
  <2>2. Grown(msgs, msgs')
    BY <1>0, <1>4, <2>1, AppendGrows DEF SaveMessage, ChatTypes
  <2> QED BY <1>4, <2>2, UnpreparedRows DEF SaveMessage, socketVars
<1>5. ASSUME NEW c \in Conn, HandleSendMessageEvent(c) PROVE RowsInv'
  <2> DEFINE e == Unsent("send", c, {Len(msgs) + 1})
  <2>1. Unread(UserOf[c], ConvOf[c]) \in Message
    BY UserOfAssumption, ConvOfAssumption DEF Unread, Message
  <2>2. /\ Grown(msgs, msgs') /\ DOMAIN msgs' = DOMAIN msgs \cup {Len(msgs) + 1}
        /\ msgs'[Len(msgs) + 1] = Unread(UserOf[c], ConvOf[c])
    BY <1>0, <1>5, <2>1, AppendGrows DEF HandleSendMessageEvent, ChatTypes
  <2>3. Len(msgs) \in Nat /\ DOMAIN msgs = 1..Len(msgs)
    BY <1>0 DEF ChatTypes
  <2>4. e.kind = "send" /\ e.conv = ConvOf[c] /\ e.ids = {Len(msgs) + 1}
    BY DEF Unsent
  <2>5. msgs'[Len(msgs) + 1].sender = UserOf[c] /\ msgs'[Len(msgs) + 1].conv = ConvOf[c]
    BY <2>2 DEF Unread
  <2>6. log' = log /\ pend' = [pend EXCEPT ![c] = e]
    BY <1>5 DEF HandleSendMessageEvent
  <2> HIDE DEF e
  <2>7. Backs(msgs', e) /\ OwnRow(msgs', c, e)
    BY <2>2, <2>4, <2>5 DEF Backs, OwnRow
  <2>8. Prepares(c, e)
    BY <2>2, <2>3, <2>4, <2>6, <2>7 DEF Prepares
  <2> QED BY <1>0, <2>8, PreparesRows
<1>6. ASSUME NEW c \in Conn, NEW ids \in SUBSET MsgId, HandleSeenMessageEvent(c, ids)
      PROVE  RowsInv'
  <2> DEFINE e == Unsent("seen", c, ids)
  <2>1. /\ DOMAIN msgs' = DOMAIN msgs
        /\ \A i \in DOMAIN msgs :
              msgs'[i] = [msgs[i] EXCEPT !.seen = @ \/ i \in Marked(c, ids)]
    BY <1>0, <1>6, MarkSeenProperties DEF HandleSeenMessageEvent, ChatTypes
  <2>2. \A i \in DOMAIN msgs : msgs[i] \in Message
    BY <1>0 DEF ChatTypes
  <2>3. \A i \in DOMAIN msgs :
            /\ msgs'[i].sender = msgs[i].sender /\ msgs'[i].conv = msgs[i].conv
            /\ msgs'[i].seen = (msgs[i].seen \/ i \in Marked(c, ids))
    BY <2>1, <2>2 DEF Message
  <2>4. Grown(msgs, msgs')
    BY <2>1, <2>3 DEF Grown
  <2>5. e.kind = "seen" /\ e.ids = ids
    BY DEF Unsent
  <2>6. Backs(msgs', e) /\ OwnRow(msgs', c, e)
    BY <1>6, <2>1, <2>3, <2>5 DEF Backs, OwnRow, HandleSeenMessageEvent, Marked
  <2>7. log' = log /\ pend' = [pend EXCEPT ![c] = e]
    BY <1>6 DEF HandleSeenMessageEvent
  <2> HIDE DEF e
  <2>8. Prepares(c, e)
    BY <2>4, <2>5, <2>6, <2>7 DEF Prepares, Sends
  <2> QED BY <1>0, <2>8, PreparesRows
<1>7. ASSUME NEW c \in Conn, HandleIsTypingEvent(c) \/ PublishMessageFails(c)
      PROVE  RowsInv'
  <2>1. Nothing(c).kind = "typing" /\ Nothing(c).ids = {}
    BY DEF Nothing, Unsent
  <2>2. log' = log /\ msgs' = msgs /\ pend' = [pend EXCEPT ![c] = Nothing(c)]
    BY <1>7 DEF HandleIsTypingEvent, PublishMessageFails, Nothing
  <2>3. Prepares(c, Nothing(c))
    BY <1>0, <2>1, <2>2 DEF Prepares, Backs, OwnRow, Sends
  <2> QED BY <1>0, <2>3, PreparesRows
<1>8. ASSUME NEW c \in Conn, PublishMessage(c) PROVE RowsInv'
  BY <1>0, <1>8, PublishesRows
<1> QED
  BY <1>1, <1>2, <1>3, <1>4, <1>5, <1>6, <1>7, <1>8 DEF Next, HandleFrame, Publishing

(***************************************************************************)
(* The theorems                                                            *)
(***************************************************************************)

\* Whatever is broadcast is in the database: message events name one saved row of
\* their conversation, and seen events, among whatever the client named, a row that
\* is marked.
THEOREM BackedCorrect == Spec => []BroadcastBacked
<1>1. RowsInv => BroadcastBacked
  BY DEF RowsInv, EventsBacked, Backs, BroadcastBacked
<1> QED
  BY <1>1, InitInv, NextInv, InitRows, NextRows, PTL DEF Spec

\* The messages of a user with one connection are broadcast in the order in which
\* they were saved.
THEOREM SenderOrderCorrect == Spec => []LoneSenderOrder
<1>1. RowsInv => LoneSenderOrder
  BY DEF RowsInv
<1> QED
  BY <1>1, InitInv, NextInv, InitRows, NextRows, PTL DEF Spec
===============================================================================
