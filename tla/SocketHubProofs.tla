---------------------------- MODULE SocketHubProofs ----------------------------
(***************************************************************************)
(* Facts about the machinery of SocketHub, for every set of users,         *)
(* conversations and connections: what each of its steps keeps, and what a *)
(* step of the handler built on it must look like to keep it too.          *)
(***************************************************************************)
EXTENDS SocketHubProperties, HubProofs

(***************************************************************************)
(* The steps                                                               *)
(***************************************************************************)

\* The log of events only grows, by events of some conversation.
LogGrows ==
    /\ Len(log') \in Nat /\ Len(log) <= Len(log') /\ DOMAIN log' = 1..Len(log')
    /\ \A p \in DOMAIN log' : log'[p].conv \in Conv
    /\ \A p \in DOMAIN log : log'[p] = log[p]

\* A step of a connection past its registration, or of main before its shutdown.
Aside ==
    /\ UNCHANGED <<hub, mu, sockets, consumer>>
    /\ LogGrows
    /\ pc' \in [Conn -> Places]
    /\ \A d \in Conn : pc'[d] \in {"none", "upgraded"} => pc'[d] = pc[d]
    /\ \/ main' = main
       \/ main \in {"serving", "waiting"} /\ main' \in {"waiting", "locking", "crashed"}

\* What a handler built on the hub does between the hub's own steps, other than
\* upgrading a connection.
HandlerStep ==
    \/ Aside
    \/ \E c \in Conn : Goto(c, "dropping", "reading") /\ DeleteDisconnectedClient(c)

Step == SocketStep \/ HandlerStep \/ \E c \in Conn : Upgrade(c)

(***************************************************************************)
(* The invariant                                                           *)
(***************************************************************************)

\* SocketTypeOK alone is not inductive: that the cursor stays within the log
\* rests on the event in the consumer's hand being in it.
EventInHand == rpc \in {"sending", "relocking"} => head < Len(log)

TypeInv == SocketTypeOK /\ EventInHand

\* Entries are unique because a connection that has not got past its
\* registration has none.
NotYetRegistered ==
    \A c \in Conn : pc[c] \in {"none", "upgraded"} => ~Registered(hub, c)

HubInv == HubSound /\ NotYetRegistered

\* What was written to a socket lies behind the consumer's cursor, or is the
\* event in its hand and the socket one it has passed already.
Passed(c) ==
    /\ rpc \in {"sending", "relocking"}
    /\ \E j \in DOMAIN Target : j < ri /\ Target[j] = c

BehindCursor ==
    \A c \in Conn : \A i \in DOMAIN sent[c] :
        sent[c][i] <= head \/ (sent[c][i] = head + 1 /\ Passed(c))

OrderInv == DeliveredInOrder /\ BehindCursor

SocketInv == TypeInv /\ MutexHeld /\ HubInv /\ OrderInv

LEMMA InitSocketInv == SocketInit => SocketInv
<1> SUFFICES ASSUME SocketInit PROVE SocketInv
  OBVIOUS
<1>1. TypeInv
  <2>1. hub \in Hubs /\ sent \in [Conn -> Seq(Nat)]
    BY DEF SocketInit, EmptyHub, Hubs
  <2> QED
    BY <2>1 DEF SocketInit, TypeInv, SocketTypeOK, EventInHand, Departures, Places
<1>2. MutexHeld
  BY DEF SocketInit, MutexHeld
<1>3. HubInv
  <2>1. \A k \in Conv : hub[k] = << >> /\ DOMAIN hub[k] = {}
    BY DEF SocketInit, EmptyHub
  <2>2. SoundHub(hub)
    BY <2>1 DEF SoundHub
  <2>3. \A c : ~Registered(hub, c)
    BY <2>1 DEF Registered, ToSet
  <2> QED
    BY <2>2, <2>3 DEF HubInv, HubSound, NotYetRegistered
<1>4. OrderInv
  <2>1. \A c \in Conn : sent[c] = << >> /\ DOMAIN sent[c] = {}
    BY DEF SocketInit
  <2> QED
    BY <2>1 DEF OrderInv, DeliveredInOrder, Increasing, BehindCursor
<1> QED
  BY <1>1, <1>2, <1>3, <1>4 DEF SocketInv

(***************************************************************************)
(* Types                                                                   *)
(***************************************************************************)

\* While the consumer has an event in hand, it ranges over a slice of the hub.
LEMMA TargetType ==
    ASSUME TypeInv, rpc \in {"sending", "relocking"}
    PROVE  /\ head + 1 \in DOMAIN log /\ Current.conv \in Conv
           /\ Target \in Seq(Conn)
<1>1. head + 1 \in DOMAIN log
  BY DEF TypeInv, SocketTypeOK, EventInHand
<1>2. Current.conv \in Conv
  BY <1>1 DEF TypeInv, SocketTypeOK, Current
<1>3. Target \in Seq(Conn)
  BY <1>2 DEF TypeInv, SocketTypeOK, Target, Hubs
<1> QED
  BY <1>1, <1>2, <1>3

\* A log that stays the same grows.
LEMMA SameLog ==
    ASSUME TypeInv, log' = log
    PROVE  LogGrows
<1>1. /\ Len(log) \in Nat /\ DOMAIN log = 1..Len(log)
      /\ \A p \in DOMAIN log : log[p].conv \in Conv
  BY DEF TypeInv, SocketTypeOK
<1>2. Len(log') = Len(log) /\ DOMAIN log' = DOMAIN log
  OBVIOUS
<1> QED
  BY <1>1, <1>2 DEF LogGrows

LEMMA SocketStepTypeInv == TypeInv /\ SocketStep => TypeInv'
<1> SUFFICES ASSUME TypeInv, SocketStep PROVE TypeInv'
  OBVIOUS
<1> USE DEF consumer, sockets, TypeInv, EventInHand
<1>1. ASSUME NEW c \in Conn, HandleConversationAndClient(c) PROVE TypeInv'
  <2>1. hub' \in Hubs
    BY <1>1, RegisterProperties, ConvOfAssumption DEF SocketTypeOK, HandleConversationAndClient
  <2> QED
    BY <1>1, <2>1 DEF SocketTypeOK, HandleConversationAndClient, Goto, Places
<1>2. ASSUME NEW c \in Conn, LogConversations(c) PROVE TypeInv'
  BY <1>2 DEF SocketTypeOK, LogConversations, Goto, Places
<1>3. ASSUME NEW c \in Conn, CloseHandler(c) \/ DeleteAfterRead(c) PROVE TypeInv'
  <2>1. hub' \in Hubs
    BY <1>3, UnregisterProperties, ConvOfAssumption
       DEF SocketTypeOK, CloseHandler, DeleteAfterRead, DeleteDisconnectedClient
  <2> QED
    BY <1>3, <2>1
       DEF SocketTypeOK, CloseHandler, DeleteAfterRead, DeleteDisconnectedClient, Goto, Places
<1>4. ASSUME NEW c \in Conn, CloseSocket(c) PROVE TypeInv'
  BY <1>4 DEF SocketTypeOK, CloseSocket, Goto, Places
<1>5. ASSUME NEW c \in Conn, ReadFails(c) PROVE TypeInv'
  BY <1>5 DEF SocketTypeOK, ReadFails, ReadClose, ReadClosedSocket, Goto, Places
<1>6. ASSUME NEW c \in Conn, ClientStep(c) PROVE TypeInv'
  BY <1>6, WaysAssumption
     DEF SocketTypeOK, ClientStep, Leave, StopReading, ResumeReading, Departures
<1>7. CASE SubscribeToChannel \/ SubscribeFails
  BY <1>7 DEF SocketTypeOK, SubscribeToChannel, SubscribeFails
<1>8. CASE SendMessageToClient \/ LoseEvent
  <2>1. CASE SendMessageToClient
    BY <2>1 DEF SocketTypeOK, SendMessageToClient
  <2>2. CASE LoseEvent
    <3>1. head + 1 \in 0..Len(log)
      BY <2>2 DEF SocketTypeOK, LoseEvent
    <3> QED BY <2>2, <3>1 DEF SocketTypeOK, LoseEvent
  <2> QED BY <1>8, <2>1, <2>2
<1>9. CASE WriteJSON
  <2> DEFINE c == Target[ri]
  <2>1. head + 1 \in Nat /\ sent \in [Conn -> Seq(Nat)]
    BY DEF SocketTypeOK
  <2>2. sent' \in [Conn -> Seq(Nat)]
    <3> HIDE DEF c
    <3>1. ASSUME NEW d \in Conn PROVE Append(sent[d], head + 1) \in Seq(Nat)
      BY <2>1, AppendProperties
    <3> QED BY <1>9, <2>1, <3>1 DEF WriteJSON, c
  <2> QED
    BY <1>9, <2>2 DEF SocketTypeOK, WriteJSON
<1>10. CASE FinishSend \/ WriteToClosedSocket
  <2>1. rpc = "sending" /\ head + 1 \in 0..Len(log)
    BY <1>10 DEF SocketTypeOK, FinishSend, WriteToClosedSocket
  <2>2. /\ mu' = "free" /\ rpc' = "idle" /\ head' = head + 1 /\ ri' = 1
        /\ UNCHANGED <<hub, pc, peer, closed, sent, log, main>>
    BY <1>10 DEF FinishSend, WriteToClosedSocket, EndSend
  <2> QED BY <2>1, <2>2 DEF SocketTypeOK
<1>11. CASE WriteToGoneClient
  <2>1. Target \in Seq(Conn)
    BY <1>11, TargetType DEF WriteToGoneClient
  <2>2. Target[ri] \in Conn
    BY <1>11, <2>1 DEF SocketTypeOK, WriteToGoneClient
  <2> QED
    BY <1>11, <2>2 DEF SocketTypeOK, WriteToGoneClient
<1>12. ASSUME NEW k \in Conv, CloseConversation(k) PROVE TypeInv'
  <2>1. [hub EXCEPT ![k] = << >>] \in Hubs
    BY DropConversation DEF SocketTypeOK
  <2>2. ClosedBy(hub[k]) \subseteq Conn
    BY DEF SocketTypeOK, ClosedBy, Hubs
  <2> QED
    BY <1>12, <2>1, <2>2 DEF SocketTypeOK, CloseConversation
<1>13. CASE LockHub \/ UnlockHub \/ ConcurrentMapAccess \/ Exit
  BY <1>13 DEF SocketTypeOK, LockHub, UnlockHub, ConcurrentMapAccess, Exit
<1> QED
  BY <1>1, <1>2, <1>3, <1>4, <1>5, <1>6, <1>7, <1>8, <1>9, <1>10, <1>11, <1>12, <1>13
     DEF SocketStep, ConnStep, ConsumerStep, MainStep

LEMMA HandlerStepTypeInv == TypeInv /\ HandlerStep => TypeInv'
<1> SUFFICES ASSUME TypeInv, HandlerStep PROVE TypeInv'
  OBVIOUS
<1> USE DEF consumer, sockets, TypeInv, EventInHand
<1>1. CASE Aside
  BY <1>1 DEF SocketTypeOK, Aside, LogGrows
<1>2. ASSUME NEW c \in Conn, Goto(c, "dropping", "reading"), DeleteDisconnectedClient(c)
      PROVE  TypeInv'
  <2>1. hub' \in Hubs
    BY <1>2, UnregisterProperties, ConvOfAssumption
       DEF SocketTypeOK, DeleteDisconnectedClient
  <2> QED
    BY <1>2, <2>1 DEF SocketTypeOK, DeleteDisconnectedClient, Goto, Places
<1> QED
  BY <1>1, <1>2 DEF HandlerStep

LEMMA UpgradeTypeInv ==
    ASSUME TypeInv, NEW c \in Conn, Upgrade(c)
    PROVE  TypeInv'
BY DEF TypeInv, SocketTypeOK, EventInHand, Upgrade, Goto, Places, consumer, sockets

(***************************************************************************)
(* The mutex                                                               *)
(***************************************************************************)

LEMMA NextMutexHeld ==
    TypeInv /\ MutexHeld /\ Step => MutexHeld'
<1> SUFFICES ASSUME TypeInv, MutexHeld, Step PROVE MutexHeld'
  OBVIOUS
<1> USE DEF MutexHeld, consumer, sockets
<1>1. CASE HandlerStep
  BY <1>1 DEF HandlerStep, Aside, Upgrade, DeleteDisconnectedClient
<1>2. ASSUME NEW c \in Conn, ConnStep(c) PROVE MutexHeld'
  BY <1>2 DEF ConnStep, HandleConversationAndClient, LogConversations, CloseHandler,
     DeleteAfterRead, DeleteDisconnectedClient, CloseSocket
<1>3. ASSUME NEW c \in Conn, ReadFails(c) \/ ClientStep(c) PROVE MutexHeld'
  BY <1>3 DEF ReadFails, ReadClose, ReadClosedSocket, ClientStep, Leave, StopReading,
     ResumeReading
<1>4. CASE ConsumerStep \/ LoseEvent
  BY <1>4 DEF ConsumerStep, SubscribeToChannel, SubscribeFails, SendMessageToClient,
     WriteJSON, FinishSend, WriteToClosedSocket, EndSend, WriteToGoneClient, LoseEvent
<1>5. CASE ConcurrentMapAccess \/ LockHub \/ UnlockHub \/ Exit
  BY <1>5 DEF ConcurrentMapAccess, LockHub, UnlockHub, Exit
<1>6. ASSUME NEW k \in Conv, CloseConversation(k) PROVE MutexHeld'
  BY <1>6 DEF CloseConversation
<1>7. ASSUME NEW c \in Conn, Upgrade(c) PROVE MutexHeld'
  BY <1>7 DEF Upgrade
<1> QED
  BY <1>1, <1>2, <1>3, <1>4, <1>5, <1>6, <1>7 DEF Step, SocketStep, MainStep

\* No step changes the hub while the consumer ranges over it.
LEMMA HeldHub ==
    ASSUME MutexHeld, Step, rpc \in {"sending", "relocking"}
    PROVE  hub' = hub
<1>1. mu = "redis" /\ main # "draining"
  BY DEF MutexHeld
<1> USE <1>1 DEF consumer, sockets
<1>2. CASE HandlerStep \/ \E c \in Conn : Upgrade(c)
  BY <1>2 DEF HandlerStep, Aside, Upgrade, DeleteDisconnectedClient
<1>3. ASSUME NEW c \in Conn, ConnStep(c) PROVE hub' = hub
  BY <1>3 DEF ConnStep, HandleConversationAndClient, LogConversations, CloseHandler,
     DeleteAfterRead, DeleteDisconnectedClient, CloseSocket
<1>4. ASSUME NEW c \in Conn, ReadFails(c) \/ ClientStep(c) PROVE hub' = hub
  BY <1>4 DEF ReadFails, ReadClose, ReadClosedSocket, ClientStep, Leave, StopReading,
     ResumeReading
<1>5. CASE ConsumerStep \/ LoseEvent
  BY <1>5 DEF ConsumerStep, SubscribeToChannel, SubscribeFails, SendMessageToClient,
     WriteJSON, FinishSend, WriteToClosedSocket, EndSend, WriteToGoneClient, LoseEvent
<1>6. CASE ConcurrentMapAccess \/ MainStep \/ Exit
  BY <1>6 DEF ConcurrentMapAccess, MainStep, LockHub, UnlockHub, CloseConversation, Exit
<1> QED
  BY <1>2, <1>3, <1>4, <1>5, <1>6 DEF Step, SocketStep

(***************************************************************************)
(* The hub                                                                 *)
(***************************************************************************)

\* What one step does to the entries: one is new only if its connection was
\* registering; and no step but an upgrade leads back there.
LEMMA NextHub ==
    ASSUME TypeInv, SocketStep \/ HandlerStep
    PROVE  /\ \A d \in Conn : Registered(hub', d) =>
                 Registered(hub, d) \/ (pc[d] = "upgraded" /\ pc'[d] = "logging")
           /\ \A d \in Conn : pc'[d] \in {"none", "upgraded"} => pc'[d] = pc[d]
           /\ HubSound /\ NotYetRegistered => HubSound'
<1> DEFINE Entries(d) == Registered(hub', d) =>
                 Registered(hub, d) \/ (pc[d] = "upgraded" /\ pc'[d] = "logging")
           Moves(d) == pc'[d] \in {"none", "upgraded"} => pc'[d] = pc[d]
           Goal == /\ \A d \in Conn : Entries(d) /\ Moves(d)
                   /\ HubSound /\ NotYetRegistered => HubSound'
<1> SUFFICES Goal
  OBVIOUS
<1> USE DEF consumer, sockets
<1>0. hub \in Hubs /\ pc \in [Conn -> Places]
  BY DEF TypeInv, SocketTypeOK
<1>2. ASSUME NEW c \in Conn, HandleConversationAndClient(c) PROVE Goal
  <2>1. /\ hub' = Register(hub, ConvOf[c], c)
        /\ pc' = [pc EXCEPT ![c] = "logging"] /\ pc[c] = "upgraded"
    BY <1>2 DEF HandleConversationAndClient, Goto
  <2>2. /\ \A d : Registered(hub', d) => Registered(hub, d) \/ d = c
        /\ SoundHub(hub) /\ ~Registered(hub, c) => SoundHub(hub')
    BY <1>0, <2>1, RegisterProperties, ConvOfAssumption
  <2> QED
    BY <1>0, <2>1, <2>2 DEF HubSound, NotYetRegistered
<1>3. ASSUME NEW c \in Conn,
             \/ Goto(c, "dropping", "reading") /\ DeleteDisconnectedClient(c)
             \/ CloseHandler(c)
             \/ DeleteAfterRead(c)
      PROVE  Goal
  <2>1. /\ hub' = Unregister(hub, ConvOf[c], UserOf[c])
        /\ \A d \in Conn : pc'[d] \in {"none", "upgraded"} => pc'[d] = pc[d]
    BY <1>0, <1>3 DEF CloseHandler, DeleteAfterRead, DeleteDisconnectedClient, Goto
  <2>2. /\ SoundHub(hub) => SoundHub(hub')
        /\ \A d : Registered(hub', d) => Registered(hub, d)
    BY <1>0, <2>1, UnregisterProperties, ConvOfAssumption
  <2> QED BY <2>1, <2>2 DEF HubSound
<1>4. ASSUME NEW k \in Conv, CloseConversation(k) PROVE Goal
  <2>1. pc' = pc /\ (hub' = hub \/ hub' = [hub EXCEPT ![k] = << >>])
    BY <1>4 DEF CloseConversation
  <2>2. /\ SoundHub(hub) => SoundHub(hub')
        /\ \A d : Registered(hub', d) => Registered(hub, d)
    BY <1>0, <2>1, DropConversation
  <2> QED BY <2>1, <2>2 DEF HubSound
<1>5. ASSUME hub' = hub,
             \A d \in Conn : pc'[d] \in {"none", "upgraded"} => pc'[d] = pc[d]
      PROVE  Goal
  BY <1>5 DEF HubSound
<1>6. CASE Aside
  BY <1>5, <1>6 DEF Aside
<1>7. ASSUME NEW c \in Conn, LogConversations(c) \/ CloseSocket(c) \/ ReadFails(c)
      PROVE  Goal
  BY <1>0, <1>5, <1>7 DEF LogConversations, CloseSocket, ReadFails, ReadClose,
     ReadClosedSocket, Goto
<1>8. ASSUME NEW c \in Conn, ClientStep(c) PROVE Goal
  BY <1>5, <1>8 DEF ClientStep, Leave, StopReading, ResumeReading
<1>9. CASE ConsumerStep \/ LoseEvent
  BY <1>5, <1>9 DEF ConsumerStep, SubscribeToChannel, SubscribeFails,
     SendMessageToClient, WriteJSON, FinishSend, WriteToClosedSocket, EndSend,
     WriteToGoneClient, LoseEvent
<1>10. CASE ConcurrentMapAccess \/ LockHub \/ UnlockHub \/ Exit
  BY <1>5, <1>10 DEF ConcurrentMapAccess, LockHub, UnlockHub, Exit
<1> HIDE DEF Goal
<1> QED
  BY <1>2, <1>3, <1>4, <1>6, <1>7, <1>8, <1>9, <1>10
     DEF HandlerStep, SocketStep, ConnStep, MainStep

\* An entry goes when its user deletes in its conversation, or to the shutdown,
\* which closes what it drops.
LEMMA WhoUnregisters ==
    ASSUME TypeInv, HubSound, Step, NEW c \in Conn,
           Registered(hub, c), ~Registered(hub', c)
    PROVE  \/ main = "draining" /\ c \in closed'
           \/ \E d \in Conn :
                 /\ Deleting(d) /\ pc'[d] # pc[d]
                 /\ UserOf[d] = UserOf[c] /\ ConvOf[d] = ConvOf[c]
<1> DEFINE Goal == \/ main = "draining" /\ c \in closed'
                   \/ \E d \in Conn :
                         /\ Deleting(d) /\ pc'[d] # pc[d]
                         /\ UserOf[d] = UserOf[c] /\ ConvOf[d] = ConvOf[c]
<1> SUFFICES Goal
  OBVIOUS
<1> USE DEF consumer, sockets
<1>0. hub \in Hubs /\ pc \in [Conn -> Places]
  BY DEF TypeInv, SocketTypeOK
<1>1. ASSUME NEW d \in Conn,
             \/ Goto(d, "dropping", "reading") /\ DeleteDisconnectedClient(d)
             \/ CloseHandler(d)
             \/ DeleteAfterRead(d)
      PROVE  Goal
  <2>1. /\ hub' = Unregister(hub, ConvOf[d], UserOf[d])
        /\ Deleting(d) /\ pc'[d] # pc[d]
    BY <1>0, <1>1 DEF CloseHandler, DeleteAfterRead, DeleteDisconnectedClient, Goto,
       Deleting
  <2>2. UserOf[c] = UserOf[d] /\ ConvOf[c] = ConvOf[d]
    BY <1>0, <2>1, UnregisterLoses, ConvOfAssumption DEF HubSound
  <2> QED BY <2>1, <2>2
<1>2. ASSUME NEW k \in Conv, CloseConversation(k) PROVE Goal
  <2>1. /\ main = "draining" /\ closed' = closed \union ClosedBy(hub[k])
        /\ ToSet(hub[k]) \intersect closed = {} /\ hub' = [hub EXCEPT ![k] = << >>]
    BY <1>2 DEF CloseConversation
  <2> HIDE DEF Goal
  <2>2. PICK i \in DOMAIN hub[k] : hub[k][i] = c
    <3>1. ~Registered([hub EXCEPT ![k] = << >>], c)
      BY <2>1, Zenon
    <3> QED BY <1>0, <3>1, DropLoses
  <2>3. \A h \in 1..i : hub[k][h] \notin closed
    BY <1>0, <2>1, <2>2 DEF Hubs, ToSet
  <2> QED
    BY <2>1, <2>2, <2>3 DEF ClosedBy, Goal
<1>3. ASSUME NEW d \in Conn, HandleConversationAndClient(d) PROVE Goal
  <2> SUFFICES Registered(hub', c)
    OBVIOUS
  <2>1. hub' = Register(hub, ConvOf[d], d)
    BY <1>3 DEF HandleConversationAndClient
  <2> QED
    BY <1>0, <2>1, RegisterKeeps, ConvOfAssumption
<1>4. CASE HandlerStep \/ \E d \in Conn : Upgrade(d)
  BY <1>1, <1>4 DEF HandlerStep, Aside, Upgrade
<1>5. ASSUME NEW d \in Conn, ConnStep(d) PROVE Goal
  BY <1>1, <1>3, <1>5 DEF ConnStep, LogConversations, CloseSocket
<1>6. ASSUME NEW d \in Conn, ReadFails(d) \/ ClientStep(d) PROVE Goal
  BY <1>6 DEF ReadFails, ReadClose, ReadClosedSocket, ClientStep, Leave, StopReading,
     ResumeReading
<1>7. CASE ConsumerStep \/ LoseEvent
  BY <1>7 DEF ConsumerStep, SubscribeToChannel, SubscribeFails, SendMessageToClient,
     WriteJSON, FinishSend, WriteToClosedSocket, EndSend, WriteToGoneClient, LoseEvent
<1>8. CASE ConcurrentMapAccess \/ LockHub \/ UnlockHub \/ Exit
  BY <1>8 DEF ConcurrentMapAccess, LockHub, UnlockHub, Exit
<1> HIDE DEF Goal
<1> QED
  BY <1>2, <1>4, <1>5, <1>6, <1>7, <1>8 DEF Step, SocketStep, MainStep

LEMMA NextHubInv == TypeInv /\ HubInv /\ Step => HubInv'
<1> SUFFICES ASSUME TypeInv, HubInv, Step PROVE HubInv'
  OBVIOUS
<1>1. CASE SocketStep \/ HandlerStep
  BY <1>1, NextHub DEF HubInv, NotYetRegistered
<1>2. ASSUME NEW c \in Conn, Upgrade(c) PROVE HubInv'
  <2>1. hub' = hub /\ pc' = [pc EXCEPT ![c] = "upgraded"] /\ pc[c] = "none"
    BY <1>2 DEF Upgrade, Goto
  <2> QED
    BY <2>1 DEF TypeInv, SocketTypeOK, HubInv, HubSound, NotYetRegistered
<1> QED
  BY <1>1, <1>2 DEF Step

(***************************************************************************)
(* Order                                                                   *)
(***************************************************************************)

\* A step that leaves the sockets alone and moves the cursor forward, or not at
\* all, keeps OrderInv, whatever is appended to the log.
LEMMA OrderFrame ==
    ASSUME SocketInv, sent' = sent, head' \in Nat, head <= head',
           \A p \in DOMAIN log : p \in DOMAIN log' /\ log'[p] = log[p],
           \A c \in Conn : Passed(c) => Passed(c)' \/ head < head'
    PROVE  OrderInv'
<1>1. DeliveredInOrder'
  BY DEF SocketInv, OrderInv, DeliveredInOrder, Increasing
<1>2. ASSUME NEW c \in Conn, NEW i \in DOMAIN sent[c]
      PROVE  sent[c][i] <= head' \/ (sent[c][i] = head' + 1 /\ Passed(c)')
  <2>1. sent[c][i] \in Nat /\ head \in Nat
    BY DEF SocketInv, TypeInv, SocketTypeOK
  <2>2. CASE sent[c][i] <= head
    BY <2>1, <2>2
  <2>3. CASE sent[c][i] = head + 1 /\ Passed(c) /\ head < head'
    <3>1. sent[c][i] = head + 1 /\ head < head' /\ head' \in Nat
      BY <2>3
    <3>2. sent[c][i] <= head'
      BY <2>1, <3>1
    <3> QED BY <3>2
  <2>4. CASE sent[c][i] = head + 1 /\ Passed(c) /\ ~(head < head')
    <3>1. head' = head
      BY <2>1, <2>4
    <3>2. Passed(c)'
      BY <2>4
    <3> QED BY <2>4, <3>1, <3>2
  <2> QED
    BY <2>2, <2>3, <2>4 DEF SocketInv, OrderInv, BehindCursor
<1>3. BehindCursor'
  BY <1>2 DEF BehindCursor
<1> QED
  BY <1>1, <1>3 DEF OrderInv

\* The event in hand goes to a registered client of its conversation that has
\* not been written it yet, nor anything after it.
LEMMA WriteIsNew ==
    ASSUME SocketInv, WriteJSON
    PROVE  /\ Target[ri] \in Conn /\ Registered(hub, Target[ri])
           /\ head + 1 \in DOMAIN log /\ head \in Nat
           /\ log[head + 1].conv = ConvOf[Target[ri]]
           /\ \A i \in DOMAIN sent[Target[ri]] : sent[Target[ri]][i] <= head
<1> DEFINE k == Current.conv
           c == Target[ri]
<1>1. rpc = "sending" /\ ri \in Nat /\ head \in Nat
  BY DEF SocketInv, TypeInv, SocketTypeOK, WriteJSON
<1>2. /\ head + 1 \in DOMAIN log /\ k \in Conv
      /\ Target \in Seq(Conn) /\ Target = hub[k]
  BY <1>1, TargetType DEF SocketInv, Target
<1>3. ri \in DOMAIN Target /\ c \in Conn
  BY <1>2 DEF SocketInv, TypeInv, SocketTypeOK, WriteJSON
<1>4. ConvOf[c] = k
  BY <1>2, <1>3 DEF SocketInv, HubInv, HubSound, SoundHub
<1>5. Registered(hub, c)
  BY <1>2, <1>3, RegisteredMeans DEF SocketInv, TypeInv, SocketTypeOK
<1>6. ~Passed(c)
  BY <1>1, <1>2, <1>3 DEF Passed, SocketInv, HubInv, HubSound, SoundHub
<1>7. \A i \in DOMAIN sent[c] : sent[c][i] <= head
  BY <1>3, <1>6 DEF SocketInv, OrderInv, BehindCursor
<1> QED
  BY <1>1, <1>2, <1>3, <1>4, <1>5, <1>7 DEF Current

LEMMA WriteOrderInv == SocketInv /\ WriteJSON => OrderInv'
<1> SUFFICES ASSUME SocketInv, WriteJSON PROVE OrderInv'
  OBVIOUS
<1>0. PICK c \in Conn : c = Target[ri]
  BY WriteIsNew
<1>1. /\ head + 1 \in DOMAIN log /\ head \in Nat
      /\ log[head + 1].conv = ConvOf[c]
      /\ \A i \in DOMAIN sent[c] : sent[c][i] <= head
  BY <1>0, WriteIsNew
<1>2. /\ sent' = [sent EXCEPT ![c] = Append(@, head + 1)]
      /\ log' = log /\ head' = head /\ hub' = hub /\ rpc' = rpc /\ rpc = "sending"
      /\ ri' = ri + 1 /\ ri <= Len(Target)
  BY <1>0 DEF WriteJSON, consumer, sockets
<1>3. Target' = Target /\ Target \in Seq(Conn) /\ ri \in Nat \ {0}
  BY <1>2, TargetType DEF SocketInv, TypeInv, SocketTypeOK, Target, Current
<1>4. ASSUME NEW d \in Conn, Passed(d) \/ d = c PROVE Passed(d)'
  <2>1. PICK j \in DOMAIN Target : j <= ri /\ Target[j] = d
    BY <1>0, <1>2, <1>3, <1>4 DEF Passed
  <2>2. j \in DOMAIN Target' /\ j < ri' /\ Target'[j] = d
    BY <1>2, <1>3, <2>1
  <2> QED BY <1>2, <2>2 DEF Passed
<1>5. /\ sent \in [Conn -> Seq(Nat)]
      /\ sent'[c] = Append(sent[c], head + 1)
      /\ \A d \in Conn : d # c => sent'[d] = sent[d]
  BY <1>1, <1>2 DEF SocketInv, TypeInv, SocketTypeOK
<1>6. /\ DOMAIN sent[c] = 1..Len(sent[c]) /\ Len(sent[c]) \in Nat
      /\ DOMAIN sent'[c] = 1..(Len(sent[c]) + 1)
      /\ \A i \in DOMAIN sent[c] : sent'[c][i] = sent[c][i] /\ sent[c][i] \in Nat
      /\ sent'[c][Len(sent[c]) + 1] = head + 1
  BY <1>1, <1>5, AppendProperties
<1>7. ASSUME NEW d \in Conn, NEW i \in DOMAIN sent'[d]
      PROVE  \/ i \in DOMAIN sent[d] /\ sent'[d][i] = sent[d][i]
             \/ d = c /\ i = Len(sent[c]) + 1 /\ sent'[d][i] = head + 1
  <2>1. CASE d # c
    BY <1>5, <1>7, <2>1
  <2>2. CASE d = c
    BY <1>6, <1>7, <2>2
  <2> QED BY <2>1, <2>2
<1>8. DeliveredInOrder'
  <2>1. ASSUME NEW d \in Conn PROVE Increasing(sent'[d])
    <3>1. CASE d # c
      BY <1>5, <2>1, <3>1 DEF SocketInv, OrderInv, DeliveredInOrder
    <3>2. CASE d = c
      <4> SUFFICES ASSUME NEW i \in 1..(Len(sent[c]) + 1),
                          NEW j \in 1..(Len(sent[c]) + 1), i < j
                   PROVE  sent'[c][i] < sent'[c][j]
        BY <1>6, <3>2 DEF Increasing
      <4>1. CASE j \in 1..Len(sent[c])
        <5>1. i \in DOMAIN sent[c] /\ j \in DOMAIN sent[c]
          BY <1>6, <4>1
        <5> QED
          BY <1>1, <1>6, <5>1 DEF SocketInv, OrderInv, DeliveredInOrder, Increasing
      <4>2. CASE j = Len(sent[c]) + 1
        <5>1. i \in DOMAIN sent[c]
          BY <1>6, <4>2
        <5> QED
          BY <1>1, <1>6, <4>2, <5>1
      <4> QED BY <1>6, <4>1, <4>2
    <3> QED BY <3>1, <3>2
  <2>2. ASSUME NEW d \in Conn, NEW i \in DOMAIN sent'[d]
        PROVE  sent'[d][i] \in DOMAIN log /\ log[sent'[d][i]].conv = ConvOf[d]
    BY <1>1, <1>7, <2>2 DEF SocketInv, OrderInv, DeliveredInOrder
  <2> QED
    BY <1>2, <2>1, <2>2 DEF DeliveredInOrder
<1>9. BehindCursor'
  <2> SUFFICES ASSUME NEW d \in Conn, NEW i \in DOMAIN sent'[d]
               PROVE  sent'[d][i] <= head' \/ (sent'[d][i] = head' + 1 /\ Passed(d)')
    BY DEF BehindCursor
  <2>1. CASE i \in DOMAIN sent[d] /\ sent'[d][i] = sent[d][i]
    <3>1. sent[d][i] <= head \/ (sent[d][i] = head + 1 /\ Passed(d))
      BY <2>1 DEF SocketInv, OrderInv, BehindCursor
    <3> QED BY <1>2, <1>4, <2>1, <3>1
  <2>2. CASE d = c /\ sent'[d][i] = head + 1
    <3>1. Passed(d)'
      BY <1>4, <2>2
    <3> QED BY <1>2, <2>2, <3>1
  <2> QED BY <1>7, <2>1, <2>2
<1> QED
  BY <1>8, <1>9 DEF OrderInv

LEMMA NextOrderInv == SocketInv /\ Step => OrderInv'
<1> SUFFICES ASSUME SocketInv, Step PROVE OrderInv'
  OBVIOUS
<1> USE DEF consumer, sockets
<1>0. /\ head \in Nat /\ ri \in Nat /\ Len(log) \in Nat /\ DOMAIN log = 1..Len(log)
      /\ rpc \in {"sending", "relocking"} => hub' = hub /\ head + 1 \in DOMAIN log
  BY HeldHub, TargetType DEF SocketInv, TypeInv, SocketTypeOK
<1>1. ASSUME sent' = sent, head' = head, ri' = ri,
             rpc \in {"sending", "relocking"} => rpc' \in {"sending", "relocking"},
             \A p \in DOMAIN log : p \in DOMAIN log' /\ log'[p] = log[p]
      PROVE  OrderInv'
  <2>1. \A c \in Conn : Passed(c) => Passed(c)'
    BY <1>0, <1>1 DEF Passed, Target, Current
  <2> QED
    BY <1>0, <1>1, <2>1, OrderFrame
<1>2. CASE Aside
  <2>1. \A p \in DOMAIN log : p \in DOMAIN log' /\ log'[p] = log[p]
    BY <1>0, <1>2 DEF Aside, LogGrows
  <2> QED
    BY <1>1, <1>2, <2>1 DEF Aside
<1>3. ASSUME NEW c \in Conn, Upgrade(c) \/ DeleteDisconnectedClient(c) PROVE OrderInv'
  BY <1>1, <1>3 DEF Upgrade, DeleteDisconnectedClient
<1>4. ASSUME NEW c \in Conn, ConnStep(c) PROVE OrderInv'
  BY <1>1, <1>4 DEF ConnStep, HandleConversationAndClient, LogConversations,
     CloseHandler, DeleteAfterRead, DeleteDisconnectedClient, CloseSocket
<1>5. ASSUME NEW c \in Conn, ReadFails(c) \/ ClientStep(c) PROVE OrderInv'
  BY <1>1, <1>5 DEF ReadFails, ReadClose, ReadClosedSocket, ClientStep, Leave,
     StopReading, ResumeReading
<1>6. CASE SubscribeToChannel \/ LoseEvent
  <2>1. \A c \in Conn : ~Passed(c)
    BY <1>6 DEF Passed, SubscribeToChannel, LoseEvent
  <2>2. sent' = sent /\ log' = log /\ head' \in Nat /\ head <= head'
    BY <1>0, <1>6 DEF SubscribeToChannel, LoseEvent, SocketInv, TypeInv, SocketTypeOK
  <2> QED
    BY <2>1, <2>2, OrderFrame
<1>7. CASE SendMessageToClient
  <2>1. \A c \in Conn : ~Passed(c)
    BY <1>7 DEF Passed, SendMessageToClient
  <2> QED
    BY <1>0, <1>7, <2>1, OrderFrame DEF SendMessageToClient
<1>8. CASE WriteJSON
  BY <1>8, WriteOrderInv
<1>9. CASE FinishSend \/ WriteToClosedSocket
  <2>1. sent' = sent /\ log' = log /\ head' = head + 1
    BY <1>9 DEF FinishSend, WriteToClosedSocket, EndSend
  <2> QED
    BY <1>0, <2>1, OrderFrame
<1>10. CASE SubscribeFails \/ WriteToGoneClient
  BY <1>1, <1>10 DEF SubscribeFails, WriteToGoneClient
<1>11. CASE ConcurrentMapAccess \/ MainStep \/ Exit
  BY <1>1, <1>11 DEF ConcurrentMapAccess, MainStep, LockHub, UnlockHub,
     CloseConversation, Exit
<1> QED
  BY <1>2, <1>3, <1>4, <1>5, <1>6, <1>7, <1>8, <1>9, <1>10, <1>11
     DEF Step, HandlerStep, SocketStep, ConsumerStep

(***************************************************************************)
(* What the handlers' modules build on                                     *)
(***************************************************************************)

\* A step of the hub or of the handler keeps everything.
LEMMA NextSocketInv == SocketInv /\ Step => SocketInv'
BY SocketStepTypeInv, HandlerStepTypeInv, UpgradeTypeInv, NextMutexHeld, NextHubInv,
   NextOrderInv DEF SocketInv, Step

\* Only a write to a socket shows in what was sent; the hub publishes nothing.
LEMMA HiddenStep ==
    ASSUME SocketStep, ~WriteJSON
    PROVE  log' = log /\ sent' = sent
<1> USE DEF consumer, sockets
<1>1. ASSUME NEW c \in Conn, ConnStep(c) PROVE log' = log /\ sent' = sent
  BY <1>1 DEF ConnStep, HandleConversationAndClient, LogConversations,
     CloseHandler, DeleteAfterRead, DeleteDisconnectedClient, CloseSocket
<1>2. ASSUME NEW c \in Conn, ReadFails(c) \/ ClientStep(c)
      PROVE  log' = log /\ sent' = sent
  BY <1>2 DEF ReadFails, ReadClose, ReadClosedSocket, ClientStep, Leave,
     StopReading, ResumeReading
<1>3. CASE ConsumerStep \/ LoseEvent
  BY <1>3 DEF ConsumerStep, SubscribeToChannel, SubscribeFails, SendMessageToClient,
     FinishSend, WriteToClosedSocket, EndSend, WriteToGoneClient, LoseEvent
<1>4. CASE ConcurrentMapAccess \/ MainStep \/ Exit
  BY <1>4 DEF ConcurrentMapAccess, MainStep, LockHub, UnlockHub, CloseConversation, Exit
<1> QED
  BY <1>1, <1>2, <1>3, <1>4 DEF SocketStep
===============================================================================
