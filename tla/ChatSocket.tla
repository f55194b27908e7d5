----------------------------- MODULE ChatSocket -----------------------------
(***************************************************************************)
(* The chat websocket of internal/handlers/socket_chat_handler.go with the *)
(* rows it writes through ChatService and ChatRepository: SocketHub, with  *)
(* connections that only members of a conversation get, and frames that    *)
(* save messages, mark them as seen and publish events to Redis.           *)
(***************************************************************************)
EXTENDS SocketHub

CONSTANTS
    Member,     \* the rows <<user, conversation>> of conversation_members
    Frames,     \* the kinds of frame clients send; "post": messages sent by REST
    Garbling,   \* the connections whose client may send frames that do not parse: in the
                \* code all, for TLC a bound
    MaxMsgs,    \* bound: rows of the messages table
    MaxEvents   \* bound: events published

ASSUME MemberAssumption == Member \subseteq User \X Conv
ASSUME FramesAssumption == Frames \subseteq {"send", "seen", "typing", "post"}
ASSUME BoundsAssumption == MaxMsgs \in Nat /\ MaxEvents \in Nat

VARIABLES
    pend,     \* the event that the goroutine of a connection is about to publish
    msgs,     \* the messages table; a row's id is its position
    dropped   \* history: the connections that their own frame took out of the hub

table == <<pend, msgs, dropped>>
vars == <<socketVars, table>>

\* A frame is handled by its connection alone.
elsewhere == <<hub, mu, sockets, consumer, main>>

\* What a client names; the last one is never the id of a row.
MsgId == 1..MaxMsgs + 1
Event == [kind : {"send", "seen", "typing"}, conv : Conv, ids : SUBSET MsgId]
Message == [conv : Conv, sender : User, seen : BOOLEAN]

Unread(u, k) == [conv |-> k, sender |-> u, seen |-> FALSE]
Unsent(kind, c, ids) == [kind |-> kind, conv |-> ConvOf[c], ids |-> ids]
Nothing(c) == Unsent("typing", c, {})

Init ==
    /\ SocketInit
    /\ pend = [c \in Conn |-> Nothing(c)]
    /\ msgs = << >>
    /\ dropped = {}

\* Mutant: membership is not checked.
ConnectAnybody(c) == Upgrade(c) /\ UNCHANGED table

\* An authenticated member of an existing conversation is upgraded; after
\* httpServer.Shutdown there are no new connections.
HandleConnections(c) ==
    /\ <<UserOf[c], ConvOf[c]>> \in Member
    /\ Upgrade(c)
    /\ UNCHANGED table

\* SaveMessage commits the row before anything is published.
HandleSendMessageEvent(c) ==
    /\ "send" \in Frames
    /\ Len(msgs) < MaxMsgs
    /\ Goto(c, "reading", "publishing")
    /\ msgs' = Append(msgs, Unread(UserOf[c], ConvOf[c]))
    /\ pend' = [pend EXCEPT ![c] = Unsent("send", c, {Len(msgs) + 1})]
    /\ UNCHANGED <<elsewhere, log, dropped>>

\* The rows SeenMessage updates: named by the client, unseen, of another sender.
Marked(c, ids) ==
    {i \in ids \cap DOMAIN msgs : ~msgs[i].seen /\ msgs[i].sender # UserOf[c]}

MarkSeen(rows, marks) ==
    [i \in DOMAIN rows |-> [rows[i] EXCEPT !.seen = @ \/ i \in marks]]

\* Mutant: the event is published although no row was updated.
AnnounceUnmarked(c, ids) ==
    /\ "seen" \in Frames
    /\ ids # {}
    /\ Goto(c, "reading", "publishing")
    /\ msgs' = MarkSeen(msgs, Marked(c, ids))
    /\ pend' = [pend EXCEPT ![c] = Unsent("seen", c, ids)]
    /\ UNCHANGED <<elsewhere, log, dropped>>

\* One row marked is enough; the event repeats every id the client named, of
\* whatever conversation and of rows there are not.
HandleSeenMessageEvent(c, ids) ==
    /\ "seen" \in Frames
    /\ Marked(c, ids) # {}
    /\ Goto(c, "reading", "publishing")
    /\ msgs' = MarkSeen(msgs, Marked(c, ids))
    /\ pend' = [pend EXCEPT ![c] = Unsent("seen", c, ids)]
    /\ UNCHANGED <<elsewhere, log, dropped>>

HandleIsTypingEvent(c) ==
    /\ "typing" \in Frames
    /\ Goto(c, "reading", "publishing")
    /\ pend' = [pend EXCEPT ![c] = Unsent("typing", c, {})]
    /\ UNCHANGED <<elsewhere, log, msgs, dropped>>

\* A message frame whose payload does not parse: the sender leaves the hub while
\* its socket stays open and is read on.
RejectSendMessageEvent(c) ==
    /\ c \in Garbling
    /\ Goto(c, "reading", "dropping")
    /\ UNCHANGED <<elsewhere, log, table>>

\* Mutant: each event is published by a goroutine of its own, and one overtakes
\* another.
PublishInBackground(c) ==
    /\ Len(log) < MaxEvents
    /\ Goto(c, "publishing", "reading")
    /\ log' \in {Append(log, pend[c]), <<pend[c]>> \o log}
    /\ pend' = [pend EXCEPT ![c] = Nothing(c)]
    /\ UNCHANGED <<elsewhere, msgs, dropped>>

\* When the answer is lost on the way, go-redis publishes the event again, or
\* gives up.
PublishMessage(c) ==
    /\ Len(log) < MaxEvents
    /\ pc[c] = "publishing"
    /\ log' = Append(log, pend[c])
    /\ \/ /\ Goto(c, "publishing", "reading")
          /\ pend' = [pend EXCEPT ![c] = Nothing(c)]
       \/ UNCHANGED <<pc, pend>>
    /\ UNCHANGED <<elsewhere, msgs, dropped>>

\* Redis refuses; the row stays and the event is never sent again.
PublishMessageFails(c) ==
    /\ Goto(c, "publishing", "reading")
    /\ pend' = [pend EXCEPT ![c] = Nothing(c)]
    /\ UNCHANGED <<elsewhere, log, msgs, dropped>>

DropSender(c) ==
    /\ Goto(c, "dropping", "reading")
    /\ DeleteDisconnectedClient(c)
    /\ dropped' = dropped \cup {c}
    /\ UNCHANGED <<pend, msgs>>

\* The REST route saves a message without a look at the membership, and tells
\* nobody.
SaveMessage(u, k) ==
    /\ "post" \in Frames
    /\ main = "serving"
    /\ Len(msgs) < MaxMsgs
    /\ msgs' = Append(msgs, Unread(u, k))
    /\ UNCHANGED <<socketVars, pend, dropped>>

\* The signal came and httpServer.Shutdown, which ignores websockets, returned;
\* log.Fatalf when it could not close the listener.
ShutdownServer ==
    /\ main = "serving"
    /\ main' \in {"locking", "crashed"}
    /\ UNCHANGED <<hub, mu, pc, sockets, log, consumer, table>>

-----------------------------------------------------------------------------
HandleFrame(c) ==
    \/ HandleSendMessageEvent(c)
    \/ \E ids \in SUBSET MsgId : HandleSeenMessageEvent(c, ids)
    \/ HandleIsTypingEvent(c)
    \/ RejectSendMessageEvent(c)

Publishing(c) == PublishMessage(c) \/ PublishMessageFails(c)

Next ==
    /\ Alive
    /\ \/ SocketStep /\ UNCHANGED table
       \/ \E c \in Conn :
            \/ HandleConnections(c)
            \/ HandleFrame(c)
            \/ Publishing(c)
            \/ DropSender(c)
       \/ \E u \in User, k \in Conv : SaveMessage(u, k)
       \/ ShutdownServer

Spec == Init /\ [][Next]_vars

(***************************************************************************)
(* Goroutines that can run do run, and a sync.Mutex that is free goes to a *)
(* waiter. A departed client has left finitely many frames to read, so its *)
(* reader comes to the end of them. Clients, Redis' losses, the signals    *)
(* and the runtime's race detector owe nothing.                            *)
(***************************************************************************)
Fairness ==
    /\ \A c \in Conn :
          /\ WF_vars(Alive /\ ConnStep(c) /\ UNCHANGED table)
          /\ WF_vars(Alive /\ (Publishing(c) \/ DropSender(c)))
          /\ SF_vars(Alive /\ ReadFails(c) /\ UNCHANGED table)
    /\ WF_vars(Alive /\ ConsumerStep /\ UNCHANGED table)
    /\ WF_vars(Alive /\ MainStep /\ UNCHANGED table)

FairSpec == Spec /\ Fairness
=============================================================================
