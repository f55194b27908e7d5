------------------------ MODULE ChatSocketProperties ------------------------
(***************************************************************************)
(* What is claimed of ChatSocket: by the comments of the code, or by the   *)
(* way clients and handlers rely on it.                                    *)
(***************************************************************************)
EXTENDS ChatSocket, SocketHubProperties

\* Every variable stays in the set the code's types and control points allow.
TypeOK ==
    /\ SocketTypeOK
    /\ pend \in [Conn -> Event]
    /\ msgs \in Seq(Message) /\ Len(msgs) <= MaxMsgs
    /\ log \in Seq(Event)
    /\ dropped \subseteq Conn

(***************************************************************************)
(* Safety                                                                  *)
(***************************************************************************)

\* Nothing is broadcast that the database does not hold: a message event names
\* one saved row of its conversation, a seen event at least one row that is marked,
\* of whatever conversation (handleSendMessageEvent saves before it publishes,
\* handleSeenMessageEvent publishes only if a row was updated). The other ids of a
\* seen event are the client's own.
BroadcastBacked ==
    \A p \in DOMAIN log :
        /\ log[p].kind = "send" =>
              \E i \in DOMAIN msgs : log[p].ids = {i} /\ msgs[i].conv = log[p].conv
        /\ log[p].kind = "seen" => \E i \in log[p].ids \cap DOMAIN msgs : msgs[i].seen

SentBy(p, c) ==
    /\ log[p].kind = "send"
    /\ \E i \in log[p].ids \cap DOMAIN msgs : msgs[i].sender = UserOf[c] /\ msgs[i].conv = ConvOf[c]

\* The messages of a user with one connection are broadcast in the order in
\* which they were saved, also when some publications fail in between or are
\* repeated: saving and publishing are two steps, but one goroutine does both.
LoneSenderOrder ==
    \A c \in Conn : Lone(c) =>
        \A p, q \in DOMAIN log :
            p < q /\ SentBy(p, c) /\ SentBy(q, c) =>
                \A i \in log[p].ids, j \in log[q].ids : i <= j

\* While the chat serves, a user's only connection has its hub entry from the
\* moment it starts reading until its own goroutine deletes it, whatever the
\* other connections, the consumer and their failures do. It may do so before
\* the client leaves, once the client has sent a frame that does not parse.
LoneStaysRegistered ==
    \A c \in Conn :
        /\ Lone(c)
        /\ main \in {"serving", "locking"}
        /\ pc[c] \in {"logging", "reading", "publishing", "dropping", "closeHandler"}
        /\ c \notin dropped
        => Registered(hub, c)

\* A user's only connection that left with a close frame of any code or a bare
\* end of file leaves no entry behind; only a network error, a socket the
\* server closed under the reader, and an aborted shutdown do.
LoneLeavesNoEntry ==
    \A c \in Conn :
        /\ Lone(c)
        /\ pc[c] \in {"closing", "done"}
        /\ Registered(hub, c)
        => peer[c] = "reset" \/ rpc = "relocking" \/ main \in {"aborted", "crashed", "exited"}

(***************************************************************************)
(* The promise to the outside                                              *)
(***************************************************************************)

Listener == {c \in Conn : <<UserOf[c], ConvOf[c]>> \in Member}

Distribution == INSTANCE Fanout

\* The handlers implement an ordered, duplicate-free broadcast to members.
ImplementsFanout == Distribution!Spec

(***************************************************************************)
(* A claim of the code's own comments that its behaviours refute           *)
(***************************************************************************)

\* "Remove disconnected client from conversation" (socket_chat_handler.go:344):
\* what a deletion removes is an entry whose client is no longer connected. With
\* two connections of one user it removes the other one's.
OnlyDisconnectedRemoved ==
    [][\A c \in Conn :
        /\ Registered(hub, c) /\ ~Registered(hub', c)
        /\ main \notin {"draining", "aborted"}
        => Gone(c) \/ c \in closed]_vars
=============================================================================
