------------------------- MODULE SocketHubProperties -------------------------
(***************************************************************************)
(* What is claimed of the machinery that the chat's and the whiteboard's   *)
(* handlers share.                                                         *)
(***************************************************************************)
EXTENDS SocketHub

\* Where the goroutine of a connection may be.
Places == {"none", "upgraded", "logging", "reading", "publishing", "dropping",
           "closeHandler", "loopDelete", "closing", "done"}

\* Every variable stays in the set the code's types and control points allow.
SocketTypeOK ==
    /\ hub \in Hubs
    /\ mu \in {"free", "redis", "main"}
    /\ pc \in [Conn -> Places]
    /\ peer \in [Conn -> {"here", "stalled"} \union Departures]
    /\ closed \subseteq Conn
    /\ sent \in [Conn -> Seq(Nat)]
    /\ Len(log) \in Nat /\ DOMAIN log = 1..Len(log)
    /\ \A p \in DOMAIN log : log[p].conv \in Conv
    /\ head \in 0..Len(log)
    /\ rpc \in {"starting", "idle", "sending", "relocking"}
    /\ ri \in Nat \ {0}
    /\ main \in {"serving", "waiting", "locking", "draining", "aborted", "drained",
                 "crashed", "exited"}

(***************************************************************************)
(* Safety                                                                  *)
(***************************************************************************)

\* No interleaving of registrations, deletions, broadcasts and the shutdown
\* enters a socket twice or under a conversation it did not join
\* (handleConversationAndClinet, whose "if not exists" test never matches).
HubSound == SoundHub(hub)

\* The mutex is held by at most one of the consumer and the shutdown, and by
\* that one exactly while it ranges over the hub (or is stuck doing so).
MutexHeld ==
    /\ mu = "redis" <=> rpc \in {"sending", "relocking"}
    /\ mu = "main" => main \in {"draining", "aborted", "crashed", "exited"}
    /\ main \in {"draining", "aborted"} => mu = "main"

Increasing(s) == \A i, j \in DOMAIN s : i < j => s[i] < s[j]

\* Each socket is written events of its own conversation only, in the order in
\* which they were published and none of them twice (SendMessageToClient).
DeliveredInOrder ==
    \A c \in Conn :
        /\ Increasing(sent[c])
        /\ \A i \in DOMAIN sent[c] :
              /\ sent[c][i] \in DOMAIN log
              /\ log[sent[c][i]].conv = ConvOf[c]

\* c is the only connection of its user to its conversation.
Lone(c) ==
    \A d \in Conn \ {c} : <<UserOf[d], ConvOf[d]>> # <<UserOf[c], ConvOf[c]>>

(***************************************************************************)
(* What a step may do                                                      *)
(***************************************************************************)

Deleting(c) == pc[c] \in {"dropping", "closeHandler", "loopDelete"}

\* A connection loses its entry only to a goroutine of the same user in the
\* same conversation that is deleting, or to the shutdown
\* (deleteDiconnectedClientFromConversation).
OnlyOwnUserUnregisters ==
    [][\A c \in Conn :
        Registered(hub, c) /\ ~Registered(hub', c) =>
            \/ main = "draining" /\ c \in closed'
            \/ \E d \in Conn :
                  /\ Deleting(d) /\ pc'[d] # pc[d]
                  /\ UserOf[d] = UserOf[c] /\ ConvOf[d] = ConvOf[c]]_socketVars

\* Nobody changes the slices of the hub while the consumer ranges over one of
\* them: the interleaved registrations and deletions wait for the mutex.
HeldHubStandsStill ==
    [][mu = "redis" => UNCHANGED hub]_socketVars

(***************************************************************************)
(* Liveness, under FairSpec                                                *)
(***************************************************************************)

\* The ways in which the code stops distributing for good: the process died, the
\* consumer waits for the mutex it holds, a shutdown gave up holding it; or, as
\* long as it lasts, the consumer is writing to a client that does not read.
ConsumerHeld ==
    \/ ~Alive
    \/ rpc = "relocking"
    \/ main = "aborted"
    \/ rpc = "sending" /\ ri <= Len(Target) /\ peer[Target[ri]] = "stalled"

\* Unless one of these holds it, the consumer gets through every published event
\* (HandleRedisMessages).
ConsumerCatchesUp == []<>(ConsumerHeld \/ (rpc = "idle" /\ head = Len(log)))

\* Unless one of these holds the mutex, the goroutine of a client that left
\* comes to its end and closes the socket.
DepartureCompletes ==
    \A c \in Conn :
        Gone(c) ~> (ConsumerHeld \/ pc[c] = "done")

\* After the signal, the shutdown gets the mutex and finishes or gives up,
\* however busy the hub is, unless it is held forever.
ShutdownEnds == (main = "locking") ~> (ConsumerHeld \/ main = "drained")

(***************************************************************************)
(* A claim of the code's own comments that its behaviours refute           *)
(***************************************************************************)

\* "Remove disconnected client from conversation" (socket_chat_handler.go:344,
\* socket_whiteboard_handler.go:230), of the deletion that follows a failed write
\* (lines 391 and 281): a client whose socket the consumer closed does leave the
\* hub. The deletion locks the mutex its caller holds.
FailedWriterRemoved ==
    \A c \in Conn :
        (rpc = "relocking" /\ c \in closed /\ Registered(hub, c))
            ~> ~Registered(hub, c)
=============================================================================
