------------------------------ MODULE Presence ------------------------------
(***************************************************************************)
(* Who is online, and who is told: the observing websocket of              *)
(* internal/handlers/socket_user_observer_handler.go.                      *)
(*                                                                         *)
(* The goroutine of a connection sets its user online (a database row, a   *)
(* cache key, an event on Redis), enters itself in the hub under each user *)
(* it wants to observe, keeping a list of them in Redis, and undoes both   *)
(* when its client leaves. The consumer writes each event to the observers *)
(* of its user, holding the mutex, and runs the same unsubscription for a  *)
(* client that it cannot write to. The database and Redis outlive a crash  *)
(* of the process; the hub does not. (The cached last-seen times, which    *)
(* only the log reads, are left out.)                                      *)
(***************************************************************************)
EXTENDS Integers, FiniteSets, SequencesExt

CONSTANTS
    Conn,        \* websocket connections
    User,        \* user ids
    UserOf,      \* the user a connection was authenticated as
    Notifiers,   \* the users a connection asks to observe, as it lists them
    Wide,        \* the ids it may name that do not fit in 32 bits
    Consumer,    \* the goroutine that reads Redis' observing channel
    Ways,        \* the ways in which clients leave
    Slow,        \* the connections whose client may stop reading its socket
    Failing,     \* the stores whose calls may fail
    Expiring,    \* the users whose status may expire: in the code all, for TLC a bound
    MaxCrashes   \* bound: crashes of the process

ASSUME ObserversAssumption ==
    /\ UserOf \in [Conn -> User]
    /\ Notifiers \in [Conn -> Seq(User)]
    /\ Wide \subseteq User
ASSUME ConsumerAssumption == Consumer \notin Conn /\ "free" \notin Conn \union {Consumer}
ASSUME ChoicesAssumption ==
    /\ Ways \subseteq {"listed", "unlisted", "eof", "reset"}
    /\ Slow \subseteq Conn
    /\ Failing \subseteq {"db", "cache", "publish", "list"}
    /\ MaxCrashes \in Nat

VARIABLES
    hub,      \* suoh.hub.Notifiers: the observers of each user
    mu,       \* suoh.mu: "free", or the goroutine that holds it
    pc,       \* where each goroutine is
    runs,     \* how many unsubscriptions a departing connection still owes
    work,     \* the notifiers a goroutine has still to enter, or to remove
    db,       \* the users whose row says is_online
    cache,    \* the keys user_online_status_<id>; "none" where there is none
    list,     \* the Redis lists observer_notifiers_<id>
    lost,     \* history: how often lists named a user when an error hid their deletion
    peer,     \* what the client's end of each socket is doing
    closed,   \* the connections whose socket the server has closed
    sent,     \* sent[c]: positions in log of the events written to c
    log,      \* every event published on the observing channel, in order
    head,     \* how many of them the consumer is done with
    ri,       \* its position in the slice it ranges over
    crashes   \* how often the process has crashed

vars == <<hub, mu, pc, runs, work, db, cache, list, lost, peer, closed, sent, log, head, ri,
          crashes>>
lists == <<list, lost>>
stores == <<db, cache, lists, log>>
sockets == <<peer, closed, sent>>
cursor == <<head, ri>>

Proc == Conn \union {Consumer}
Event == [user : User, online : BOOLEAN]

\* The keys of this hub are users. What a key promises of its entries (ConvOf,
\* used by SoundHub only) has no counterpart here.
INSTANCE Hub WITH Conv <- User, ConvOf <- UserOf

Goto(p, from, to) == pc[p] = from /\ pc' = [pc EXCEPT ![p] = to]

Init ==
    /\ hub = EmptyHub
    /\ mu = "free"
    /\ pc = [p \in Proc |-> IF p = Consumer THEN "starting" ELSE "none"]
    /\ runs = [c \in Conn |-> 0]
    /\ work = [p \in Proc |-> << >>]
    /\ db = {}
    /\ cache = [u \in User |-> "none"]
    /\ list = [u \in User |-> << >>]
    /\ lost = [u \in User |-> [k \in User |-> 0]]
    /\ peer = [c \in Conn |-> "here"]
    /\ closed = {}
    /\ sent = [c \in Conn |-> << >>]
    /\ log = << >>
    /\ head = 0
    /\ ri = 1
    /\ crashes = 0

Current == log[head + 1]
Target == hub[Current.user]

(***************************************************************************)
(* setOnlineStatus, for the user a goroutine is busy with                  *)
(***************************************************************************)

\* Mutant: the consumer takes the notifier offline instead of the observer.
SubjectNotifier(p) == IF p = Consumer THEN Current.user ELSE UserOf[p]

Subject(p) == IF p = Consumer THEN UserOf[Target[ri]] ELSE UserOf[p]

\* A connection that owes no unsubscription is on its way in.
Arriving(p) == p # Consumer /\ runs[p] = 0

Marked(p) == IF Arriving(p) THEN db \union {Subject(p)} ELSE db \ {Subject(p)}
Cached(p) == [cache EXCEPT ![Subject(p)] = IF Arriving(p) THEN "true" ELSE "false"]

AfterStatus(p) ==
    CASE ~Arriving(p) -> "fetch"
      [] Arriving(p) /\ Notifiers[p] # << >> -> "subscribing"
      [] Arriving(p) /\ Notifiers[p] = << >> -> "reading"

\* Authentication, then the upgrade.
HandleSocketUserObservingRoute(c) ==
    /\ Goto(c, "none", "db")
    /\ UNCHANGED <<hub, mu, runs, work, stores, sockets, cursor, crashes>>

\* An error ends setOnlineStatus, not its caller; the row may be written all the same.
SetUserOnlineStatus(p) ==
    /\ \/ Goto(p, "db", "cache") /\ db' = Marked(p)
       \/ /\ "db" \in Failing
          /\ Goto(p, "db", AfterStatus(p))
          /\ db' \in {db, Marked(p)}
    /\ UNCHANGED <<hub, mu, runs, work, cache, lists, log, sockets, cursor, crashes>>

\* Mutant: only arrivals are cached.
CacheArrivals(p) ==
    /\ Goto(p, "cache", "publish")
    /\ cache' = IF Arriving(p) THEN Cached(p) ELSE cache
    /\ UNCHANGED <<hub, mu, runs, work, db, lists, log, sockets, cursor, crashes>>

UpdateUserOnlineStatusInCache(p) ==
    /\ Goto(p, "cache", "publish")
    /\ \/ cache' = Cached(p)
       \/ "cache" \in Failing /\ UNCHANGED cache
    /\ UNCHANGED <<hub, mu, runs, work, db, lists, log, sockets, cursor, crashes>>

\* The key lives for 24 hours, which may end at any time here; nothing renews it.
ExpireStatus(u) ==
    /\ u \in Expiring
    /\ cache[u] # "none"
    /\ cache' = [cache EXCEPT ![u] = "none"]
    /\ UNCHANGED <<hub, mu, pc, runs, work, db, lists, log, sockets, cursor, crashes>>

PublishStatus(p) ==
    /\ Goto(p, "publish", AfterStatus(p))
    /\ \/ log' = Append(log, [user |-> Subject(p), online |-> Arriving(p)])
       \/ "publish" \in Failing /\ UNCHANGED log
    /\ UNCHANGED <<hub, mu, runs, work, db, cache, lists, sockets, cursor, crashes>>

(***************************************************************************)
(* subscribe                                                               *)
(***************************************************************************)

LockToSubscribe(c) ==
    /\ mu = "free"
    /\ Goto(c, "subscribing", "saving")
    /\ mu' = c
    /\ work' = [work EXCEPT ![c] = Notifiers[c]]
    /\ UNCHANGED <<hub, runs, stores, sockets, cursor, crashes>>

\* RPush to the list, then append to the hub. As in the chat, the test whether
\* the observer is observing yet never matches.
SaveObserverNotifier(c) ==
    /\ pc[c] = "saving"
    /\ work[c] # << >>
    /\ list' = [list EXCEPT ![UserOf[c]] = Append(@, Head(work[c]))]
    /\ hub' = Register(hub, Head(work[c]), c)
    /\ work' = [work EXCEPT ![c] = Tail(@)]
    /\ UNCHANGED <<mu, pc, runs, db, cache, lost, log, sockets, cursor, crashes>>

\* The unlock; then handleDisconnection sets the close handler.
FinishSubscribing(c) ==
    /\ work[c] = << >>
    /\ Goto(c, "saving", "reading")
    /\ mu' = "free"
    /\ UNCHANGED <<hub, runs, work, stores, sockets, cursor, crashes>>

(***************************************************************************)
(* keepSocketAlive and the client's end of the socket                      *)
(***************************************************************************)

Departures == {"listed", "unlisted", "eof", "reset"}
Gone(c) == peer[c] \in Departures

\* Until its goroutine reads, nothing can notice what a client does.
Leave(c) ==
    /\ pc[c] = "reading"
    /\ ~Gone(c)
    /\ \E how \in Ways : peer' = [peer EXCEPT ![c] = how]
    /\ UNCHANGED <<hub, mu, pc, runs, work, stores, closed, sent, cursor, crashes>>

\* The client stops reading its socket, or goes on.
StopOrResume(c) ==
    /\ c \in Slow
    /\ pc[c] = "reading"
    /\ \/ peer[c] = "here" /\ peer' = [peer EXCEPT ![c] = "stalled"]
       \/ peer[c] = "stalled" /\ peer' = [peer EXCEPT ![c] = "here"]
    /\ UNCHANGED <<hub, mu, pc, runs, work, stores, closed, sent, cursor, crashes>>

\* Mutant: a bare end of file is not among the listed errors.
UnsubscriptionsWithoutEof(c) ==
    (IF Notifiers[c] # << >> /\ peer[c] \in {"listed", "unlisted"} THEN 1 ELSE 0)
      + (IF peer[c] = "listed" THEN 1 ELSE 0)

\* A close frame runs the close handler, which only connections with notifiers
\* have; a listed code and a bare end of file make the loop unsubscribe.
Unsubscriptions(c) ==
    (IF Notifiers[c] # << >> /\ peer[c] \in {"listed", "unlisted"} THEN 1 ELSE 0)
      + (IF peer[c] \in {"listed", "eof"} THEN 1 ELSE 0)

\* Any other error is read again until gorilla panics, gin recovers and the
\* deferred Close runs.
ReadClose(c) ==
    /\ Gone(c)
    /\ Goto(c, "reading", IF Unsubscriptions(c) = 0 THEN "closing" ELSE "db")
    /\ runs' = [runs EXCEPT ![c] = Unsubscriptions(c)]
    /\ UNCHANGED <<hub, mu, work, stores, sockets, cursor, crashes>>

ReadClosedSocket(c) ==
    /\ c \in closed
    /\ Goto(c, "reading", "closing")
    /\ UNCHANGED <<hub, mu, runs, work, stores, sockets, cursor, crashes>>

\* The deferred ws.Close().
CloseSocket(c) ==
    /\ Goto(c, "closing", "done")
    /\ closed' = closed \union {c}
    /\ UNCHANGED <<hub, mu, runs, work, stores, peer, sent, cursor, crashes>>

(***************************************************************************)
(* unsubscribe, after its setOnlineStatus(observer, false)                 *)
(***************************************************************************)

\* The consumer goes on with its range, a connection with what it owes.
EndUnsubscribe(p) ==
    IF p = Consumer
      THEN /\ pc' = [pc EXCEPT ![p] = "sending"]
           /\ ri' = ri + 1
           /\ UNCHANGED runs
      ELSE /\ pc' = [pc EXCEPT ![p] = IF runs[p] = 1 THEN "closing" ELSE "db"]
           /\ runs' = [runs EXCEPT ![p] = @ - 1]
           /\ UNCHANGED ri

\* An element that is not a 32-bit number makes the whole list unreadable.
Readable(u) == ToSet(list[u]) \cap Wide = {}

FetchNotifiers(p) ==
    /\ Goto(p, "fetch", "delete")
    /\ list[Subject(p)] # << >>
    /\ Readable(Subject(p))
    /\ work' = [work EXCEPT ![p] = list[Subject(p)]]
    /\ UNCHANGED <<hub, mu, runs, stores, sockets, cursor, crashes>>

FetchNoNotifiers(p) ==
    /\ pc[p] = "fetch"
    /\ list[Subject(p)] = << >> \/ ~Readable(Subject(p)) \/ "list" \in Failing
    /\ EndUnsubscribe(p)
    /\ UNCHANGED <<hub, mu, work, stores, sockets, head, crashes>>

EmptyList(p) == list' = [list EXCEPT ![Subject(p)] = << >>]

\* The whole list goes, with what was pushed since it was fetched.
DeleteNotifiers(p) ==
    /\ Goto(p, "delete", "remove")
    /\ EmptyList(p)
    /\ UNCHANGED <<hub, mu, runs, work, db, cache, lost, log, sockets, cursor, crashes>>

Occurrences(q, x) == Cardinality({i \in DOMAIN q : q[i] = x})

\* The hub's entries stay, whether the list was deleted before the error or not.
DeleteNotifiersFails(p) ==
    /\ "list" \in Failing
    /\ pc[p] = "delete"
    /\ \/ UNCHANGED lists
       \/ /\ EmptyList(p)
          /\ lost' = [lost EXCEPT ![Subject(p)] =
                        [k \in User |-> @[k] + Occurrences(list[Subject(p)], k)]]
    /\ EndUnsubscribe(p)
    /\ UNCHANGED <<hub, mu, work, db, cache, log, sockets, head, crashes>>

\* The consumer, which holds the mutex, never gets past this.
LockToRemove(p) ==
    /\ mu = "free"
    /\ Goto(p, "remove", "removing")
    /\ mu' = p
    /\ UNCHANGED <<hub, runs, work, stores, sockets, cursor, crashes>>

\* Mutant: only the first notifier's observers are searched.
RemoveFromFirst(p) ==
    /\ pc[p] = "removing"
    /\ work[p] # << >>
    /\ hub' = Unregister(hub, Head(work[p]), Subject(p))
    /\ work' = [work EXCEPT ![p] = << >>]
    /\ UNCHANGED <<mu, pc, runs, stores, sockets, cursor, crashes>>

\* Under each notifier of the fetched list the observer's first entry goes.
RemoveObserver(p) ==
    /\ pc[p] = "removing"
    /\ work[p] # << >>
    /\ hub' = Unregister(hub, Head(work[p]), Subject(p))
    /\ work' = [work EXCEPT ![p] = Tail(@)]
    /\ UNCHANGED <<mu, pc, runs, stores, sockets, cursor, crashes>>

FinishRemoving(p) ==
    /\ pc[p] = "removing"
    /\ work[p] = << >>
    /\ mu' = "free"
    /\ EndUnsubscribe(p)
    /\ UNCHANGED <<hub, work, stores, sockets, head, crashes>>

(***************************************************************************)
(* The Redis consumer                                                      *)
(***************************************************************************)

\* Mutant: the cursor starts one too far.
SubscribePastEnd ==
    /\ Goto(Consumer, "starting", "idle")
    /\ head' = Len(log) + 1
    /\ UNCHANGED <<hub, mu, runs, work, stores, sockets, ri, crashes>>

\* What was published before the subscription is not delivered.
SubscribeToChannel ==
    /\ Goto(Consumer, "starting", "idle")
    /\ head' = Len(log)
    /\ UNCHANGED <<hub, mu, runs, work, stores, sockets, ri, crashes>>

Send ==
    /\ mu = "free"
    /\ head < Len(log)
    /\ Goto(Consumer, "idle", "sending")
    /\ mu' = Consumer
    /\ ri' = 1
    /\ UNCHANGED <<hub, runs, work, stores, sockets, head, crashes>>

\* Redis pub/sub drops what it cannot deliver.
LoseEvent ==
    /\ pc[Consumer] = "idle"
    /\ head < Len(log)
    /\ head' = head + 1
    /\ UNCHANGED <<hub, mu, pc, runs, work, stores, sockets, ri, crashes>>

\* The consumer is about to write to o.
Writing(o) == pc[Consumer] = "sending" /\ ri <= Len(Target) /\ o = Target[ri]

WriteJSON(o) ==
    /\ Writing(o)
    /\ o \notin closed
    /\ peer[o] # "stalled"
    /\ sent' = [sent EXCEPT ![o] = Append(@, head + 1)]
    /\ ri' = ri + 1
    /\ UNCHANGED <<hub, mu, pc, runs, work, stores, peer, closed, head, crashes>>

\* Mutant: the return forgets the unlock.
EndSendLocked ==
    /\ Goto(Consumer, "sending", "idle")
    /\ head' = head + 1
    /\ ri' = 1
    /\ UNCHANGED <<hub, mu, runs, work, stores, sockets, crashes>>

\* Mutant: the event is not acknowledged and comes again.
EndSendAgain ==
    /\ Goto(Consumer, "sending", "idle")
    /\ mu' = "free"
    /\ ri' = 1
    /\ UNCHANGED <<hub, runs, work, stores, sockets, head, crashes>>

EndSend ==
    /\ Goto(Consumer, "sending", "idle")
    /\ mu' = "free"
    /\ head' = head + 1
    /\ ri' = 1
    /\ UNCHANGED <<hub, runs, work, stores, sockets, crashes>>

FinishSend == pc[Consumer] = "sending" /\ ri > Len(Target) /\ EndSend

\* The write fails and so does the second Close: the rest get nothing.
WriteToClosedSocket(o) == Writing(o) /\ o \in closed /\ EndSend

\* The write fails, the socket is closed, and the consumer unsubscribes the
\* observer with the mutex in its hand.
WriteToGoneClient(o) ==
    /\ Writing(o)
    /\ o \notin closed
    /\ Gone(o)
    /\ closed' = closed \union {o}
    /\ Goto(Consumer, "sending", "db")
    /\ UNCHANGED <<hub, mu, runs, work, stores, peer, sent, cursor, crashes>>

(***************************************************************************)
(* The process dies (log.Fatalf in subscribe and in subscribeToChannel, or *)
(* any other part of it) and is started again.                             *)
(***************************************************************************)
Crash ==
    /\ crashes < MaxCrashes
    /\ crashes' = crashes + 1
    /\ hub' = EmptyHub
    /\ mu' = "free"
    /\ pc' = [p \in Proc |-> IF p = Consumer THEN "starting"
                             ELSE IF pc[p] = "none" THEN "none" ELSE "done"]
    /\ runs' = [c \in Conn |-> 0]
    /\ work' = [p \in Proc |-> << >>]
    /\ closed' = closed \union {c \in Conn : pc[c] # "none"}
    /\ ri' = 1
    /\ lost' = [u \in User |-> [k \in User |-> 0]]
    /\ UNCHANGED <<db, cache, list, log, peer, sent, head>>

-----------------------------------------------------------------------------
Unsubscribe(p) ==
    \/ FetchNotifiers(p)
    \/ FetchNoNotifiers(p)
    \/ DeleteNotifiers(p)
    \/ DeleteNotifiersFails(p)
    \/ LockToRemove(p)
    \/ RemoveObserver(p)
    \/ FinishRemoving(p)

SetOnlineStatus(p) ==
    \/ SetUserOnlineStatus(p)
    \/ UpdateUserOnlineStatusInCache(p)
    \/ PublishStatus(p)

ConnStep(c) ==
    \/ SetOnlineStatus(c)
    \/ LockToSubscribe(c)
    \/ SaveObserverNotifier(c)
    \/ FinishSubscribing(c)
    \/ Unsubscribe(c)
    \/ CloseSocket(c)

ReadFails(c) == ReadClose(c) \/ ReadClosedSocket(c)

ConsumerStep ==
    \/ SubscribeToChannel
    \/ Send
    \/ \E o \in Conn : WriteJSON(o) \/ WriteToClosedSocket(o) \/ WriteToGoneClient(o)
    \/ FinishSend
    \/ SetOnlineStatus(Consumer)
    \/ Unsubscribe(Consumer)

Next ==
    \/ \E c \in Conn :
         \/ HandleSocketUserObservingRoute(c)
         \/ ConnStep(c)
         \/ ReadFails(c)
         \/ Leave(c)
         \/ StopOrResume(c)
    \/ ConsumerStep
    \/ LoseEvent
    \/ \E u \in User : ExpireStatus(u)
    \/ Crash

Spec == Init /\ [][Next]_vars

\* Goroutines that can run do run, a free mutex goes to a waiter, and a reader
\* comes to the end of what its departed client sent.
Fairness ==
    /\ \A c \in Conn : WF_vars(ConnStep(c)) /\ WF_vars(ReadFails(c))
    /\ WF_vars(ConsumerStep)

FairSpec == Spec /\ Fairness
=============================================================================
