------------------------- MODULE PresenceProperties -------------------------
(***************************************************************************)
(* What is claimed of Presence, by the way its users and its parts rely on *)
(* it.                                                                     *)
(***************************************************************************)
EXTENDS Presence

\* Every variable stays in the set the code's types and control points allow.
TypeOK ==
    /\ hub \in Hubs
    /\ mu \in {"free"} \union Proc
    /\ pc \in [Proc -> {"none", "db", "cache", "publish", "subscribing", "saving",
                        "reading", "fetch", "delete", "remove", "removing", "closing", "done",
                        "starting", "idle", "sending"}]
    /\ runs \in [Conn -> 0..2]
    /\ work \in [Proc -> Seq(User)]
    /\ db \subseteq User /\ cache \in [User -> {"none", "true", "false"}]
    /\ list \in [User -> Seq(User)] /\ lost \in [User -> [User -> Nat]]
    /\ peer \in [Conn -> {"here", "stalled"} \union Departures]
    /\ closed \subseteq Conn
    /\ sent \in [Conn -> Seq(Nat)]
    /\ log \in Seq(Event)
    /\ head \in 0..Len(log)
    /\ ri \in Nat \ {0}
    /\ crashes \in 0..MaxCrashes

(***************************************************************************)
(* Safety                                                                  *)
(***************************************************************************)

Siblings(c) == {d \in Conn \ {c} : UserOf[d] = UserOf[c]}
Lone(c) == Siblings(c) = {}

\* A user whose client is connected and listening is online in the database, and
\* the cache does not say otherwise (its key lives for a day and may be gone),
\* unless another connection of the same user has left (the code takes the user
\* offline when any of them does) or a store fails: nobody else's departure, nor
\* the consumer's clean-up of others, takes it offline.
ConnectedIsOnline ==
    \A c \in Conn :
        /\ pc[c] = "reading" /\ ~Gone(c)
        /\ Failing = {}
        => \/ UserOf[c] \in db /\ cache[UserOf[c]] # "false"
           \/ \E d \in Siblings(c) : Gone(d)

\* p is between the database write and the publication for user u.
Announcing(p, u) == pc[p] \in {"cache", "publish"} /\ Subject(p) = u

LastWord(u) ==
    LET told == {i \in DOMAIN log : log[i].user = u}
    IN  told # {} /\ \E i \in told : log[i].online /\ \A j \in told : j <= i

\* While nobody is in the middle of announcing a user with one connection, the
\* database and the last event published about it agree, and so does the cache as
\* long as it has the user's key, although the consumer and the connection may set
\* the status at the same time.
StatusesAgree ==
    \A c \in Conn :
        /\ Lone(c)
        /\ Failing = {} /\ crashes = 0
        /\ \A p \in Proc : ~Announcing(p, UserOf[c])
        => LET u == UserOf[c]
           IN  /\ u \in db <=> LastWord(u)
               /\ cache[u] # "none" => (u \in db <=> cache[u] = "true")

\* p has deleted the list of user u and not yet u's entries.
Removing(p, u) == pc[p] \in {"remove", "removing"} /\ Subject(p) = u

\* The Redis list, which unsubscribing goes by, names every hub entry of a user
\* with one connection, as often as it stands there, but for what was on a list
\* whose deletion was answered by an error after the fact: no other entry can be
\* left behind that no unsubscription would find. (Two connections of one user
\* break this: a push between the other's fetch and delete is lost.)
EntriesListed ==
    \A c \in Conn :
        /\ Lone(c)
        /\ \A p \in Proc : ~Removing(p, UserOf[c])
        => \A k \in User :
             Occurrences(hub[k], c) <= Occurrences(list[UserOf[c]], k) + lost[UserOf[c]][k]

\* Events reach a socket in the order of publication, and only about users it
\* asked to observe; none twice, if it asked for no user twice.
NotifiedInOrder ==
    \A c \in Conn : \A i, j \in DOMAIN sent[c] :
        /\ sent[c][i] \in DOMAIN log
        /\ log[sent[c][i]].user \in ToSet(Notifiers[c])
        /\ i < j => sent[c][i] <= sent[c][j]
        /\ i < j /\ IsInjective(Notifiers[c]) => sent[c][i] < sent[c][j]

(***************************************************************************)
(* Liveness, under FairSpec                                                *)
(***************************************************************************)

\* The read loop of c can tell that its client left.
Noticed(c) ==
    peer[c] \in {"listed", "eof"} \/ (peer[c] = "unlisted" /\ Notifiers[c] # << >>)

\* A user whose one connection left, other than by a network error or by an
\* unlisted close code without notifiers, ends up offline for good in the
\* database and in the last event published, and never again online in the cache:
\* also when the consumer is stuck, because the status is set before the mutex is
\* needed.
DepartureEndsOffline ==
    \A c \in Conn : Lone(c) =>
        <>[](Noticed(c) =>
                /\ UserOf[c] \notin db /\ cache[UserOf[c]] # "true"
                /\ ~LastWord(UserOf[c]))

\* The consumer waits for the mutex it holds, or is writing to a client that
\* does not read.
ConsumerHeld ==
    \/ pc[Consumer] = "remove"
    \/ \E o \in Conn : Writing(o) /\ peer[o] = "stalled"

\* Unless that holds it, the consumer gets through every published event, also
\* after a crash.
ConsumerCatchesUp ==
    []<>(ConsumerHeld \/ (pc[Consumer] = "idle" /\ head = Len(log)))
=============================================================================
