-------------------------------- MODULE Hub --------------------------------
(***************************************************************************)
(* The registry of live websocket connections that SocketChatHandler keeps *)
(* under its mutex: models.SocketHub.Conversations, a Go map from a        *)
(* conversation id to the slice of its clients, in the order they joined.  *)
(* A key that is absent from the map is the empty sequence here: the code  *)
(* deletes a key as soon as its slice is empty, and reads of an absent key *)
(* see a nil slice.                                                        *)
(***************************************************************************)
EXTENDS Integers, SequencesExt

CONSTANTS
    Conn,      \* websocket connections (one goroutine and one socket each)
    User,      \* user ids
    Conv,      \* conversation ids
    UserOf,    \* the user a connection was authenticated as
    ConvOf     \* the conversation a connection asked for

ASSUME UserOfAssumption == UserOf \in [Conn -> User]
ASSUME ConvOfAssumption == ConvOf \in [Conn -> Conv]

Hubs == [Conv -> Seq(Conn)]

EmptyHub == [k \in Conv |-> << >>]

\* Connection c has an entry in the hub, under some conversation.
Registered(hub, c) == \E k \in Conv : c \in ToSet(hub[k])

\* slices.Contains compares a freshly made pointer with the stored ones, so the
\* "if not exists" test never finds anything: registering always appends.
Register(hub, k, c) == [hub EXCEPT ![k] = Append(@, c)]

\* The positions at which user u has an entry in the slice q.
EntriesOf(q, u) == {i \in DOMAIN q : UserOf[q[i]] = u}

\* Mutant: the first entry goes, whoever it belongs to.
UnregisterFirst(hub, k, u) ==
    IF EntriesOf(hub[k], u) = {} THEN hub ELSE [hub EXCEPT ![k] = Tail(@)]

\* Mutant: the slices are cut one off, and the entry is doubled.
UnregisterSlipped(hub, k, u) ==
    IF EntriesOf(hub[k], u) = {} THEN hub
    ELSE [hub EXCEPT ![k] = InsertAt(@, Min(EntriesOf(@, u)), @[Min(EntriesOf(@, u))])]

\* Entries carry a user id and a socket, and are deleted by user id alone: the
\* first entry of u under k goes, whichever of u's sockets it belongs to.
Unregister(hub, k, u) ==
    IF EntriesOf(hub[k], u) = {} THEN hub
    ELSE [hub EXCEPT ![k] = RemoveAt(@, Min(EntriesOf(@, u)))]

(***************************************************************************)
(* A hub is sound when every entry sits under its own conversation and no  *)
(* connection is entered twice: then one event is written to a socket at   *)
(* most once, and only to sockets of its conversation.                     *)
(***************************************************************************)
SoundHub(hub) ==
    /\ \A k \in Conv : \A i \in DOMAIN hub[k] : ConvOf[hub[k][i]] = k
    /\ \A k \in Conv : \A i, j \in DOMAIN hub[k] : hub[k][i] = hub[k][j] => i = j
=============================================================================
