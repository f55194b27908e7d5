---------------------------- MODULE PresenceProofs ----------------------------
(***************************************************************************)
(* Theorems about Presence for any connections, users, wishes to observe,  *)
(* failing stores, lists and number of crashes.                                   *)
(***************************************************************************)
EXTENDS PresenceProperties, SequenceTheorems, FiniteSetTheorems, TLAPS

HubLemmas == INSTANCE HubProofs WITH Conv <- User, ConvOf <- UserOf

(***************************************************************************)
(* The invariant of the goroutines                                         *)
(***************************************************************************)

\* A connection that unsubscribes has left, and holds the mutex where it says so.
Place(c) ==
    /\ pc[c] \in {"none", "db", "cache", "publish", "subscribing", "saving", "reading",
                  "fetch", "delete", "remove", "removing", "closing", "done"}
    /\ pc[c] \in {"fetch", "delete", "remove", "removing"} => runs[c] # 0
    /\ pc[c] \in {"none", "subscribing", "saving", "reading"} => runs[c] = 0
    /\ runs[c] # 0 => Gone(c)
    /\ Gone(c) => pc[c] \notin {"none", "subscribing", "saving"}
    /\ Gone(c) /\ pc[c] \in {"db", "cache", "publish"} => runs[c] # 0
    /\ pc[c] \in {"saving", "removing"} => mu = c

\* The consumer holds the mutex from the event's arrival on; it takes users
\* offline whose client has left.
Consuming ==
    /\ pc[Consumer] \in {"starting", "idle", "sending", "db", "cache", "publish",
                         "fetch", "delete", "remove"}
    /\ pc[Consumer] \notin {"starting", "idle"} => mu = Consumer /\ head < Len(log)
    /\ pc[Consumer] \notin {"starting", "idle", "sending"} =>
          ri \in DOMAIN Target /\ Gone(Target[ri])

Inv == TypeOK /\ (\A c \in Conn : Place(c)) /\ Consuming

(***************************************************************************)
(* The hub                                                                 *)
(***************************************************************************)

LEMMA SameHub ==
    /\ Hubs = HubLemmas!Hubs
    /\ \A h, k, c : Register(h, k, c) = HubLemmas!Register(h, k, c)
    /\ \A h, k, u : Unregister(h, k, u) = HubLemmas!Unregister(h, k, u)
<1>1. Hubs = HubLemmas!Hubs
  BY DEF Hubs, HubLemmas!Hubs
<1>2. \A h, k, c : Register(h, k, c) = HubLemmas!Register(h, k, c)
  BY DEF Register, HubLemmas!Register
<1>3. \A h, k, u : Unregister(h, k, u) = HubLemmas!Unregister(h, k, u)
  BY DEF Unregister, HubLemmas!Unregister, EntriesOf, HubLemmas!EntriesOf,
         RemoveAt, HubLemmas!RemoveAt, Min, HubLemmas!Min
<1> QED
  BY <1>1, <1>2, <1>3

LEMMA HubTyped ==
    ASSUME NEW h \in Hubs, NEW k \in User
    PROVE  /\ \A c \in Conn : Register(h, k, c) \in Hubs
           /\ \A u : Unregister(h, k, u) \in Hubs
BY SameHub, HubLemmas!RegisterProperties, HubLemmas!UnregisterProperties, ObserversAssumption

(***************************************************************************)
(* What a step leaves alone                                                *)
(***************************************************************************)

\* Gone clients stay gone, and the log only grows.
Onwards ==
    /\ \A c \in Conn : Gone(c) => Gone(c)'
    /\ log' = log \/ \E e \in Event : log' = Append(log, e)

\* A step of connection c, for the others and for the consumer.
Around(c) ==
    /\ \A p \in Proc \ {c} : pc'[p] = pc[p]
    /\ \A d \in Conn \ {c} : runs'[d] = runs[d] /\ peer'[d] = peer[d]
    /\ mu \in {"free", c} \/ mu' = mu
    /\ mu = c \/ hub' = hub
    /\ UNCHANGED <<head, ri>>
    /\ Onwards

LEMMA ConsumingKept ==
    ASSUME Inv, UNCHANGED <<head, ri>>,
           \/ pc'[Consumer] = pc[Consumer]
           \/ {pc[Consumer], pc'[Consumer]} \subseteq
                 {"db", "cache", "publish", "fetch", "delete", "remove"},
           mu = Consumer => mu' = Consumer /\ hub' = hub, Onwards
    PROVE  Consuming'
<1> USE DEF Inv
<1>1. log \in Seq(Event) /\ head \in Nat /\ head <= Len(log)
  BY DEF TypeOK
<1>2. Len(log') \in Nat /\ Len(log') >= Len(log) /\ \A i \in 1..Len(log) : log'[i] = log[i]
  BY <1>1, AppendProperties DEF Onwards
<1>3. CASE pc[Consumer] \in {"starting", "idle"}
  BY <1>3 DEF Consuming
<1>4. CASE pc[Consumer] \notin {"starting", "idle"}
  <2>1. mu = Consumer /\ head < Len(log) /\ hub' = hub /\ mu' = Consumer
    BY <1>4 DEF Consuming
  <2>2. head + 1 \in 1..Len(log)
    BY <1>1, <2>1
  <2>3. Current' = Current /\ Current.user \in User
    <3>1. log[head + 1] \in Event /\ log'[head' + 1] = log[head + 1]
      BY <1>1, <1>2, <2>2
    <3> QED BY <3>1 DEF Current, Event
  <2>4. Target' = Target /\ Target \in Seq(Conn)
    BY <2>1, <2>3 DEF Target, TypeOK, Hubs
  <2>5. head' < Len(log')
    BY <1>1, <1>2, <2>1
  <2>6. ri \in DOMAIN Target /\ Gone(Target[ri]) => Gone(Target[ri])'
    <3>1. ri \in DOMAIN Target => Target[ri] \in Conn
      BY <2>4
    <3>2. ri' = ri /\ (ri \in DOMAIN Target => Target'[ri'] = Target[ri])
      BY <2>4
    <3>3. ASSUME NEW o \in Conn, Gone(o), Target'[ri'] = o PROVE Gone(Target[ri])'
      BY <3>3 DEF Onwards, Gone
    <3> QED BY <3>1, <3>2, <3>3
  <2> QED
    BY <2>1, <2>4, <2>5, <2>6 DEF Consuming
<1> QED BY <1>3, <1>4

LEMMA PlaceKept ==
    ASSUME NEW c \in Conn, Place(c), pc'[c] = pc[c], runs'[c] = runs[c], peer'[c] = peer[c],
           mu = c => mu' = c
    PROVE  Place(c)'
BY DEF Place, Gone

LEMMA AroundInv ==
    ASSUME Inv, NEW c \in Conn, Around(c), TypeOK', Place(c)'
    PROVE  Inv'
<1>1. c # Consumer /\ Conn \subseteq Proc /\ Consumer \in Proc /\ "free" \notin Proc
  BY ConsumerAssumption DEF Proc
<1>2. \A d \in Conn : Place(d)'
  <2> SUFFICES ASSUME NEW d \in Conn, d # c PROVE Place(d)'
    OBVIOUS
  <2>1. mu = d => mu' = d
    BY <1>1, ConsumerAssumption DEF Around
  <2> QED
    BY <1>1, <2>1, PlaceKept DEF Around, Inv
<1>3. Consuming'
  BY <1>1, ConsumingKept DEF Around
<1> QED
  BY <1>2, <1>3 DEF Inv

LEMMA InitInv == Init => Inv
<1> SUFFICES ASSUME Init PROVE Inv
  OBVIOUS
<1>1. TypeOK
  BY ChoicesAssumption DEF Init, TypeOK, EmptyHub, Hubs, Departures
<1>2. \A c \in Conn : Place(c)
  BY ConsumerAssumption DEF Init, Place, Gone, Departures, Proc
<1>3. Consuming
  BY DEF Init, Consuming, Proc
<1> QED
  BY <1>1, <1>2, <1>3 DEF Inv

(***************************************************************************)
(* The steps of a connection                                               *)
(***************************************************************************)

LEMMA Subjects ==
    ASSUME Inv
    PROVE  /\ \A c \in Conn : c \in Proc /\ c # Consumer /\ Subject(c) = UserOf[c] /\ UserOf[c] \in User
           /\ pc[Consumer] \notin {"starting", "idle", "sending"} =>
                 Subject(Consumer) \in User /\ Target[ri] \in Conn
<1>1. ASSUME NEW c \in Conn
      PROVE  c \in Proc /\ c # Consumer /\ Subject(c) = UserOf[c] /\ UserOf[c] \in User
  BY ConsumerAssumption, ObserversAssumption DEF Proc, Subject
<1>2. ASSUME pc[Consumer] \notin {"starting", "idle", "sending"}
      PROVE  Subject(Consumer) \in User /\ Target[ri] \in Conn
  <2>1. head + 1 \in DOMAIN log /\ log \in Seq(Event)
    BY <1>2 DEF Inv, TypeOK, Consuming
  <2>2. Current \in Event
    BY <2>1 DEF Current
  <2>3. Target \in Seq(Conn)
    BY <2>2 DEF Inv, TypeOK, Hubs, Target, Event
  <2>4. ri \in DOMAIN Target
    BY <1>2 DEF Inv, Consuming
  <2>5. Target[ri] \in Conn
    BY <2>3, <2>4
  <2> QED BY <2>5, ObserversAssumption DEF Subject
<1> QED BY <1>1, <1>2

LEMMA MovesIs ==
    ASSUME Inv, NEW p \in Proc, NEW from, NEW to, Goto(p, from, to)
    PROVE  /\ pc[p] = from /\ pc'[p] = to /\ \A q \in Proc \ {p} : pc'[q] = pc[q]
           /\ to \in {"none", "db", "cache", "publish", "subscribing", "saving",
                        "reading", "fetch", "delete", "remove", "removing", "closing", "done",
                        "starting", "idle", "sending"} =>
                pc' \in [Proc -> {"none", "db", "cache", "publish", "subscribing", "saving",
                        "reading", "fetch", "delete", "remove", "removing", "closing", "done",
                        "starting", "idle", "sending"}]
BY DEF Goto, Inv, TypeOK

LEMMA RouteInv == ASSUME Inv, NEW c \in Conn, HandleSocketUserObservingRoute(c) PROVE Inv'
<1>1. c \in Proc /\ Goto(c, "none", "db")
      /\ UNCHANGED <<hub, mu, runs, work, stores, sockets, cursor, crashes>>
  BY Subjects DEF HandleSocketUserObservingRoute
<1>2. TypeOK'
  BY <1>1, MovesIs DEF Inv, TypeOK, stores, lists, sockets, cursor
<1>3. Around(c)
  BY <1>1, MovesIs DEF Around, Onwards, Gone, stores, lists, sockets, cursor
<1>4. Place(c)'
  BY <1>1, MovesIs DEF Inv, Place, Gone, sockets
<1> QED
  BY <1>2, <1>3, <1>4, AroundInv

LEMMA LockToSubscribeInv == ASSUME Inv, NEW c \in Conn, LockToSubscribe(c) PROVE Inv'
<1>1. c \in Proc /\ Goto(c, "subscribing", "saving") /\ mu = "free" /\ mu' = c
      /\ work' = [work EXCEPT ![c] = Notifiers[c]]
      /\ UNCHANGED <<hub, runs, stores, sockets, cursor, crashes>>
  BY Subjects DEF LockToSubscribe
<1>2. TypeOK'
  BY <1>1, MovesIs, ObserversAssumption DEF Inv, TypeOK, stores, lists, sockets, cursor
<1>3. Around(c)
  BY <1>1, MovesIs DEF Around, Onwards, Gone, stores, lists, sockets, cursor
<1>4. Place(c)'
  BY <1>1, MovesIs DEF Inv, Place, Gone, sockets
<1> QED
  BY <1>2, <1>3, <1>4, AroundInv

LEMMA SaveObserverNotifierInv == ASSUME Inv, NEW c \in Conn, SaveObserverNotifier(c) PROVE Inv'
<1>1. /\ c \in Proc /\ pc[c] = "saving" /\ work[c] # << >>
      /\ list' = [list EXCEPT ![UserOf[c]] = Append(@, Head(work[c]))]
      /\ hub' = Register(hub, Head(work[c]), c)
      /\ work' = [work EXCEPT ![c] = Tail(@)]
      /\ UNCHANGED <<mu, pc, runs, db, cache, lost, log, sockets, cursor, crashes>>
  BY Subjects DEF SaveObserverNotifier
<1>2. work[c] \in Seq(User) /\ Head(work[c]) \in User /\ Tail(work[c]) \in Seq(User)
  BY <1>1, HeadTailProperties DEF Inv, TypeOK
<1>3. hub' \in Hubs /\ work' \in [Proc -> Seq(User)] /\ list' \in [User -> Seq(User)]
  <2>1. hub' \in Hubs
    BY <1>1, <1>2, HubTyped DEF Inv, TypeOK
  <2>2. work' \in [Proc -> Seq(User)]
    BY <1>1, <1>2 DEF Inv, TypeOK
  <2>3. Append(list[UserOf[c]], Head(work[c])) \in Seq(User)
    BY <1>2, Subjects, AppendProperties DEF Inv, TypeOK
  <2>4. list' \in [User -> Seq(User)]
    BY <1>1, <2>3 DEF Inv, TypeOK
  <2> QED BY <2>1, <2>2, <2>4
<1>4. TypeOK'
  BY <1>1, <1>3 DEF Inv, TypeOK, sockets, cursor
<1>5. mu = c
  BY <1>1 DEF Inv, Place
<1>6. Around(c)
  BY <1>1, <1>5 DEF Around, Onwards, Gone, sockets, cursor
<1>7. Place(c)'
  BY <1>1 DEF Inv, Place, Gone, sockets
<1> QED
  BY <1>4, <1>6, <1>7, AroundInv

LEMMA FinishSubscribingInv == ASSUME Inv, NEW c \in Conn, FinishSubscribing(c) PROVE Inv'
<1>1. c \in Proc /\ Goto(c, "saving", "reading") /\ mu' = "free"
      /\ UNCHANGED <<hub, runs, work, stores, sockets, cursor, crashes>>
  BY Subjects DEF FinishSubscribing
<1>2. mu = c
  BY <1>1 DEF Inv, Place, Goto
<1>3. TypeOK'
  BY <1>1, MovesIs DEF Inv, TypeOK, stores, lists, sockets, cursor
<1>4. Around(c)
  BY <1>1, <1>2, MovesIs DEF Around, Onwards, Gone, stores, lists, sockets, cursor
<1>5. Place(c)'
  BY <1>1, MovesIs DEF Inv, Place, Gone, sockets
<1> QED
  BY <1>3, <1>4, <1>5, AroundInv

LEMMA ClientInv == ASSUME Inv, NEW c \in Conn, Leave(c) \/ StopOrResume(c) PROVE Inv'
<1>1. c \in Proc /\ pc[c] = "reading"
      /\ UNCHANGED <<hub, mu, pc, runs, work, stores, closed, sent, cursor, crashes>>
  BY Subjects DEF Leave, StopOrResume
<1>2. PICK how \in {"here", "stalled"} \union Departures :
        peer' = [peer EXCEPT ![c] = how] /\ (Gone(c) => how \in Departures)
  BY ChoicesAssumption DEF Leave, StopOrResume, Departures, Gone
<1>3. TypeOK'
  BY <1>1, <1>2 DEF Inv, TypeOK, stores, lists, cursor
<1>4. Around(c)
  BY <1>1, <1>2 DEF Inv, TypeOK, Around, Onwards, Gone, stores, lists, cursor
<1>5. Place(c)'
  BY <1>1 DEF Inv, Place
<1> QED
  BY <1>3, <1>4, <1>5, AroundInv

LEMMA ReadInv == ASSUME Inv, NEW c \in Conn, ReadFails(c) PROVE Inv'
<1>1. c \in Proc /\ UNCHANGED <<hub, mu, work, stores, sockets, cursor, crashes>>
  BY Subjects DEF ReadFails, ReadClose, ReadClosedSocket
<1>2. Unsubscriptions(c) \in 0..2
  BY DEF Unsubscriptions
<1>3. PICK to \in {"closing", "db"} :
        /\ Goto(c, "reading", to)
        /\ to = "db" => Gone(c) /\ runs'[c] # 0
        /\ runs' \in [Conn -> 0..2]
        /\ \A d \in Conn \ {c} : runs'[d] = runs[d]
        /\ runs'[c] # 0 => Gone(c)
  BY <1>2 DEF ReadFails, ReadClose, ReadClosedSocket, Inv, TypeOK, Place
<1>4. TypeOK'
  BY <1>1, <1>3, MovesIs DEF Inv, TypeOK, stores, lists, sockets, cursor
<1>5. Around(c)
  BY <1>1, <1>3, MovesIs DEF Around, Onwards, Gone, stores, lists, sockets, cursor
<1>6. Place(c)'
  BY <1>1, <1>3, MovesIs DEF Inv, Place, Gone, sockets
<1> QED
  BY <1>4, <1>5, <1>6, AroundInv

LEMMA CloseSocketInv == ASSUME Inv, NEW c \in Conn, CloseSocket(c) PROVE Inv'
<1>1. c \in Proc /\ Goto(c, "closing", "done") /\ closed' = closed \union {c}
      /\ UNCHANGED <<hub, mu, runs, work, stores, peer, sent, cursor, crashes>>
  BY Subjects DEF CloseSocket
<1>2. TypeOK'
  BY <1>1, MovesIs DEF Inv, TypeOK, stores, lists, cursor
<1>3. Around(c)
  BY <1>1, MovesIs DEF Around, Onwards, Gone, stores, lists, cursor
<1>4. Place(c)'
  BY <1>1, MovesIs DEF Inv, Place, Gone
<1> QED
  BY <1>2, <1>3, <1>4, AroundInv

(***************************************************************************)
(* How often an element stands in a sequence                               *)
(***************************************************************************)

Positions(q, x) == {i \in DOMAIN q : q[i] = x}

LEMMA OccurrencesFinite ==
    ASSUME NEW S, NEW q \in Seq(S), NEW x
    PROVE  /\ IsFiniteSet(Positions(q, x)) /\ Positions(q, x) \subseteq 1..Len(q)
           /\ Occurrences(q, x) = Cardinality(Positions(q, x)) /\ Occurrences(q, x) \in Nat
<1>1. Positions(q, x) \subseteq 1..Len(q) /\ Len(q) \in Nat
  BY DEF Positions
<1>2. IsFiniteSet(1..Len(q))
  BY <1>1, FS_Interval
<1>3. IsFiniteSet(Positions(q, x))
  BY <1>1, <1>2, FS_Subset
<1>4. Occurrences(q, x) = Cardinality(Positions(q, x))
  BY DEF Occurrences, Positions
<1> QED
  BY <1>1, <1>3, <1>4, FS_CardinalityType

LEMMA OccurrencesNone == \A x : Occurrences(<< >>, x) = 0
<1> TAKE x
<1>1. {i \in DOMAIN << >> : << >>[i] = x} = {}
  OBVIOUS
<1> QED
  BY <1>1, FS_EmptySet DEF Occurrences

\* As many positions as go one by one into a set of positions, the set has.
LEMMA IntoFewer ==
    ASSUME NEW A, NEW B, IsFiniteSet(B), NEW f,
           \A i \in A : f[i] \in B, \A i, j \in A : f[i] = f[j] => i = j
    PROVE  Cardinality(A) <= Cardinality(B)
<1> DEFINE g == [i \in A |-> f[i]]
<1>1. g \in Injection(A, B)
  BY DEF Injection, IsInjective
<1> HIDE DEF g
<1> QED
  BY <1>1, FS_Injection

LEMMA OccurrencesAppend ==
    ASSUME NEW S, NEW q \in Seq(S), NEW x \in S, NEW y
    PROVE  Occurrences(Append(q, x), y) = Occurrences(q, y) + IF x = y THEN 1 ELSE 0
<1>1. /\ Append(q, x) \in Seq(S) /\ Len(q) \in Nat
      /\ DOMAIN q = 1..Len(q) /\ DOMAIN Append(q, x) = 1..(Len(q) + 1)
      /\ \A i \in 1..Len(q) : Append(q, x)[i] = q[i]
      /\ Append(q, x)[Len(q) + 1] = x
  BY AppendProperties
<1>2. Positions(Append(q, x), y) =
        IF x = y THEN Positions(q, y) \union {Len(q) + 1} ELSE Positions(q, y)
  <2>1. \A i \in 1..(Len(q) + 1) : i \in 1..Len(q) \/ i = Len(q) + 1
    BY <1>1
  <2>2. 1..Len(q) \subseteq 1..(Len(q) + 1) /\ Len(q) + 1 \in 1..(Len(q) + 1)
    BY <1>1
  <2> HIDE DEF Positions
  <2>3. \A i : i \in Positions(Append(q, x), y) <=> i \in Positions(q, y) \/ (i = Len(q) + 1 /\ x = y)
    BY <1>1, <2>1, <2>2 DEF Positions
  <2> QED BY <2>3
<1>3. Len(q) + 1 \notin Positions(q, y)
  BY <1>1, OccurrencesFinite
<1>4. IsFiniteSet(Positions(q, y)) /\ Occurrences(q, y) \in Nat
      /\ Occurrences(q, y) = Cardinality(Positions(q, y))
      /\ Occurrences(Append(q, x), y) = Cardinality(Positions(Append(q, x), y))
  BY <1>1, OccurrencesFinite
<1>5. Cardinality(Positions(q, y) \union {Len(q) + 1}) = Cardinality(Positions(q, y)) + 1
  BY <1>3, <1>4, FS_AddElement
<1> QED
  BY <1>2, <1>4, <1>5

LEMMA OccurrencesTail ==
    ASSUME NEW S, NEW q \in Seq(S), q # << >>, NEW y
    PROVE  Occurrences(q, y) <= Occurrences(Tail(q), y) + IF Head(q) = y THEN 1 ELSE 0
<1>1. /\ Tail(q) \in Seq(S) /\ Len(Tail(q)) = Len(q) - 1 /\ Len(q) \in Nat /\ Len(q) # 0
      /\ DOMAIN q = 1..Len(q) /\ DOMAIN Tail(q) = 1..(Len(q) - 1)
      /\ \A i \in 1..(Len(q) - 1) : Tail(q)[i] = q[i + 1]
      /\ Head(q) = q[1]
  BY HeadTailProperties, EmptySeq
<1> DEFINE A == Positions(q, y) \ {1}
           f == [i \in 1..Len(q) |-> i - 1]
<1>2. \A i \in A : i \in 2..Len(q) /\ q[i] = y /\ f[i] = i - 1
  <2>1. \A i \in A : i \in 1..Len(q) /\ q[i] = y /\ i # 1
    BY <1>1 DEF Positions
  <2>2. \A i \in 1..Len(q) : i # 1 => i \in 2..Len(q)
    BY <1>1
  <2> QED BY <2>1, <2>2
<1>3. \A i \in 2..Len(q) : i - 1 \in 1..(Len(q) - 1) /\ Tail(q)[i - 1] = q[i]
  <2> TAKE i \in 2..Len(q)
  <2>1. i - 1 \in 1..(Len(q) - 1) /\ (i - 1) + 1 = i
    BY <1>1
  <2> QED BY <1>1, <2>1
<1>4. \A i \in A : f[i] \in Positions(Tail(q), y)
  BY <1>1, <1>2, <1>3 DEF Positions
<1>5. \A i, j \in A : f[i] = f[j] => i = j
  BY <1>2
<1>6. Cardinality(A) <= Cardinality(Positions(Tail(q), y))
  <2> HIDE DEF A, f
  <2>1. IsFiniteSet(Positions(Tail(q), y))
    BY <1>1, OccurrencesFinite
  <2> QED BY <1>4, <1>5, <2>1, IntoFewer
<1>7. /\ IsFiniteSet(Positions(q, y)) /\ Occurrences(q, y) \in Nat
      /\ Occurrences(q, y) = Cardinality(Positions(q, y))
      /\ Occurrences(Tail(q), y) = Cardinality(Positions(Tail(q), y)) /\ Occurrences(Tail(q), y) \in Nat
  BY <1>1, OccurrencesFinite
<1>8. 1 \in Positions(q, y) <=> Head(q) = y
  BY <1>1 DEF Positions
<1>9. Cardinality(A) = IF Head(q) = y THEN Occurrences(q, y) - 1 ELSE Occurrences(q, y)
  BY <1>7, <1>8, FS_RemoveElement
<1> HIDE DEF A
<1> QED
  BY <1>6, <1>7, <1>9

\* A deletion that fails leaves the list, or moves what it named to what is lost.
LEMMA FailedDeletion ==
    ASSUME Inv, NEW p \in Proc, DeleteNotifiersFails(p)
    PROVE  /\ list' \in [User -> Seq(User)] /\ lost' \in [User -> [User -> Nat]]
           /\ \A u, k \in User :
                 /\ Occurrences(list'[u], k) <= Occurrences(list[u], k)
                 /\ Occurrences(list'[u], k) + lost'[u][k] = Occurrences(list[u], k) + lost[u][k]
<1>1. list \in [User -> Seq(User)] /\ lost \in [User -> [User -> Nat]]
  BY DEF Inv, TypeOK
<1>2. \A u, k \in User : Occurrences(list[u], k) \in Nat /\ lost[u][k] \in Nat
  BY <1>1, OccurrencesFinite
<1>3. CASE UNCHANGED lists
  BY <1>1, <1>2, <1>3 DEF lists
<1>4. CASE /\ EmptyList(p)
           /\ lost' = [lost EXCEPT ![Subject(p)] =
                         [k \in User |-> @[k] + Occurrences(list[Subject(p)], k)]]
  <2>1. Subject(p) \in User
    BY Subjects DEF Proc, DeleteNotifiersFails
  <2>2. PICK s \in User : s = Subject(p)
    BY <2>1
  <2>3. list' = [list EXCEPT ![s] = << >>]
    BY <1>4, <2>2 DEF EmptyList
  <2>4. lost' = [lost EXCEPT ![s] = [k \in User |-> lost[s][k] + Occurrences(list[s], k)]]
    BY <1>4, <2>2
  <2>5. [k \in User |-> lost[s][k] + Occurrences(list[s], k)] \in [User -> Nat]
    BY <1>2
  <2>6. list' \in [User -> Seq(User)] /\ lost' \in [User -> [User -> Nat]]
    BY <1>1, <2>3, <2>4, <2>5
  <2>7. \A u \in User \ {s} : list'[u] = list[u] /\ lost'[u] = lost[u]
    BY <1>1, <2>3, <2>4
  <2>8. list'[s] = << >> /\ \A k \in User : lost'[s][k] = lost[s][k] + Occurrences(list[s], k)
    BY <1>1, <2>3, <2>4
  <2>9. ASSUME NEW u \in User, NEW k \in User
        PROVE  /\ Occurrences(list'[u], k) <= Occurrences(list[u], k)
               /\ Occurrences(list'[u], k) + lost'[u][k] = Occurrences(list[u], k) + lost[u][k]
    <3>1. CASE u = s
      <4>1. Occurrences(list'[u], k) = 0 /\ lost'[u][k] = lost[u][k] + Occurrences(list[u], k)
        BY <2>8, <3>1, OccurrencesNone
      <4>2. Occurrences(list[u], k) \in Nat /\ lost[u][k] \in Nat
        BY <1>2
      <4> QED BY <4>1, <4>2
    <3>2. CASE u # s
      <4>1. list'[u] = list[u] /\ lost'[u] = lost[u]
        BY <2>7, <3>2
      <4>2. Occurrences(list[u], k) \in Nat
        BY <1>2
      <4> QED BY <4>1, <4>2
    <3> QED BY <3>1, <3>2
  <2> QED BY <2>6, <2>9
<1> QED
  BY <1>3, <1>4 DEF DeleteNotifiersFails

(***************************************************************************)
(* The steps of connections and of the consumer                            *)
(***************************************************************************)

\* A step of p that leaves the hub and the mutex alone.
Beside(p) ==
    /\ \A q \in Proc \ {p} : pc'[q] = pc[q]
    /\ \A d \in Conn \ {p} : runs'[d] = runs[d]
    /\ UNCHANGED <<hub, mu, peer, head, ri>>
    /\ Onwards
    /\ p \in Conn => Place(p)'
    /\ p = Consumer => {pc[p], pc'[p]} \subseteq {"db", "cache", "publish", "fetch", "delete", "remove"}

LEMMA BesideInv == ASSUME Inv, NEW p \in Proc, Beside(p), TypeOK' PROVE Inv'
<1>1. ASSUME NEW d \in Conn PROVE Place(d)'
  <2>1. CASE d = p
    BY <2>1 DEF Beside
  <2>2. CASE d # p
    <3>1. pc'[d] = pc[d] /\ runs'[d] = runs[d] /\ peer'[d] = peer[d] /\ mu' = mu
      BY <2>2, Subjects DEF Beside
    <3> QED BY <3>1, PlaceKept DEF Inv
  <2> QED BY <2>1, <2>2
<1>2. Consuming'
  <2>1. \/ pc'[Consumer] = pc[Consumer]
        \/ {pc[Consumer], pc'[Consumer]} \subseteq {"db", "cache", "publish", "fetch", "delete", "remove"}
    BY DEF Beside, Proc
  <2> QED BY <2>1, ConsumingKept DEF Beside
<1> QED
  BY <1>1, <1>2 DEF Inv

\* The places around setOnlineStatus.
LEMMA AfterStatusIs ==
    ASSUME Inv, NEW p \in Proc, pc[p] \in {"db", "cache", "publish"}
    PROVE  /\ AfterStatus(p) \in {"fetch", "subscribing", "reading"}
           /\ p = Consumer \/ (p \in Conn /\ runs[p] # 0) => AfterStatus(p) = "fetch"
           /\ p \in Conn /\ runs[p] = 0 => AfterStatus(p) \in {"subscribing", "reading"}
           /\ Subject(p) \in User
           /\ p \in Conn \/ p = Consumer
           /\ Arriving(p) \in BOOLEAN
<1>1. p \in Conn \/ p = Consumer
  BY DEF Proc
<1>2. Subject(p) \in User
  BY <1>1, Subjects
<1>3. p \in Conn => p # Consumer
  BY Subjects
<1> QED
  BY <1>1, <1>2, <1>3 DEF AfterStatus, Arriving

LEMMA SetOnlineStatusInv == ASSUME Inv, NEW p \in Proc, SetOnlineStatus(p) PROVE Inv'
<1>1. /\ UNCHANGED <<hub, mu, runs, work, list, lost, sockets, cursor, crashes>>
      /\ pc[p] \in {"db", "cache", "publish"}
  BY DEF SetOnlineStatus, SetUserOnlineStatus, UpdateUserOnlineStatusInCache, PublishStatus, Goto, lists
<1>2. PICK to \in {"cache", "publish", AfterStatus(p)} : Goto(p, pc[p], to)
  BY DEF SetOnlineStatus, SetUserOnlineStatus, UpdateUserOnlineStatusInCache, PublishStatus, Goto
<1>3. /\ Subject(p) \in User /\ (p \in Conn \/ p = Consumer)
      /\ AfterStatus(p) \in {"fetch", "subscribing", "reading"}
      /\ p = Consumer \/ (p \in Conn /\ runs[p] # 0) => AfterStatus(p) = "fetch"
      /\ p \in Conn /\ runs[p] = 0 => AfterStatus(p) \in {"subscribing", "reading"}
  BY <1>1, AfterStatusIs
<1>4. db' \subseteq User /\ cache' \in [User -> {"none", "true", "false"}]
  <2>1. Marked(p) \subseteq User /\ Cached(p) \in [User -> {"none", "true", "false"}]
    BY <1>3 DEF Marked, Cached, Inv, TypeOK
  <2> QED
    BY <2>1 DEF SetOnlineStatus, SetUserOnlineStatus, UpdateUserOnlineStatusInCache, PublishStatus, Inv, TypeOK
<1>5. log' = log \/ \E e \in Event : log' = Append(log, e)
  <2>1. [user |-> Subject(p), online |-> Arriving(p)] \in Event
    BY <1>1, <1>3, AfterStatusIs DEF Event
  <2> QED
    BY <2>1 DEF SetOnlineStatus, SetUserOnlineStatus, UpdateUserOnlineStatusInCache, PublishStatus
<1>6. log' \in Seq(Event) /\ head \in 0..Len(log')
  <2>1. CASE log' = log
    BY <2>1 DEF Inv, TypeOK
  <2>2. ASSUME NEW e \in Event, log' = Append(log, e) PROVE log' \in Seq(Event) /\ Len(log') = Len(log) + 1
    BY <2>2, AppendProperties DEF Inv, TypeOK
  <2>3. log \in Seq(Event) /\ Len(log) \in Nat /\ head \in 0..Len(log)
    BY DEF Inv, TypeOK
  <2> QED BY <1>5, <2>1, <2>2, <2>3
<1>7. TypeOK'
  <2>1. pc' \in [Proc -> {"none", "db", "cache", "publish", "subscribing", "saving",
                        "reading", "fetch", "delete", "remove", "removing", "closing", "done",
                        "starting", "idle", "sending"}]
    BY <1>2, <1>3, MovesIs
  <2> QED
    BY <1>1, <1>4, <1>6, <2>1 DEF Inv, TypeOK, sockets, cursor
<1>8. pc'[p] = to /\ \A q \in Proc \ {p} : pc'[q] = pc[q]
  BY <1>2, MovesIs
<1>9. ASSUME p \in Conn PROVE Place(p)'
  BY <1>1, <1>3, <1>8, <1>9 DEF Inv, Place, Gone, sockets
<1>10. Beside(p)
  BY <1>1, <1>3, <1>5, <1>8, <1>9, Subjects DEF Beside, Onwards, Gone, sockets, cursor
<1> QED
  BY <1>7, <1>10, BesideInv

\* The fetch and the deletion of the list.
LEMMA FetchInv == ASSUME Inv, NEW p \in Proc, FetchNotifiers(p) \/ DeleteNotifiers(p) PROVE Inv'
<1>1. /\ UNCHANGED <<hub, mu, runs, db, cache, lost, log, sockets, cursor, crashes>>
      /\ pc[p] \in {"fetch", "delete"}
  BY DEF FetchNotifiers, DeleteNotifiers, Goto, stores, lists
<1>2. PICK to \in {"delete", "remove"} : Goto(p, pc[p], to)
  BY DEF FetchNotifiers, DeleteNotifiers, Goto
<1>3. Subject(p) \in User /\ (p \in Conn \/ p = Consumer)
  BY <1>1, Subjects DEF Proc
<1>4. work' \in [Proc -> Seq(User)] /\ list' \in [User -> Seq(User)]
  <2>1. work \in [Proc -> Seq(User)] /\ list \in [User -> Seq(User)]
    BY DEF Inv, TypeOK
  <2>2. PICK u \in User : u = Subject(p)
    BY <1>3
  <2>3. CASE FetchNotifiers(p)
    <3>1. work' = [work EXCEPT ![p] = list[u]] /\ list' = list
      BY <2>2, <2>3 DEF FetchNotifiers, stores, lists
    <3> QED BY <2>1, <3>1
  <2>4. CASE DeleteNotifiers(p)
    <3>1. list' = [list EXCEPT ![u] = << >>] /\ work' = work
      BY <2>2, <2>4 DEF DeleteNotifiers, EmptyList
    <3> QED BY <2>1, <3>1
  <2> QED BY <2>3, <2>4
<1>5. pc'[p] = to /\ \A q \in Proc \ {p} : pc'[q] = pc[q]
  BY <1>2, MovesIs
<1>6. TypeOK'
  BY <1>1, <1>2, <1>4, MovesIs DEF Inv, TypeOK, sockets, cursor
<1>7. ASSUME p \in Conn PROVE Place(p)'
  BY <1>1, <1>5, <1>7 DEF Inv, Place, Gone, sockets
<1>8. Beside(p)
  BY <1>1, <1>5, <1>7 DEF Beside, Onwards, Gone, sockets, cursor
<1> QED
  BY <1>6, <1>8, BesideInv

\* The end of an unsubscription, by which the mutex may be unlocked.
LEMMA EndUnsubscribeInv ==
    ASSUME Inv, NEW p \in Proc, EndUnsubscribe(p), pc[p] \in {"fetch", "delete", "removing"},
           UNCHANGED <<hub, work, db, cache, log, sockets, head, crashes>>,
           list' \in [User -> Seq(User)], lost' \in [User -> [User -> Nat]],
           \/ UNCHANGED mu
           \/ pc[p] = "removing" /\ mu' = "free"
    PROVE  Inv'
<1>1. CASE p = Consumer
  <2>1. pc' = [pc EXCEPT ![p] = "sending"] /\ ri' = ri + 1 /\ UNCHANGED <<runs, mu>>
    BY <1>1 DEF EndUnsubscribe, Inv, Consuming
  <2>2. TypeOK'
    BY <2>1 DEF Inv, TypeOK, stores, lists, sockets
  <2>3. ASSUME NEW d \in Conn PROVE Place(d)'
    <3>1. pc'[d] = pc[d]
      BY <1>1, <2>1, Subjects DEF Inv, TypeOK
    <3> QED BY <2>1, <3>1, PlaceKept DEF Inv, sockets
  <2>4. Consuming'
    <3>1. pc'[Consumer] = "sending"
      BY <1>1, <2>1 DEF Inv, TypeOK
    <3> QED BY <1>1, <2>1, <3>1 DEF Inv, Consuming, stores, lists
  <2> QED BY <2>2, <2>3, <2>4 DEF Inv
<1>2. CASE p \in Conn
  <2>1. p # Consumer /\ runs[p] \in 1..2
    BY <1>2, Subjects DEF Inv, TypeOK, Place
  <2>2. /\ pc' = [pc EXCEPT ![p] = IF runs[p] = 1 THEN "closing" ELSE "db"]
        /\ runs' = [runs EXCEPT ![p] = @ - 1] /\ UNCHANGED ri
    BY <2>1 DEF EndUnsubscribe
  <2>3. /\ pc'[p] = IF runs[p] = 1 THEN "closing" ELSE "db"
        /\ runs'[p] = runs[p] - 1
        /\ \A q \in Proc \ {p} : pc'[q] = pc[q]
        /\ \A d \in Conn \ {p} : runs'[d] = runs[d]
        /\ runs' \in [Conn -> 0..2]
    BY <1>2, <2>1, <2>2 DEF Inv, TypeOK
  <2>4. TypeOK'
    BY <2>2, <2>3 DEF Inv, TypeOK, stores, lists, sockets
  <2>5. mu \in {"free", p} \/ mu' = mu
    BY <1>2 DEF Inv, Place
  <2>6. Around(p)
    BY <2>2, <2>3, <2>5 DEF Around, Onwards, Gone, stores, lists, sockets
  <2>7. Place(p)'
    BY <1>2, <2>1, <2>3 DEF Inv, Place, Gone, sockets
  <2> QED BY <1>2, <2>4, <2>6, <2>7, AroundInv
<1> QED
  BY <1>1, <1>2 DEF Proc

LEMMA RemoveInv ==
    ASSUME Inv, NEW p \in Proc, LockToRemove(p) \/ RemoveObserver(p) PROVE Inv'
<1>1. p \in Conn
  BY ConsumerAssumption DEF LockToRemove, RemoveObserver, Goto, Inv, Consuming, Proc
<1>2. CASE LockToRemove(p)
  <2>1. /\ mu = "free" /\ Goto(p, "remove", "removing") /\ mu' = p
        /\ UNCHANGED <<hub, runs, work, stores, sockets, cursor, crashes>>
    BY <1>2 DEF LockToRemove
  <2>2. TypeOK'
    BY <2>1, MovesIs DEF Inv, TypeOK, stores, lists, sockets, cursor
  <2>3. Around(p)
    BY <2>1, MovesIs DEF Around, Onwards, Gone, stores, lists, sockets, cursor
  <2>4. Place(p)'
    BY <1>1, <2>1, MovesIs DEF Inv, Place, Gone, sockets
  <2> QED BY <1>1, <2>2, <2>3, <2>4, AroundInv
<1>3. CASE RemoveObserver(p)
  <2>1. /\ pc[p] = "removing" /\ work[p] # << >>
        /\ hub' = Unregister(hub, Head(work[p]), Subject(p))
        /\ work' = [work EXCEPT ![p] = Tail(@)]
        /\ UNCHANGED <<mu, pc, runs, stores, sockets, cursor, crashes>>
    BY <1>3 DEF RemoveObserver
  <2>2. Head(work[p]) \in User /\ Tail(work[p]) \in Seq(User)
    BY <2>1, HeadTailProperties DEF Inv, TypeOK
  <2>3. hub' \in Hubs /\ work' \in [Proc -> Seq(User)]
    BY <2>1, <2>2, HubTyped DEF Inv, TypeOK
  <2>4. TypeOK'
    BY <2>1, <2>3 DEF Inv, TypeOK, stores, lists, sockets, cursor
  <2>5. mu = p
    BY <1>1, <2>1 DEF Inv, Place
  <2>6. Around(p)
    BY <2>1, <2>5 DEF Around, Onwards, Gone, stores, lists, sockets, cursor
  <2>7. Place(p)'
    BY <1>1, <2>1 DEF Inv, Place, Gone, sockets
  <2> QED BY <1>1, <2>4, <2>6, <2>7, AroundInv
<1> QED
  BY <1>2, <1>3

LEMMA UnsubscribeInv == ASSUME Inv, NEW p \in Proc, Unsubscribe(p) PROVE Inv'
<1>1. CASE FetchNoNotifiers(p) \/ FinishRemoving(p)
  BY <1>1, EndUnsubscribeInv DEF FetchNoNotifiers, FinishRemoving, stores, lists, Inv, TypeOK
<1>2. CASE DeleteNotifiersFails(p)
  <2>1. pc[p] = "delete" /\ EndUnsubscribe(p) /\ UNCHANGED <<hub, work, db, cache, log, sockets, head, crashes, mu>>
    BY <1>2 DEF DeleteNotifiersFails
  <2>2. list' \in [User -> Seq(User)] /\ lost' \in [User -> [User -> Nat]]
    BY <1>2, FailedDeletion
  <2> QED BY <2>1, <2>2, EndUnsubscribeInv
<1> QED
  BY <1>1, <1>2, FetchInv, RemoveInv DEF Unsubscribe

\* A status that expires concerns nobody's place.
LEMMA ExpireStatusInv == ASSUME Inv, NEW u \in User, ExpireStatus(u) PROVE Inv'
<1>1. UNCHANGED <<hub, mu, pc, runs, work, db, lists, log, sockets, cursor, crashes>>
      /\ cache' = [cache EXCEPT ![u] = "none"]
  BY DEF ExpireStatus
<1>2. TypeOK'
  BY <1>1 DEF Inv, TypeOK, lists, sockets, cursor
<1>3. Consuming'
  BY <1>1 DEF Inv, Consuming, Target, Current, Gone, sockets, cursor
<1>4. \A c \in Conn : Place(c)'
  BY <1>1 DEF Inv, Place, Gone, sockets
<1> QED
  BY <1>2, <1>3, <1>4 DEF Inv

(***************************************************************************)
(* The steps of the consumer, and the crash                                *)
(***************************************************************************)

LEMMA ConsumerPlaces ==
    ASSUME Inv, UNCHANGED <<pc, runs, peer, mu>> \/
                (/\ \A c \in Conn : pc'[c] = pc[c]
                 /\ UNCHANGED <<runs, peer>>
                 /\ mu \in {"free", Consumer} \/ UNCHANGED mu)
    PROVE  \A c \in Conn : Place(c)'
<1> TAKE c \in Conn
<1>1. mu = c => mu' = c
  BY ConsumerAssumption
<1> QED
  BY <1>1, PlaceKept DEF Inv

LEMMA IdleInv == ASSUME Inv, SubscribeToChannel \/ Send \/ LoseEvent PROVE Inv'
<1>1. /\ UNCHANGED <<hub, runs, work, stores, sockets, crashes>>
      /\ mu \in {"free", Consumer} \/ UNCHANGED mu
      /\ Consumer \in Proc
  BY DEF SubscribeToChannel, Send, LoseEvent, Proc
<1>2. log \in Seq(Event) /\ Len(log) \in Nat /\ head \in Nat /\ head <= Len(log)
  BY DEF Inv, TypeOK
<1>3. PICK to \in {"idle", "sending"} :
        /\ pc'[Consumer] = to /\ \A c \in Conn : pc'[c] = pc[c]
        /\ pc' \in [Proc -> {"none", "db", "cache", "publish", "subscribing", "saving",
                        "reading", "fetch", "delete", "remove", "removing", "closing", "done",
                        "starting", "idle", "sending"}]
        /\ to = "sending" => mu' = Consumer /\ head' < Len(log)
  <2>1. CASE LoseEvent
    BY <2>1 DEF LoseEvent, Inv, TypeOK
  <2>2. CASE SubscribeToChannel \/ Send
    <3>1. \A c \in Conn : c \in Proc /\ c # Consumer
      BY Subjects
    <3> QED
      BY <1>1, <2>2, <3>1, MovesIs DEF SubscribeToChannel, Send
  <2> QED BY <2>1, <2>2
<1>4. head' \in 0..Len(log) /\ ri' \in Nat \ {0} /\ mu' \in {"free"} \union Proc
  BY <1>2 DEF SubscribeToChannel, Send, LoseEvent, Inv, TypeOK, Proc
<1>5. TypeOK'
  BY <1>1, <1>3, <1>4 DEF Inv, TypeOK, stores, lists, sockets
<1>6. Consuming'
  BY <1>1, <1>3 DEF Consuming, stores, lists
<1> QED
  BY <1>1, <1>3, <1>5, <1>6, ConsumerPlaces DEF Inv, sockets

\* The consumer between the event's arrival and its last observer.
LEMMA SendingIs ==
    ASSUME Inv, pc[Consumer] \notin {"starting", "idle"}
    PROVE  /\ Consumer \in Proc /\ mu = Consumer /\ head \in Nat /\ head + 1 \in 1..Len(log)
           /\ log \in Seq(Event) /\ Current \in Event /\ Target \in Seq(Conn)
<1>1. /\ mu = Consumer /\ head \in Nat /\ head + 1 \in 1..Len(log) /\ log \in Seq(Event)
  BY DEF Inv, TypeOK, Consuming
<1>2. Current \in Event
  BY <1>1 DEF Current
<1> QED
  BY <1>1, <1>2 DEF Inv, TypeOK, Hubs, Target, Event, Proc

LEMMA WriteJSONInv == ASSUME Inv, NEW o \in Conn, WriteJSON(o) PROVE Inv'
<1>1. /\ pc[Consumer] = "sending"
      /\ sent' = [sent EXCEPT ![o] = Append(@, head + 1)] /\ ri' = ri + 1
      /\ UNCHANGED <<hub, mu, pc, runs, work, stores, peer, closed, head, crashes>>
  BY DEF WriteJSON, Writing
<1>2. TypeOK'
  <2>1. /\ sent \in [Conn -> Seq(Nat)] /\ head \in Nat /\ ri \in Nat \ {0}
    BY SendingIs DEF Inv, TypeOK
  <2>2. sent' \in [Conn -> Seq(Nat)] /\ ri' \in Nat \ {0}
    BY <1>1, <2>1
  <2> QED BY <1>1, <2>2 DEF Inv, TypeOK, stores, lists
<1>3. Consuming'
  BY <1>1 DEF Inv, Consuming, stores, lists
<1> QED
  BY <1>1, <1>2, <1>3, ConsumerPlaces DEF Inv

LEMMA EndSendInv == ASSUME Inv, EndSend PROVE Inv'
<1>1. /\ Goto(Consumer, "sending", "idle") /\ mu' = "free" /\ head' = head + 1 /\ ri' = 1
      /\ UNCHANGED <<hub, runs, work, stores, sockets, crashes>>
  BY DEF EndSend
<1>2. pc[Consumer] = "sending"
  BY <1>1 DEF Goto
<1>3. TypeOK'
  BY <1>1, <1>2, SendingIs, MovesIs DEF Inv, TypeOK, stores, lists, sockets
<1>4. Consuming'
  BY <1>1, <1>2, SendingIs, MovesIs DEF Consuming
<1>5. \A c \in Conn : pc'[c] = pc[c]
  BY <1>1, <1>2, Subjects, SendingIs, MovesIs
<1> QED
  BY <1>1, <1>2, <1>3, <1>4, <1>5, SendingIs, ConsumerPlaces DEF Inv, sockets

LEMMA WriteToGoneClientInv == ASSUME Inv, NEW o \in Conn, WriteToGoneClient(o) PROVE Inv'
<1>1. /\ Goto(Consumer, "sending", "db") /\ closed' = closed \union {o}
      /\ ri <= Len(Target) /\ o = Target[ri] /\ Gone(o)
      /\ UNCHANGED <<hub, mu, runs, work, stores, peer, sent, cursor, crashes>>
  BY DEF WriteToGoneClient, Writing
<1>2. pc[Consumer] = "sending"
  BY <1>1 DEF Goto
<1>3. TypeOK'
  BY <1>1, <1>2, SendingIs, MovesIs DEF Inv, TypeOK, stores, lists, cursor
<1>4. ri \in DOMAIN Target
  BY <1>1, <1>2, SendingIs DEF Inv, TypeOK
<1>5. pc'[Consumer] = "db" /\ \A c \in Conn : pc'[c] = pc[c]
  BY <1>1, <1>2, Subjects, SendingIs, MovesIs
<1>6. Current' = Current
  BY <1>1 DEF Current, stores, lists, cursor
<1>7. Target' = Target
  BY <1>1, <1>6 DEF Target
<1>8. Gone(Target[ri])'
  BY <1>1, <1>7 DEF Gone, cursor
<1>9. Consuming'
  BY <1>1, <1>2, <1>4, <1>5, <1>7, <1>8 DEF Inv, Consuming, stores, lists, cursor
<1> QED
  BY <1>1, <1>3, <1>5, <1>9, ConsumerPlaces DEF Inv

LEMMA CrashInv == ASSUME Inv, Crash PROVE Inv'
<1>1. Consumer \in Proc /\ \A c \in Conn : c \in Proc /\ c # Consumer
  BY Subjects DEF Proc
<1>2. EmptyHub \in Hubs
  BY DEF EmptyHub, Hubs
<1>3. TypeOK'
  BY <1>1, <1>2, ChoicesAssumption DEF Crash, Inv, TypeOK, stores, lists
<1>4. \A c \in Conn : Place(c)'
  BY <1>1 DEF Crash, Inv, Place, Gone
<1>5. Consuming'
  BY <1>1 DEF Crash, Consuming
<1> QED
  BY <1>3, <1>4, <1>5 DEF Inv

LEMMA NextInv == Inv /\ [Next]_vars => Inv'
<1> SUFFICES ASSUME Inv, [Next]_vars PROVE Inv'
  OBVIOUS
<1>1. ASSUME NEW c \in Conn, ConnStep(c) PROVE Inv'
  BY <1>1, Subjects, SetOnlineStatusInv, LockToSubscribeInv, SaveObserverNotifierInv,
     FinishSubscribingInv, UnsubscribeInv, CloseSocketInv DEF ConnStep
<1>2. ASSUME NEW c \in Conn,
             \/ HandleSocketUserObservingRoute(c)
             \/ ReadFails(c)
             \/ Leave(c)
             \/ StopOrResume(c)
      PROVE  Inv'
  BY <1>2, RouteInv, ReadInv, ClientInv
<1>3. CASE ConsumerStep
  <2>1. CASE \E o \in Conn : WriteJSON(o) \/ WriteToClosedSocket(o) \/ WriteToGoneClient(o)
    BY <2>1, WriteJSONInv, EndSendInv, WriteToGoneClientInv DEF WriteToClosedSocket
  <2>2. CASE SubscribeToChannel \/ Send
    BY <2>2, IdleInv
  <2>3. CASE FinishSend
    BY <2>3, EndSendInv DEF FinishSend
  <2>4. CASE SetOnlineStatus(Consumer) \/ Unsubscribe(Consumer)
    BY <2>4, SetOnlineStatusInv, UnsubscribeInv DEF Proc
  <2> QED BY <1>3, <2>1, <2>2, <2>3, <2>4 DEF ConsumerStep
<1>4. CASE LoseEvent
  BY <1>4, IdleInv
<1>5. CASE Crash \/ \E u \in User : ExpireStatus(u)
  BY <1>5, CrashInv, ExpireStatusInv
<1>6. CASE UNCHANGED vars
  <2>1. TypeOK'
    BY <1>6 DEF Inv, TypeOK, vars, stores, lists, sockets, cursor
  <2>2. Consuming'
    BY <1>6 DEF Inv, Consuming, Target, Current, Gone, vars, stores, lists, sockets, cursor
  <2>3. \A c \in Conn : Place(c)'
    BY <1>6 DEF Inv, Place, Gone, vars, stores, lists, sockets, cursor
  <2> QED BY <2>1, <2>2, <2>3 DEF Inv
<1> QED
  BY <1>1, <1>2, <1>3, <1>4, <1>5, <1>6 DEF Next

\* Every reachable state is typed: in particular no connection owes less than no
\* unsubscription, and the consumer does not run past the log.
THEOREM TypeCorrect == Spec => []TypeOK
<1>1. Inv => TypeOK
  BY DEF Inv
<1> QED
  BY <1>1, InitInv, NextInv, PTL DEF Spec

(***************************************************************************)
(* The statuses: which steps can touch them                                *)
(***************************************************************************)

Arrived == {"subscribing", "saving", "reading"}

\* How far a step that is not of setOnlineStatus takes connection c.
Goes(c) ==
    /\ Gone(c) => Gone(c)'
    /\ pc'[c] \in Arrived => pc[c] \in Arrived
    /\ ~Gone(c) /\ pc[c] \in {"none", "db"} => ~Gone(c)' /\ pc'[c] \in {"none", "db"}
    /\ ~Gone(c) /\ pc[c] \in {"cache", "publish"} => ~Gone(c)'
    /\ ~Gone(c) /\ pc[c] \in Arrived \union {"closing", "done"} =>
          pc'[c] \in Arrived \union {"closing", "done"}

\* A step of p that is not of setOnlineStatus.
Elsewhere(p) ==
    /\ UNCHANGED <<db, cache, log, crashes>>
    /\ \A q \in Proc \ {p} : pc'[q] = pc[q]
    /\ {pc[p], pc'[p]} \intersect {"cache", "publish"} = {}
    /\ \A d \in Conn \ {p} : peer'[d] = peer[d]
    /\ p \in Conn => Goes(p) /\ UNCHANGED <<head, ri, sent>> /\ (mu = Consumer => hub' = hub)

LEMMA ConnElsewhere ==
    ASSUME Inv, NEW c \in Conn,
           \/ HandleSocketUserObservingRoute(c)
           \/ LockToSubscribe(c)
           \/ SaveObserverNotifier(c)
           \/ FinishSubscribing(c)
           \/ CloseSocket(c)
           \/ ReadFails(c)
           \/ Leave(c)
           \/ StopOrResume(c)
    PROVE  Elsewhere(c)
<1>1. c \in Proc /\ c # Consumer /\ Place(c)
  BY Subjects DEF Inv
<1>2. CASE HandleSocketUserObservingRoute(c) \/ CloseSocket(c)
  BY <1>1, <1>2, MovesIs
     DEF HandleSocketUserObservingRoute, CloseSocket, Elsewhere, Goes, Gone, Arrived, stores, lists, sockets, cursor
<1>3. CASE LockToSubscribe(c) \/ FinishSubscribing(c)
  BY <1>1, <1>3, MovesIs
     DEF LockToSubscribe, FinishSubscribing, Elsewhere, Goes, Gone, Arrived, stores, lists, sockets, cursor
<1>4. CASE SaveObserverNotifier(c)
  BY <1>1, <1>4 DEF SaveObserverNotifier, Place, Elsewhere, Goes, Gone, Arrived, sockets, cursor
<1>5. CASE ReadFails(c)
  <2>1. /\ UNCHANGED <<hub, stores, sockets, cursor, crashes>>
        /\ \E to \in {"closing", "db"} : Goto(c, "reading", to) /\ (to = "db" => Gone(c))
    BY <1>5 DEF ReadFails, ReadClose, ReadClosedSocket
  <2> QED
    BY <1>1, <2>1, MovesIs DEF Elsewhere, Goes, Gone, Arrived, stores, lists, sockets, cursor
<1>6. CASE Leave(c) \/ StopOrResume(c)
  <2>1. /\ UNCHANGED <<hub, pc, stores, sent, cursor, crashes>> /\ pc[c] = "reading"
        /\ \E how : peer' = [peer EXCEPT ![c] = how]
        /\ Gone(c) => Gone(c)'
    BY <1>6 DEF Leave, StopOrResume, Gone, Departures
  <2>2. \A d \in Conn \ {c} : peer'[d] = peer[d]
    BY <2>1 DEF Inv, TypeOK
  <2> QED
    BY <2>1, <2>2 DEF Elsewhere, Goes, Arrived, stores, lists, cursor
<1> QED
  BY <1>2, <1>3, <1>4, <1>5, <1>6

LEMMA EndUnsubscribeIs ==
    ASSUME Inv, NEW p \in Proc, EndUnsubscribe(p)
    PROVE  /\ \A q \in Proc \ {p} : pc'[q] = pc[q]
           /\ p = Consumer => pc'[p] = "sending"
           /\ p # Consumer => pc'[p] \in {"closing", "db"} /\ UNCHANGED ri
BY DEF EndUnsubscribe, Inv, TypeOK

LEMMA UnsubscribeElsewhere == ASSUME Inv, NEW p \in Proc, Unsubscribe(p) PROVE Elsewhere(p)
<1>1. /\ UNCHANGED <<db, cache, log, peer, sent, head, crashes>>
      /\ pc[p] \in {"fetch", "delete", "remove", "removing"}
      /\ pc[p] = "removing" \/ hub' = hub
  BY DEF Unsubscribe, FetchNotifiers, FetchNoNotifiers, DeleteNotifiers, DeleteNotifiersFails,
         LockToRemove, RemoveObserver, FinishRemoving, Goto, stores, lists, sockets, cursor
<1>2. /\ \A q \in Proc \ {p} : pc'[q] = pc[q]
      /\ pc'[p] \notin {"cache", "publish"} \union Arrived
      /\ p # Consumer => UNCHANGED ri
  <2>1. CASE FetchNotifiers(p) \/ DeleteNotifiers(p) \/ LockToRemove(p)
    BY <2>1, MovesIs DEF FetchNotifiers, DeleteNotifiers, LockToRemove, Arrived, cursor
  <2>2. CASE RemoveObserver(p)
    BY <2>2 DEF RemoveObserver, Arrived, cursor
  <2>3. CASE FetchNoNotifiers(p) \/ DeleteNotifiersFails(p) \/ FinishRemoving(p)
    BY <2>3, EndUnsubscribeIs DEF FetchNoNotifiers, DeleteNotifiersFails, FinishRemoving, Arrived
  <2> QED BY <2>1, <2>2, <2>3 DEF Unsubscribe
<1>3. p \in Conn => p # Consumer /\ Gone(p) /\ (mu = Consumer => hub' = hub)
  BY <1>1, Subjects DEF Inv, Place
<1>4. p \notin Conn => p = Consumer
  BY DEF Proc
<1> QED
  BY <1>1, <1>2, <1>3, <1>4 DEF Elsewhere, Goes, Gone, cursor

LEMMA ConsumerElsewhere ==
    ASSUME Inv,
           \/ SubscribeToChannel
           \/ Send
           \/ LoseEvent
           \/ EndSend
           \/ \E o \in Conn : WriteToGoneClient(o) \/ WriteJSON(o)
    PROVE  Elsewhere(Consumer)
<1>1. Consumer \in Proc /\ Consumer \notin Conn
  BY ConsumerAssumption DEF Proc
<1>2. CASE LoseEvent \/ \E o \in Conn : WriteJSON(o)
  BY <1>1, <1>2 DEF LoseEvent, WriteJSON, Writing, Elsewhere, stores, lists, sockets
<1>3. CASE SubscribeToChannel \/ Send \/ EndSend \/ \E o \in Conn : WriteToGoneClient(o)
  <2>1. /\ UNCHANGED <<db, cache, log, peer, crashes>>
        /\ \E from \in {"starting", "idle", "sending"}, to \in {"idle", "sending", "db"} :
              Goto(Consumer, from, to)
    BY <1>3 DEF SubscribeToChannel, Send, EndSend, WriteToGoneClient, stores, lists, sockets
  <2> QED BY <1>1, <2>1, MovesIs DEF Elsewhere
<1> QED
  BY <1>2, <1>3

LEMMA StepIs ==
    ASSUME Inv, [Next]_vars
    PROVE  \/ \E p \in Proc : SetOnlineStatus(p) \/ Elsewhere(p)
           \/ Crash
           \/ \E u \in User : ExpireStatus(u)
           \/ UNCHANGED vars
<1>1. Consumer \in Proc /\ \A c \in Conn : c \in Proc
  BY DEF Proc
<1>2. ASSUME NEW c \in Conn, ConnStep(c) PROVE SetOnlineStatus(c) \/ Elsewhere(c)
  BY <1>1, <1>2, ConnElsewhere, UnsubscribeElsewhere DEF ConnStep
<1>3. ASSUME ConsumerStep \/ LoseEvent PROVE SetOnlineStatus(Consumer) \/ Elsewhere(Consumer)
  BY <1>1, <1>3, ConsumerElsewhere, UnsubscribeElsewhere
     DEF ConsumerStep, WriteToClosedSocket, FinishSend
<1> QED
  BY <1>1, <1>2, <1>3, ConnElsewhere DEF Next

\* A step elsewhere goes on with no announcement and begins none.
LEMMA ElsewhereMeans ==
    ASSUME Inv, NEW p \in Proc, Elsewhere(p)
    PROVE  /\ \A c \in Conn : Goes(c)
           /\ \A q \in Proc : /\ pc[q] \in {"cache", "publish"} <=> pc'[q] \in {"cache", "publish"}
                              /\ pc[q] \in {"cache", "publish"} =>
                                    pc'[q] = pc[q] /\ Subject(q)' = Subject(q)
<1>1. \A c \in Conn : Goes(c)
  BY Subjects DEF Elsewhere, Goes, Gone, Inv, Place, Arrived
<1>2. ASSUME NEW q \in Proc
      PROVE  /\ pc[q] \in {"cache", "publish"} <=> pc'[q] \in {"cache", "publish"}
             /\ pc[q] \in {"cache", "publish"} => pc'[q] = pc[q]
  BY DEF Elsewhere
<1>3. ASSUME NEW q \in Proc, pc[q] \in {"cache", "publish"} PROVE Subject(q)' = Subject(q)
  <2>1. CASE q \in Conn
    BY <2>1, Subjects DEF Subject
  <2>2. CASE q = Consumer
    <3>1. mu = Consumer /\ p \in Conn
      BY <1>3, <2>2 DEF Elsewhere, Inv, Consuming, Proc
    <3>2. hub' = hub /\ head' = head /\ ri' = ri /\ log' = log
      BY <3>1 DEF Elsewhere
    <3> QED BY <2>2, <3>2 DEF Subject, Target, Current
  <2> QED BY <2>1, <2>2 DEF Proc
<1> QED
  BY <1>1, <1>2, <1>3

\* What setOnlineStatus does while no store fails, and for whom.
StatusWrite(p, u) ==
    \/ /\ pc[p] = "db" /\ pc'[p] = "cache"
       /\ db' = IF Arriving(p) THEN db \union {u} ELSE db \ {u}
       /\ UNCHANGED <<cache, log>>
    \/ /\ pc[p] = "cache" /\ pc'[p] = "publish"
       /\ cache' = [cache EXCEPT ![u] = IF Arriving(p) THEN "true" ELSE "false"]
       /\ UNCHANGED <<db, log>>
    \/ /\ pc[p] = "publish" /\ pc'[p] = AfterStatus(p)
       /\ log' = Append(log, [user |-> u, online |-> Arriving(p)])
       /\ UNCHANGED <<db, cache>>

LEMMA StatusWriteIs ==
    ASSUME Inv, Failing = {}, NEW p \in Proc, SetOnlineStatus(p)
    PROVE  /\ StatusWrite(p, Subject(p))
           /\ UNCHANGED <<hub, mu, peer, crashes, head, ri>>
           /\ \A q \in Proc \ {p} : pc'[q] = pc[q]
           /\ pc[p] \in {"db", "cache", "publish"}
<1>1. /\ UNCHANGED <<hub, mu, peer, crashes, head, ri>>
      /\ pc[p] \in {"db", "cache", "publish"}
  BY DEF SetOnlineStatus, SetUserOnlineStatus, UpdateUserOnlineStatusInCache, PublishStatus, Goto,
         sockets, cursor
<1>2. PICK to : Goto(p, pc[p], to)
  BY DEF SetOnlineStatus, SetUserOnlineStatus, UpdateUserOnlineStatusInCache, PublishStatus, Goto
<1>3. StatusWrite(p, Subject(p))
  <2>1. CASE SetUserOnlineStatus(p)
    BY <2>1, MovesIs DEF SetUserOnlineStatus, Marked, StatusWrite
  <2>2. CASE UpdateUserOnlineStatusInCache(p)
    BY <2>2, MovesIs DEF UpdateUserOnlineStatusInCache, Cached, StatusWrite
  <2>3. CASE PublishStatus(p)
    BY <2>3, MovesIs DEF PublishStatus, StatusWrite
  <2> QED BY <2>1, <2>2, <2>3 DEF SetOnlineStatus
<1> QED
  BY <1>1, <1>2, <1>3, MovesIs

\* Whose status it is: one's own, on arrival, or that of a client that has left.
LEMMA SubjectIs ==
    ASSUME Inv, NEW p \in Proc, pc[p] \in {"db", "cache", "publish"}
    PROVE  /\ Subject(p) \in User /\ Arriving(p) \in BOOLEAN
           /\ Arriving(p) => p \in Conn /\ ~Gone(p) /\ UserOf[p] = Subject(p)
           /\ ~Arriving(p) => \E d \in Conn : Gone(d) /\ UserOf[d] = Subject(p) /\ (p \in Conn => d = p)
<1>1. CASE p \in Conn
  BY <1>1, Subjects DEF Arriving, Inv, Place
<1>2. CASE p = Consumer
  <2>1. Target[ri] \in Conn /\ Gone(Target[ri]) /\ Subject(p) = UserOf[Target[ri]] /\ Subject(p) \in User
    BY <1>2, Subjects DEF Inv, Consuming, Subject
  <2>2. ~Arriving(p) /\ p \notin Conn
    BY <1>2, ConsumerAssumption DEF Arriving
  <2>3. PICK d \in Conn : Gone(d) /\ UserOf[d] = Subject(p)
    BY <2>1
  <2> QED BY <2>1, <2>2, <2>3 DEF Arriving
<1> QED
  BY <1>1, <1>2 DEF Proc

(***************************************************************************)
(* Connected users are online                                              *)
(***************************************************************************)

HasLeft(c) == \E d \in Siblings(c) : Gone(d)

\* Online in the database, and the cache does not say otherwise.
Shown(u) == u \in db /\ cache[u] # "false"

\* From each of its writes on, c's user is online where it has written.
OnlineFrom(c) ==
    ~Gone(c) /\ Failing = {} =>
        /\ pc[c] = "cache" => UserOf[c] \in db \/ HasLeft(c)
        /\ pc[c] \in {"publish"} \union Arrived => Shown(UserOf[c]) \/ HasLeft(c)

LEMMA OnlineStep ==
    ASSUME Inv, NEW c \in Conn, OnlineFrom(c), [Next]_vars
    PROVE  OnlineFrom(c)'
<1> SUFFICES ASSUME ~Gone(c)', Failing = {}
             PROVE  /\ pc'[c] = "cache" => UserOf[c] \in db' \/ HasLeft(c)'
                    /\ pc'[c] \in {"publish"} \union Arrived =>
                          Shown(UserOf[c])' \/ HasLeft(c)'
  BY DEF OnlineFrom
<1>1. CASE UNCHANGED vars
  BY <1>1 DEF OnlineFrom, HasLeft, Siblings, Gone, Shown, vars
<1>2. CASE Crash
  <2>1. pc'[c] \in {"none", "done"}
    BY <1>2, Subjects DEF Crash
  <2> QED BY <2>1 DEF Arrived
<1>3. ASSUME NEW p \in Proc, Elsewhere(p)
      PROVE  /\ pc'[c] = "cache" => UserOf[c] \in db' \/ HasLeft(c)'
             /\ pc'[c] \in {"publish"} \union Arrived =>
                   Shown(UserOf[c])' \/ HasLeft(c)'
  <2>1. /\ \A d \in Conn : Gone(d) => Gone(d)'
        /\ ~Gone(c)
        /\ pc'[c] \in {"cache", "publish"} => pc[c] = pc'[c]
        /\ pc'[c] \in Arrived => pc[c] \in Arrived
        /\ Shown(UserOf[c])' <=> Shown(UserOf[c])
        /\ db' = db
    BY <1>3, ElsewhereMeans, Subjects DEF Goes, Elsewhere, Shown
  <2>2. HasLeft(c) => HasLeft(c)'
    BY <2>1 DEF HasLeft, Siblings
  <2> QED BY <2>1, <2>2 DEF OnlineFrom
<1>4. ASSUME NEW p \in Proc, SetOnlineStatus(p)
      PROVE  /\ pc'[c] = "cache" => UserOf[c] \in db' \/ HasLeft(c)'
             /\ pc'[c] \in {"publish"} \union Arrived =>
                   Shown(UserOf[c])' \/ HasLeft(c)'
  <2>1. /\ StatusWrite(p, Subject(p)) /\ peer' = peer
        /\ \A q \in Proc \ {p} : pc'[q] = pc[q]
        /\ pc[p] \in {"db", "cache", "publish"}
    BY <1>4, StatusWriteIs
  <2>2. ~Gone(c) /\ (HasLeft(c)' <=> HasLeft(c))
    BY <2>1 DEF Gone, HasLeft, Siblings
  <2>3. CASE ~Arriving(p)
    <3>1. UserOf[c] = Subject(p) => HasLeft(c)
      BY <2>1, <2>2, <2>3, SubjectIs DEF HasLeft, Siblings
    <3>2. p # c
      BY <2>1, <2>2, <2>3, SubjectIs
    <3>3. pc'[c] = pc[c]
      BY <2>1, <3>2, Subjects
    <3>4. UserOf[c] # Subject(p) =>
            (UserOf[c] \in db => UserOf[c] \in db') /\ (Shown(UserOf[c]) => Shown(UserOf[c])')
      BY <2>1, <2>3, ObserversAssumption DEF StatusWrite, Shown, Inv, TypeOK
    <3> QED BY <2>2, <3>1, <3>3, <3>4 DEF OnlineFrom
  <2>4. CASE Arriving(p)
    <3>1. db \subseteq db' /\ (Shown(UserOf[c]) => Shown(UserOf[c])')
      BY <2>1, <2>4, ObserversAssumption DEF StatusWrite, Shown, Inv, TypeOK
    <3>2. CASE p # c
      BY <2>1, <2>2, <3>1, <3>2, Subjects DEF OnlineFrom
    <3>3. CASE p = c
      <4>1. UserOf[c] = Subject(p)
        BY <3>3, Subjects
      <4>2. pc[c] = "cache" => (UserOf[c] \in db => Shown(UserOf[c])')
        BY <2>1, <2>4, <3>3, <4>1, ObserversAssumption DEF StatusWrite, Shown, Inv, TypeOK, AfterStatus
      <4> QED BY <2>1, <2>2, <2>4, <3>1, <3>3, <4>1, <4>2 DEF StatusWrite, OnlineFrom, Arrived, AfterStatus
    <3> QED BY <3>2, <3>3
  <2> QED BY <2>3, <2>4
<1>5. ASSUME NEW u \in User, ExpireStatus(u)
      PROVE  /\ pc'[c] = "cache" => UserOf[c] \in db' \/ HasLeft(c)'
             /\ pc'[c] \in {"publish"} \union Arrived => Shown(UserOf[c])' \/ HasLeft(c)'
  <2>1. UNCHANGED <<pc, db, peer>> /\ cache' = [cache EXCEPT ![u] = "none"]
    BY <1>5 DEF ExpireStatus, sockets
  <2>2. Shown(UserOf[c]) => Shown(UserOf[c])'
    BY <2>1, ObserversAssumption DEF Shown, Inv, TypeOK
  <2>3. ~Gone(c) /\ (HasLeft(c) => HasLeft(c)')
    BY <2>1 DEF Gone, HasLeft, Siblings
  <2> QED BY <2>1, <2>2, <2>3 DEF OnlineFrom
<1> QED
  BY <1>1, <1>2, <1>3, <1>4, <1>5, StepIs

\* A user whose client is connected and listening is online in the database, and
\* the cache does not say otherwise, unless another connection of the same user
\* has left or a store fails.
THEOREM OnlineCorrect == Spec => []ConnectedIsOnline
<1>1. Init => \A c \in Conn : OnlineFrom(c)
  BY ConsumerAssumption DEF Init, OnlineFrom, Arrived, Proc
<1>2. Inv /\ (\A c \in Conn : OnlineFrom(c)) /\ [Next]_vars => (\A c \in Conn : OnlineFrom(c))'
  BY OnlineStep
<1>3. (\A c \in Conn : OnlineFrom(c)) => ConnectedIsOnline
  BY DEF OnlineFrom, ConnectedIsOnline, HasLeft, Arrived, Shown
<1> QED
  BY <1>1, <1>2, <1>3, InitInv, NextInv, PTL DEF Spec

(***************************************************************************)
(* The statuses agree                                                      *)
(***************************************************************************)

\* An event about u is its last word; one about somebody else changes nothing.
LEMMA LastWordAfter ==
    ASSUME log \in Seq(Event), NEW e \in Event, log' = Append(log, e), NEW u
    PROVE  LastWord(u)' <=> IF e.user = u THEN e.online ELSE LastWord(u)
<1> DEFINE Told(l) == {i \in DOMAIN l : l[i].user = u}
           Newest(l) == Told(l) # {} /\ \E i \in Told(l) : l[i].online /\ \A j \in Told(l) : j <= i
<1>1. /\ Len(log) \in Nat /\ DOMAIN log = 1..Len(log)
      /\ DOMAIN log' = 1..(Len(log) + 1)
      /\ \A i \in 1..Len(log) : log'[i] = log[i]
      /\ log'[Len(log) + 1] = e
  BY AppendProperties
<1>2. CASE e.user = u
  <2>1. Len(log) + 1 \in Told(log') /\ \A j \in Told(log') : j \in Nat /\ j <= Len(log) + 1
    BY <1>1, <1>2
  <2>2. ASSUME e.online PROVE Newest(log')
    BY <1>1, <2>1, <2>2
  <2>3. ASSUME Newest(log') PROVE e.online
    <3>1. PICK i \in Told(log') : log'[i].online /\ \A j \in Told(log') : j <= i
      BY <2>3
    <3>2. i = Len(log) + 1
      BY <1>1, <2>1, <3>1
    <3> QED BY <1>1, <3>1, <3>2
  <2>4. Newest(log') <=> e.online
    BY <2>2, <2>3
  <2> QED BY <1>2, <2>4 DEF LastWord
<1>3. CASE e.user # u
  <2>1. Told(log') = Told(log)
    BY <1>1, <1>3
  <2>2. \A i \in Told(log) : log'[i] = log[i]
    BY <1>1
  <2>3. Newest(log') <=> Newest(log)
    <3> HIDE DEF Told
    <3> QED BY <2>1, <2>2
  <2> QED BY <1>3, <2>3 DEF LastWord
<1> QED
  BY <1>2, <1>3

Off(u) == u \notin db /\ cache[u] # "true" /\ ~LastWord(u)
On(u) == u \in db /\ cache[u] # "false" /\ LastWord(u)
Quiet(u) == \A p \in Proc : ~Announcing(p, u)

\* How far the three have come along for a user with one connection: one after
\* the other on the way in; on the way out, where several may write at once, the
\* first write ends any doubt about the database, and the last announcer has
\* written all three.
InStep(c) ==
    LET u == UserOf[c] IN
    /\ ~Gone(c) =>
        /\ pc[c] \in {"none", "db"} => Off(u)
        /\ pc[c] = "cache" => u \in db /\ cache[u] # "true" /\ ~LastWord(u)
        /\ pc[c] = "publish" => u \in db /\ cache[u] # "false" /\ ~LastWord(u)
        /\ pc[c] \in Arrived \union {"closing", "done"} => On(u)
    /\ Gone(c) =>
        /\ \A p \in Proc : Announcing(p, u) => u \notin db /\ (pc[p] = "publish" => cache[u] # "true")
        /\ Quiet(u) => On(u) \/ Off(u)

\* The premises of StatusesAgree: no second connection, no failure, no crash.
Settled(c) == Lone(c) /\ Failing = {} /\ crashes = 0

LEMMA InStepElsewhere ==
    ASSUME Inv, NEW c \in Conn, Settled(c), InStep(c), NEW p \in Proc, Elsewhere(p)
    PROVE  InStep(c)'
<1> DEFINE u == UserOf[c]
<1>1. /\ db' = db /\ cache' = cache /\ (LastWord(u)' <=> LastWord(u))
  BY DEF Elsewhere, LastWord
<1>2. (On(u)' <=> On(u)) /\ (Off(u)' <=> Off(u))
  BY <1>1 DEF On, Off
<1>3. /\ \A q \in Proc : Announcing(q, u)' <=> Announcing(q, u)
      /\ \A q \in Proc : Announcing(q, u) => pc'[q] = pc[q]
  BY ElsewhereMeans DEF Announcing
<1>4. Quiet(u)' <=> Quiet(u)
  BY <1>3 DEF Quiet
<1>5. Goes(c) /\ Place(c) /\ c \in Proc
  BY ElsewhereMeans, Subjects DEF Inv
<1>6. CASE Gone(c)
  BY <1>1, <1>2, <1>3, <1>4, <1>5, <1>6 DEF InStep, Goes
<1>7. CASE ~Gone(c)
  <2>1. pc[c] \in {"cache", "publish"} => pc'[c] = pc[c]
    BY <1>5, ElsewhereMeans
  <2>2. pc[c] \in {"none", "db", "cache", "publish", "closing", "done"} \union Arrived
    BY <1>5, <1>7 DEF Place, Arrived
  <2>3. CASE ~Gone(c)'
    BY <1>1, <1>2, <1>5, <1>7, <2>1, <2>2, <2>3 DEF InStep, Goes, Arrived
  <2>4. CASE Gone(c)'
    <3>1. pc[c] \in Arrived \union {"closing", "done"}
      BY <1>5, <1>7, <2>2, <2>4 DEF Goes
    <3>2. On(u)
      BY <1>7, <3>1 DEF InStep
    <3>3. Quiet(u)
      <4> SUFFICES ASSUME NEW q \in Proc, pc[q] \in {"cache", "publish"}, Subject(q) = u PROVE FALSE
        BY DEF Quiet, Announcing
      <4>1. CASE Arriving(q)
        BY <3>1, <4>1, SubjectIs DEF Settled, Lone, Siblings, Arrived
      <4>2. CASE ~Arriving(q)
        BY <1>7, <4>2, SubjectIs DEF Settled, Lone, Siblings
      <4> QED BY <4>1, <4>2
    <3> QED BY <1>2, <1>3, <2>4, <3>2, <3>3 DEF InStep, Quiet
  <2> QED BY <2>3, <2>4
<1> QED
  BY <1>6, <1>7

LEMMA InStepStatus ==
    ASSUME Inv, NEW c \in Conn, Settled(c), InStep(c), NEW p \in Proc, SetOnlineStatus(p)
    PROVE  InStep(c)'
<1> DEFINE u == UserOf[c]
<1>1. /\ StatusWrite(p, Subject(p))
      /\ UNCHANGED <<hub, mu, peer, crashes, head, ri>>
      /\ \A q \in Proc \ {p} : pc'[q] = pc[q]
      /\ pc[p] \in {"db", "cache", "publish"}
  BY StatusWriteIs DEF Settled
<1>2. Gone(c)' <=> Gone(c)
  BY <1>1 DEF Gone
<1>3. /\ Subject(p) \in User /\ Arriving(p) \in BOOLEAN
      /\ [user |-> Subject(p), online |-> Arriving(p)] \in Event /\ log \in Seq(Event)
  BY <1>1, SubjectIs DEF Event, Inv, TypeOK
<1>4. \A q \in Proc : pc[q] \in {"db", "cache", "publish"} => Subject(q)' = Subject(q)
  <2> SUFFICES ASSUME NEW q \in Proc, pc[q] \in {"db", "cache", "publish"} PROVE Subject(q)' = Subject(q)
    OBVIOUS
  <2>1. CASE q \in Conn
    BY <2>1, Subjects DEF Subject
  <2>2. CASE q = Consumer
    <3>1. head + 1 \in 1..Len(log)
      BY <2>2 DEF Inv, TypeOK, Consuming
    <3>2. log'[head + 1] = log[head + 1]
      BY <1>1, <1>3, <3>1, AppendProperties DEF StatusWrite
    <3> QED BY <1>1, <2>2, <3>2 DEF Subject, Target, Current
  <2> QED BY <2>1, <2>2 DEF Proc
<1>5. \A q \in Proc \ {p} : Announcing(q, u)' <=> Announcing(q, u)
  BY <1>1, <1>4 DEF Announcing
<1>6. CASE Subject(p) # u
  <2>1. (u \in db' <=> u \in db) /\ cache'[u] = cache[u]
    BY <1>1, <1>6, ObserversAssumption DEF StatusWrite, Inv, TypeOK
  <2>2. LastWord(u)' <=> LastWord(u)
    <3>1. log' = log => (LastWord(u)' <=> LastWord(u))
      BY DEF LastWord
    <3> QED BY <1>1, <1>3, <1>6, <3>1, LastWordAfter DEF StatusWrite
  <2>3. (On(u)' <=> On(u)) /\ (Off(u)' <=> Off(u))
    BY <2>1, <2>2 DEF On, Off
  <2>4. p # c /\ c \in Proc /\ pc'[c] = pc[c]
    BY <1>1, <1>6, Subjects
  <2>5. ~Announcing(p, u) /\ ~Announcing(p, u)'
    BY <1>1, <1>4, <1>6 DEF Announcing
  <2>6. (Quiet(u)' <=> Quiet(u)) /\ \A q \in Proc : Announcing(q, u)' => Announcing(q, u) /\ pc'[q] = pc[q]
    BY <1>1, <1>5, <2>5 DEF Quiet
  <2> QED BY <1>2, <2>1, <2>2, <2>3, <2>4, <2>6 DEF InStep
<1>7. CASE Subject(p) = u /\ Arriving(p)
  <2>1. p = c /\ ~Gone(c)
    BY <1>1, <1>7, SubjectIs DEF Settled, Lone, Siblings
  <2>2. pc[c] = "publish" => LastWord(u)' /\ pc'[c] \in Arrived
    BY <1>1, <1>3, <1>7, <2>1, LastWordAfter DEF StatusWrite, AfterStatus, Arrived
  <2>3. log' = log => (LastWord(u)' <=> LastWord(u))
    BY DEF LastWord
  <2>4. (cache' = cache /\ pc[c] # "cache") \/ (pc[c] = "cache" /\ cache'[u] = "true")
    BY <1>1, <1>7, <2>1, ObserversAssumption DEF StatusWrite, Inv, TypeOK
  <2> QED BY <1>1, <1>2, <1>7, <2>1, <2>2, <2>3, <2>4 DEF InStep, StatusWrite, On, Off, Arrived
<1>8. CASE Subject(p) = u /\ ~Arriving(p)
  <2>1. Gone(c)
    BY <1>1, <1>8, SubjectIs DEF Settled, Lone, Siblings
  <2>2. u \notin db'
    BY <1>1, <1>8, <2>1 DEF StatusWrite, InStep, Announcing
  <2>3. cache'[u] = "true" => cache[u] = "true"
    BY <1>1, <1>8, ObserversAssumption DEF StatusWrite, Inv, TypeOK
  <2>4. pc'[p] = "publish" => cache'[u] # "true"
    BY <1>1, <1>8, ObserversAssumption DEF StatusWrite, AfterStatus, Inv, TypeOK
  <2>5. CASE pc[p] = "publish"
    <3>1. ~LastWord(u)' /\ cache'[u] # "true"
      BY <1>1, <1>3, <1>8, <2>1, <2>5, LastWordAfter DEF StatusWrite, InStep, Announcing
    <3> QED BY <1>1, <1>2, <1>5, <2>1, <2>2, <3>1 DEF InStep, Off
  <2>6. CASE pc[p] # "publish"
    <3>1. Announcing(p, u)'
      BY <1>1, <1>4, <1>8, <2>6 DEF StatusWrite, Announcing
    <3>2. ~Quiet(u)'
      BY <3>1 DEF Quiet
    <3> QED BY <1>1, <1>2, <1>5, <2>1, <2>2, <2>3, <2>4, <3>2 DEF InStep
  <2> QED BY <2>5, <2>6
<1> QED
  BY <1>6, <1>7, <1>8

\* What is no longer in the cache agrees with everything.
LEMMA InStepExpires ==
    ASSUME Inv, NEW c \in Conn, InStep(c), NEW v \in User, ExpireStatus(v)
    PROVE  InStep(c)'
<1> DEFINE u == UserOf[c]
<1>1. UNCHANGED <<pc, runs, hub, db, log, peer, head, ri>> /\ cache' = [cache EXCEPT ![v] = "none"]
  BY DEF ExpireStatus, sockets, cursor
<1>2. cache'[u] \in {"none", cache[u]}
  BY <1>1, ObserversAssumption DEF Inv, TypeOK
<1>3. (LastWord(u)' <=> LastWord(u)) /\ (Gone(c)' <=> Gone(c))
  BY <1>1 DEF LastWord, Gone
<1>4. \A p \in Proc : Announcing(p, u)' <=> Announcing(p, u)
  BY <1>1 DEF Announcing, Subject, Target, Current
<1>5. (On(u) => On(u)') /\ (Off(u) => Off(u)') /\ (Quiet(u)' <=> Quiet(u))
  BY <1>1, <1>2, <1>3, <1>4 DEF On, Off, Quiet
<1>6. pc' = pc /\ db' = db /\ (cache[u] # "true" => cache'[u] # "true")
      /\ (cache[u] # "false" => cache'[u] # "false")
  BY <1>1, <1>2
<1>7. CASE Gone(c)
  BY <1>3, <1>4, <1>5, <1>6, <1>7 DEF InStep
<1>8. CASE ~Gone(c)
  BY <1>3, <1>5, <1>6, <1>8 DEF InStep
<1> QED
  BY <1>7, <1>8

\* While nobody is in the middle of announcing a user with one connection, the
\* database and the last event published about it agree, and so does the cache
\* while it has the user's key.
THEOREM AgreeCorrect == Spec => []StatusesAgree
<1> DEFINE Steady == \A c \in Conn : Settled(c) => InStep(c)
<1>1. Init => Steady
  BY ConsumerAssumption, ObserversAssumption
     DEF Init, InStep, Off, On, Arrived, LastWord, Gone, Departures, Proc, Announcing
<1>2. Inv /\ Steady /\ [Next]_vars => Steady'
  <2> SUFFICES ASSUME Inv, Steady, [Next]_vars, NEW c \in Conn, Settled(c)' PROVE InStep(c)'
    OBVIOUS
  <2>1. CASE UNCHANGED vars
    BY <2>1 DEF Settled, InStep, Off, On, Quiet, Announcing, Subject, Target, Current, Gone, LastWord,
                vars
  <2>2. CASE Crash
    BY <2>2 DEF Crash, Settled, Inv, TypeOK
  <2>3. ASSUME NEW p \in Proc, SetOnlineStatus(p) \/ Elsewhere(p) PROVE InStep(c)'
    <3>1. Settled(c)
      BY <2>3 DEF Settled, Elsewhere, SetOnlineStatus, SetUserOnlineStatus,
                  UpdateUserOnlineStatusInCache, PublishStatus
    <3> QED BY <2>3, <3>1, InStepElsewhere, InStepStatus
  <2>4. ASSUME NEW u \in User, ExpireStatus(u) PROVE InStep(c)'
    <3>1. Settled(c)
      BY <2>4 DEF Settled, ExpireStatus
    <3> QED BY <2>4, <3>1, InStepExpires
  <2> QED BY <2>1, <2>2, <2>3, <2>4, StepIs
<1>3. Inv /\ Steady => StatusesAgree
  <2> SUFFICES ASSUME Inv, NEW c \in Conn, Settled(c), InStep(c), Quiet(UserOf[c])
               PROVE  On(UserOf[c]) \/ Off(UserOf[c])
    BY ObserversAssumption DEF StatusesAgree, Settled, Quiet, On, Off, Inv, TypeOK
  <2>1. c \in Proc /\ Place(c) /\ Subject(c) = UserOf[c]
    BY Subjects DEF Inv
  <2>2. pc[c] \notin {"cache", "publish"}
    BY <2>1 DEF Quiet, Announcing
  <2> QED BY <2>1, <2>2 DEF InStep, Place, Arrived
<1> QED
  BY <1>1, <1>2, <1>3, InitInv, NextInv, PTL DEF Spec

(***************************************************************************)
(* Who stands where in the hub                                             *)
(***************************************************************************)

Stands(h, k, c) == \E i \in DOMAIN h[k] : h[k][i] = c
Once(h, k, c) == \A i, j \in DOMAIN h[k] : h[k][i] = c /\ h[k][j] = c => i = j

LEMMA RegisterAdds ==
    ASSUME NEW h \in Hubs, NEW n \in User, NEW d \in Conn, NEW k \in User, NEW c \in Conn
    PROVE  /\ Stands(Register(h, n, d), k, c) => Stands(h, k, c) \/ (k = n /\ c = d)
           /\ Once(h, k, c) /\ (c # d \/ k # n \/ ~Stands(h, k, c)) => Once(Register(h, n, d), k, c)
<1>1. /\ h[n] \in Seq(Conn) /\ h[k] \in Seq(Conn)
      /\ Register(h, n, d)[k] = IF k = n THEN Append(h[n], d) ELSE h[k]
  BY DEF Register, Hubs
<1>2. /\ Len(h[n]) \in Nat /\ DOMAIN h[n] = 1..Len(h[n])
      /\ DOMAIN Append(h[n], d) = 1..(Len(h[n]) + 1)
      /\ \A i \in 1..Len(h[n]) : Append(h[n], d)[i] = h[n][i]
      /\ Append(h[n], d)[Len(h[n]) + 1] = d
  BY <1>1, AppendProperties
<1>3. CASE k = n
  <2>1. Register(h, n, d)[k] = Append(h[n], d)
    BY <1>1, <1>3
  <2>2. ASSUME NEW i \in DOMAIN Append(h[n], d)
        PROVE  (i \in DOMAIN h[n] /\ Append(h[n], d)[i] = h[n][i]) \/ i = Len(h[n]) + 1
    BY <1>2
  <2> QED BY <1>2, <1>3, <2>1, <2>2 DEF Stands, Once
<1>4. CASE k # n
  BY <1>1, <1>4 DEF Stands, Once
<1> QED
  BY <1>3, <1>4

LEMMA UnregisterRemoves ==
    ASSUME NEW h \in Hubs, NEW n \in User, NEW u, NEW k \in User, NEW c \in Conn
    PROVE  /\ Stands(Unregister(h, n, u), k, c) => Stands(h, k, c)
           /\ Once(h, k, c) => Once(Unregister(h, n, u), k, c)
<1>1. CASE EntriesOf(h[n], u) = {} \/ k # n
  <2>1. Unregister(h, n, u)[k] = h[k]
    BY <1>1 DEF Unregister, Hubs
  <2> QED BY <2>1 DEF Stands, Once
<1>2. CASE EntriesOf(h[n], u) # {} /\ k = n
  <2>1. PICK m \in DOMAIN h[n] : Unregister(h, n, u)[k] = RemoveAt(h[n], m)
    <3>1. h[n] \in Seq(Conn) /\ Min(EntriesOf(h[n], u)) = HubLemmas!Min(EntriesOf(h[n], u))
      BY DEF Hubs, Min, HubLemmas!Min
    <3>2. Min(EntriesOf(h[n], u)) \in DOMAIN h[n]
      BY <1>2, <3>1, HubLemmas!FirstEntry, ObserversAssumption DEF EntriesOf, HubLemmas!EntriesOf
    <3> QED BY <1>2, <3>2 DEF Unregister, Hubs
  <2>2. /\ m \in 1..Len(h[n]) /\ Len(h[n]) \in Nat /\ h[n] \in Seq(Conn) /\ m \in DOMAIN h[n]
        /\ RemoveAt(h[n], m) = HubLemmas!RemoveAt(h[n], m)
    BY DEF Hubs, RemoveAt, HubLemmas!RemoveAt
  <2>3. /\ RemoveAt(h[n], m) \in Seq(Conn) /\ Len(RemoveAt(h[n], m)) = Len(h[n]) - 1
        /\ \A j \in 1..(Len(h[n]) - 1) : RemoveAt(h[n], m)[j] = IF j < m THEN h[n][j] ELSE h[n][j + 1]
    <3> DEFINE cut == HubLemmas!RemoveAt(h[n], m)
    <3>1. h[n] \in Seq(Conn) /\ m \in DOMAIN h[n]
      BY <2>2
    <3>2. /\ cut \in Seq(Conn) /\ Len(cut) = Len(h[n]) - 1
          /\ \A j \in 1..(Len(h[n]) - 1) : cut[j] = IF j < m THEN h[n][j] ELSE h[n][j + 1]
      BY <3>1, HubLemmas!RemoveAtProperties, ObserversAssumption
    <3>3. RemoveAt(h[n], m) = cut
      BY <2>2
    <3> HIDE DEF cut
    <3> QED BY <3>2, <3>3
  <2>4. DOMAIN RemoveAt(h[n], m) = 1..(Len(h[n]) - 1) /\ DOMAIN h[n] = 1..Len(h[n])
    BY <2>2, <2>3 DEF Hubs
  <2> DEFINE r == RemoveAt(h[n], m)
             from(j) == IF j < m THEN j ELSE j + 1
  <2>5. \A j \in DOMAIN r : from(j) \in DOMAIN h[n] /\ r[j] = h[n][from(j)]
    <3>1. ASSUME NEW j \in DOMAIN r PROVE j \in 1..(Len(h[n]) - 1)
      BY <2>4
    <3>2. ASSUME NEW j \in 1..(Len(h[n]) - 1) PROVE from(j) \in 1..Len(h[n])
      BY <2>2
    <3>3. ASSUME NEW j \in 1..(Len(h[n]) - 1) PROVE r[j] = h[n][from(j)]
      BY <2>3
    <3> HIDE DEF r, from
    <3> QED BY <2>4, <3>1, <3>2, <3>3
  <2>6. \A i, j \in DOMAIN r : from(i) = from(j) => i = j
    BY <2>2, <2>4
  <2> HIDE DEF r, from
  <2>7. (\E j \in DOMAIN r : r[j] = c) => Stands(h, k, c)
    BY <1>2, <2>5 DEF Stands
  <2>8. Once(h, k, c) => \A i, j \in DOMAIN r : r[i] = c /\ r[j] = c => i = j
    BY <1>2, <2>5, <2>6 DEF Once
  <2>9. Unregister(h, n, u)[k] = r
    BY <2>1 DEF r
  <2> QED BY <2>7, <2>8, <2>9 DEF Stands, Once
<1> QED
  BY <1>1, <1>2

\* c has not come to subscribing yet, or not been upgraded.
Clean(c) ==
    pc[c] \in {"none", "subscribing"} \/ (~Gone(c) /\ pc[c] \in {"db", "cache", "publish"})

\* c stands under users it named, once if it named each once; what it has still
\* to enter is of that kind.
Wishes(c) ==
    /\ \A k \in User : Stands(hub, k, c) => k \in ToSet(Notifiers[c])
    /\ Clean(c) => \A k \in User : ~Stands(hub, k, c)
    /\ pc[c] = "saving" => ToSet(work[c]) \subseteq ToSet(Notifiers[c])
    /\ IsInjective(Notifiers[c]) =>
          /\ \A k \in User : Once(hub, k, c)
          /\ pc[c] = "saving" =>
                /\ \A a \in DOMAIN work[c] : ~Stands(hub, work[c][a], c)
                /\ \A a, b \in DOMAIN work[c] : work[c][a] = work[c][b] => a = b

\* A step that enters nobody and begins no subscription, as c sees it.
Tidy(c) ==
    /\ \A k \in User : /\ Stands(hub', k, c) => Stands(hub, k, c)
                       /\ Once(hub, k, c) => Once(hub', k, c)
    /\ pc'[c] = "saving" => pc[c] = "saving" /\ work'[c] = work[c]
    /\ Clean(c)' => Clean(c)

LEMMA WishesKept ==
    ASSUME Inv, NEW c \in Conn, Wishes(c), Tidy(c)
    PROVE  Wishes(c)'
<1>1. \A a \in DOMAIN work[c] : work[c][a] \in User
  BY Subjects DEF Inv, TypeOK
<1> QED
  BY <1>1 DEF Wishes, Tidy

\* Steps that leave the hub and what is to be entered alone.
LEMMA TidyMove ==
    ASSUME Inv, NEW p \in Proc, NEW from, NEW to, Goto(p, from, to), to # "saving", UNCHANGED hub,
           UNCHANGED peer, \A q \in Proc \ {p} : work'[q] = work[q],
           to \in {"none", "subscribing"} => from = "publish" /\ runs[p] = 0,
           to \in {"db", "cache", "publish"} =>
                (p \in Conn => Gone(p)) \/ from \in {"none", "db", "cache", "publish"}
    PROVE  \A c \in Conn : Tidy(c)
<1> TAKE c \in Conn
<1>1. c \in Proc /\ Place(c)
  BY Subjects DEF Inv
<1>2. pc[p] = from /\ pc'[p] = to /\ \A q \in Proc \ {p} : pc'[q] = pc[q]
  BY MovesIs
<1>3. CASE c # p
  BY <1>1, <1>2, <1>3 DEF Tidy, Clean, Gone
<1>4. CASE c = p
  BY <1>1, <1>2, <1>4 DEF Tidy, Clean, Gone, Place
<1> QED
  BY <1>3, <1>4

LEMMA StatusTidy == ASSUME Inv, NEW p \in Proc, SetOnlineStatus(p) PROVE \A c \in Conn : Tidy(c)
<1>1. UNCHANGED <<hub, work, sockets>> /\ pc[p] \in {"db", "cache", "publish"}
  BY DEF SetOnlineStatus, SetUserOnlineStatus, UpdateUserOnlineStatusInCache, PublishStatus, Goto
<1>2. \/ \E to \in {"cache", "publish"} : Goto(p, pc[p], to)
      \/ Goto(p, pc[p], AfterStatus(p))
  BY DEF SetOnlineStatus, SetUserOnlineStatus, UpdateUserOnlineStatusInCache, PublishStatus, Goto
<1>3. ASSUME NEW to \in {"cache", "publish"}, Goto(p, pc[p], to) PROVE \A c \in Conn : Tidy(c)
  BY <1>1, <1>3, TidyMove DEF sockets
<1>4. CASE Goto(p, pc[p], AfterStatus(p))
  <2>1. /\ AfterStatus(p) \in {"fetch", "subscribing", "reading"}
        /\ p = Consumer \/ (p \in Conn /\ runs[p] # 0) => AfterStatus(p) = "fetch"
        /\ p \in Conn \/ p = Consumer
    BY <1>1, AfterStatusIs
  <2>2. \A q \in Proc \ {p} : pc'[q] = pc[q]
    BY <1>4, MovesIs
  <2>3. pc'[p] = AfterStatus(p)
    BY <1>4, MovesIs
  <2> SUFFICES ASSUME NEW c \in Conn PROVE Tidy(c)
    OBVIOUS
  <2>4. c \in Proc /\ c # Consumer /\ Place(c)
    BY Subjects DEF Inv
  <2>5. CASE c # p
    BY <1>1, <2>2, <2>4, <2>5 DEF Tidy, Clean, Gone, sockets
  <2>6. CASE c = p
    BY <1>1, <2>1, <2>3, <2>4, <2>6 DEF Tidy, Clean, Gone, Place, sockets
  <2> QED BY <2>5, <2>6
<1> QED
  BY <1>2, <1>3, <1>4

LEMMA UnsubscribeTidy == ASSUME Inv, NEW p \in Proc, Unsubscribe(p) PROVE \A c \in Conn : Tidy(c)
<1>1. /\ UNCHANGED peer /\ pc[p] \in {"fetch", "delete", "remove", "removing"}
      /\ \A q \in Proc \ {p} : work'[q] = work[q]
  BY DEF Unsubscribe, FetchNotifiers, FetchNoNotifiers, DeleteNotifiers, DeleteNotifiersFails,
         LockToRemove, RemoveObserver, FinishRemoving, Goto, sockets, Inv, TypeOK
<1>2. (p \in Conn => Gone(p)) /\ (p \in Conn \/ p = Consumer)
  BY <1>1 DEF Inv, Place, Proc
<1>3. CASE FetchNotifiers(p) \/ DeleteNotifiers(p) \/ LockToRemove(p)
  <2>1. UNCHANGED hub /\ \E to \in {"delete", "remove", "removing"} : Goto(p, pc[p], to)
    BY <1>3 DEF FetchNotifiers, DeleteNotifiers, LockToRemove, Goto
  <2> QED BY <1>1, <2>1, TidyMove
<1>4. CASE FetchNoNotifiers(p) \/ DeleteNotifiersFails(p) \/ FinishRemoving(p)
  <2>1. /\ UNCHANGED hub /\ \A q \in Proc \ {p} : pc'[q] = pc[q]
        /\ p \in Conn => pc'[p] \in {"closing", "db"}
    BY <1>4, EndUnsubscribeIs, ConsumerAssumption DEF FetchNoNotifiers, DeleteNotifiersFails, FinishRemoving
  <2> SUFFICES ASSUME NEW c \in Conn PROVE Tidy(c)
    OBVIOUS
  <2>2. c \in Proc
    BY Subjects
  <2>3. CASE c # p
    BY <1>1, <2>1, <2>2, <2>3 DEF Tidy, Clean, Gone
  <2>4. CASE c = p
    BY <1>1, <1>2, <2>1, <2>4 DEF Tidy, Clean, Gone
  <2> QED BY <2>3, <2>4
<1>5. CASE RemoveObserver(p)
  <2> SUFFICES ASSUME NEW c \in Conn PROVE Tidy(c)
    OBVIOUS
  <2>1. /\ hub' = Unregister(hub, Head(work[p]), Subject(p)) /\ Head(work[p]) \in User /\ hub \in Hubs
        /\ pc' = pc
    BY <1>5, HeadTailProperties DEF RemoveObserver, Inv, TypeOK
  <2>2. \A k \in User : /\ Stands(hub', k, c) => Stands(hub, k, c)
                        /\ Once(hub, k, c) => Once(hub', k, c)
    BY <2>1, UnregisterRemoves
  <2>3. c \in Proc /\ (c = p => pc[c] # "saving")
    BY <1>1, Subjects
  <2> QED BY <1>1, <2>1, <2>2, <2>3 DEF Tidy, Clean, Gone
<1> QED
  BY <1>3, <1>4, <1>5 DEF Unsubscribe

LEMMA ConnTidy ==
    ASSUME Inv, NEW p \in Conn,
           \/ HandleSocketUserObservingRoute(p)
           \/ FinishSubscribing(p)
           \/ CloseSocket(p)
           \/ ReadFails(p)
           \/ Leave(p)
           \/ StopOrResume(p)
    PROVE  \A c \in Conn : Tidy(c)
<1>1. p \in Proc /\ p # Consumer
  BY Subjects
<1>2. CASE \/ HandleSocketUserObservingRoute(p)
           \/ FinishSubscribing(p)
           \/ CloseSocket(p)
           \/ ReadFails(p)
  <2>1. /\ UNCHANGED <<hub, peer, work>>
        /\ \/ Goto(p, "none", "db")
           \/ Goto(p, "saving", "reading")
           \/ \E from : Goto(p, from, "closing")
           \/ Goto(p, "closing", "done")
           \/ Goto(p, "reading", "db") /\ Gone(p)
    BY <1>2 DEF HandleSocketUserObservingRoute, FinishSubscribing, CloseSocket, ReadFails, ReadClose,
                ReadClosedSocket, sockets
  <2> QED BY <1>1, <2>1, TidyMove
<1>3. CASE Leave(p) \/ StopOrResume(p)
  <2>1. UNCHANGED <<hub, pc, work>> /\ pc[p] = "reading" /\ \A d \in Conn \ {p} : peer'[d] = peer[d]
    BY <1>3 DEF Leave, StopOrResume, Inv, TypeOK
  <2> QED BY <2>1 DEF Tidy, Clean, Gone
<1> QED
  BY <1>2, <1>3

LEMMA ConsumerTidy ==
    ASSUME Inv,
           \/ SubscribeToChannel
           \/ Send
           \/ LoseEvent
           \/ EndSend
           \/ \E o \in Conn : WriteToGoneClient(o) \/ WriteJSON(o)
    PROVE  \A c \in Conn : Tidy(c)
<1>1. Consumer \in Proc /\ Consumer \notin Conn /\ UNCHANGED <<hub, peer, work>>
  BY ConsumerAssumption DEF Proc, SubscribeToChannel, Send, LoseEvent, EndSend, WriteToGoneClient,
        WriteJSON, sockets
<1>2. CASE LoseEvent \/ \E o \in Conn : WriteJSON(o)
  BY <1>1, <1>2 DEF LoseEvent, WriteJSON, Tidy, Clean, Gone
<1>3. CASE SubscribeToChannel \/ Send \/ EndSend \/ \E o \in Conn : WriteToGoneClient(o)
  <2>1. \E from, to : to \in {"idle", "sending", "db"} /\ Goto(Consumer, from, to)
    BY <1>3 DEF SubscribeToChannel, Send, EndSend, WriteToGoneClient
  <2> QED BY <1>1, <2>1, TidyMove
<1> QED
  BY <1>2, <1>3

LEMMA EnterWishes ==
    ASSUME Inv, NEW p \in Conn, LockToSubscribe(p) \/ SaveObserverNotifier(p),
           NEW c \in Conn, Wishes(c)
    PROVE  Wishes(c)'
<1>1. p \in Proc /\ c \in Proc /\ c # Consumer /\ Notifiers[c] \in Seq(User)
  BY Subjects, ObserversAssumption
<1>2. CASE LockToSubscribe(p)
  <2>1. /\ pc[p] = "subscribing" /\ pc'[p] = "saving" /\ \A q \in Proc \ {p} : pc'[q] = pc[q]
        /\ UNCHANGED <<hub, peer>>
        /\ work' = [work EXCEPT ![p] = Notifiers[p]]
    BY <1>1, <1>2, MovesIs DEF LockToSubscribe, sockets
  <2>2. CASE c # p
    <3>1. work'[c] = work[c] /\ pc'[c] = pc[c]
      BY <1>1, <2>1, <2>2 DEF Inv, TypeOK
    <3>2. Tidy(c)
      BY <2>1, <3>1 DEF Tidy, Clean, Gone
    <3> QED BY <3>2, WishesKept
  <2>3. CASE c = p
    <3>1. work'[c] = Notifiers[c] /\ pc'[c] = "saving" /\ hub' = hub
      BY <1>1, <2>1, <2>3 DEF Inv, TypeOK
    <3>2. \A k \in User : ~Stands(hub, k, c)
      BY <2>1, <2>3 DEF Wishes, Clean
    <3>3. ~Clean(c)'
      BY <3>1 DEF Clean
    <3>4. ASSUME IsInjective(Notifiers[c])
          PROVE  \A a, b \in DOMAIN Notifiers[c] : Notifiers[c][a] = Notifiers[c][b] => a = b
      BY <3>4 DEF IsInjective
    <3>5. \A a \in DOMAIN Notifiers[c] : Notifiers[c][a] \in User
      BY <1>1
    <3> QED BY <3>1, <3>2, <3>3, <3>4, <3>5 DEF Wishes, Once, Stands
  <2> QED BY <2>2, <2>3
<1>3. CASE SaveObserverNotifier(p)
  <2> DEFINE n == Head(work[p])
  <2>1. /\ pc' = pc /\ peer' = peer /\ pc[p] = "saving"
        /\ work[p] \in Seq(User) /\ work[p] # << >> /\ hub \in Hubs
        /\ hub' = Register(hub, n, p)
        /\ work' = [work EXCEPT ![p] = Tail(work[p])]
    BY <1>1, <1>3 DEF SaveObserverNotifier, Inv, TypeOK, sockets
  <2>2. /\ n \in User /\ 1 \in DOMAIN work[p] /\ work[p][1] = n
        /\ n \in ToSet(work[p])
        /\ Tail(work[p]) \in Seq(User)
        /\ \A a \in DOMAIN Tail(work[p]) : a + 1 \in DOMAIN work[p] /\ a + 1 # 1
                                           /\ Tail(work[p])[a] = work[p][a + 1] /\ a \in Nat
    BY <2>1, HeadTailProperties DEF ToSet
  <2>3. /\ \A k \in User : Stands(hub', k, c) => Stands(hub, k, c) \/ (k = n /\ c = p)
        /\ \A k \in User : Once(hub, k, c) /\ (c # p \/ k # n \/ ~Stands(hub, k, c)) => Once(hub', k, c)
    BY <2>1, <2>2, RegisterAdds
  <2>4. CASE c # p
    <3>1. work'[c] = work[c]
      BY <1>1, <2>1, <2>4 DEF Inv, TypeOK
    <3>2. Tidy(c)
      BY <2>1, <2>3, <2>4, <3>1 DEF Tidy, Clean, Gone
    <3> QED BY <3>2, WishesKept
  <2>5. CASE c = p
    <3>1. work'[c] = Tail(work[c])
      BY <1>1, <2>1, <2>5 DEF Inv, TypeOK
    <3>2. ~Clean(c)' /\ pc'[c] = "saving"
      BY <2>1, <2>5 DEF Clean
    <3>3. n \in ToSet(Notifiers[c]) /\ ToSet(work'[c]) \subseteq ToSet(Notifiers[c])
      <4>1. ToSet(work[c]) \subseteq ToSet(Notifiers[c])
        BY <2>1, <2>5 DEF Wishes
      <4>2. ASSUME NEW a \in DOMAIN work'[c] PROVE work'[c][a] \in ToSet(work[c])
        <5>1. a + 1 \in DOMAIN work[c] /\ work'[c][a] = work[c][a + 1]
          BY <2>2, <2>5, <3>1
        <5> QED BY <5>1 DEF ToSet
      <4>3. ToSet(work'[c]) \subseteq ToSet(work[c])
        BY <4>2 DEF ToSet
      <4> QED BY <2>2, <2>5, <4>1, <4>3
    <3>4. \A k \in User : Stands(hub', k, c) => k \in ToSet(Notifiers[c])
      BY <2>3, <3>3 DEF Wishes
    <3>5. ASSUME IsInjective(Notifiers[c])
          PROVE  /\ \A k \in User : Once(hub', k, c)
                 /\ \A a \in DOMAIN work'[c] : ~Stands(hub', work'[c][a], c)
                 /\ \A a, b \in DOMAIN work'[c] : work'[c][a] = work'[c][b] => a = b
      <4>1. /\ \A k \in User : Once(hub, k, c)
            /\ \A a \in DOMAIN work[c] : ~Stands(hub, work[c][a], c)
            /\ \A a, b \in DOMAIN work[c] : work[c][a] = work[c][b] => a = b
        BY <2>1, <2>5, <3>5 DEF Wishes
      <4>2. ~Stands(hub, n, c)
        BY <2>2, <2>5, <4>1
      <4>3. \A a \in DOMAIN work'[c] : work'[c][a] \in User /\ work'[c][a] # n /\ ~Stands(hub, work'[c][a], c)
        <5> TAKE a \in DOMAIN work'[c]
        <5>1. /\ a + 1 \in DOMAIN work[c] /\ a + 1 # 1 /\ 1 \in DOMAIN work[c]
              /\ work'[c][a] = work[c][a + 1] /\ work[c][1] = n /\ work[c] \in Seq(User)
          BY <2>1, <2>2, <2>5, <3>1
        <5>2. work[c][a + 1] \in User
          BY <5>1
        <5>3. work[c][a + 1] # work[c][1]
          BY <4>1, <5>1
        <5>4. ~Stands(hub, work[c][a + 1], c)
          BY <4>1, <5>1
        <5> HIDE DEF n
        <5> QED BY <5>1, <5>2, <5>3, <5>4
      <4>4. \A a, b \in DOMAIN work'[c] : work'[c][a] = work'[c][b] => a = b
        BY <2>1, <2>2, <2>5, <3>1, <4>1
      <4> QED BY <2>3, <4>1, <4>2, <4>3, <4>4
    <3> QED BY <3>2, <3>3, <3>4, <3>5 DEF Wishes
  <2> QED BY <2>4, <2>5
<1> QED
  BY <1>2, <1>3

LEMMA WishesStep ==
    ASSUME Inv, NEW c \in Conn, Wishes(c), [Next]_vars
    PROVE  Wishes(c)'
<1>1. Consumer \in Proc /\ \A d \in Conn : d \in Proc
  BY DEF Proc
<1>2. ASSUME NEW d \in Conn, ConnStep(d) PROVE Wishes(c)'
  BY <1>1, <1>2, WishesKept, EnterWishes, StatusTidy, UnsubscribeTidy, ConnTidy DEF ConnStep
<1>3. ASSUME ConsumerStep \/ LoseEvent PROVE Wishes(c)'
  BY <1>1, <1>3, WishesKept, StatusTidy, UnsubscribeTidy, ConsumerTidy
     DEF ConsumerStep, WriteToClosedSocket, FinishSend
<1>4. CASE Crash
  <2>1. \A k \in User : hub'[k] = << >>
    BY <1>4 DEF Crash, EmptyHub
  <2>2. pc'[c] \in {"none", "done"}
    BY <1>4, Subjects DEF Crash
  <2>3. \A k \in User : ~Stands(hub', k, c) /\ Once(hub', k, c)
    BY <2>1 DEF Stands, Once
  <2> QED BY <2>2, <2>3 DEF Wishes
<1>5. CASE UNCHANGED vars
  <2>1. Tidy(c)
    BY <1>5 DEF Tidy, Clean, Gone, vars
  <2> QED BY <2>1, WishesKept
<1>6. ASSUME NEW u \in User, ExpireStatus(u) PROVE Wishes(c)'
  <2>1. Tidy(c)
    BY <1>6 DEF ExpireStatus, sockets, Tidy, Clean, Gone
  <2> QED BY <2>1, WishesKept
<1> QED
  BY <1>1, <1>2, <1>3, <1>4, <1>5, <1>6, WishesKept, ConnTidy DEF Next

(***************************************************************************)
(* Observers are told in order                                             *)
(***************************************************************************)

\* What c was written lies before the consumer's position, or at it, and then c
\* does not come again in this event if it named each user once.
NotAgain(c, n) ==
    pc[Consumer] # "starting" =>
        \/ n <= head
        \/ /\ n = head + 1 /\ pc[Consumer] # "idle"
           /\ IsInjective(Notifiers[c]) => \A j \in DOMAIN Target : j >= ri => Target[j] # c

Told(c) ==
    \A i, j \in DOMAIN sent[c] :
        /\ sent[c][i] \in DOMAIN log
        /\ log[sent[c][i]].user \in ToSet(Notifiers[c])
        /\ i < j => sent[c][i] <= sent[c][j]
        /\ i < j /\ IsInjective(Notifiers[c]) => sent[c][i] < sent[c][j]
        /\ NotAgain(c, sent[c][i])

\* A step that writes nothing to c, by what it does to the consumer's position.
Position ==
    \/ pc'[Consumer] = "starting"
    \/ pc[Consumer] = "starting" /\ head' = Len(log')
    \/ pc[Consumer] = "idle" /\ head' >= head
    \/ pc[Consumer] # "starting" /\ head' = head + 1
    \/ /\ pc[Consumer] \notin {"starting", "idle"} /\ pc'[Consumer] # "idle"
       /\ head' = head /\ ri' >= ri /\ Target' = Target

LEMMA ToldKept ==
    ASSUME Inv, Inv', NEW c \in Conn, Told(c), sent'[c] = sent[c], Onwards, Position
    PROVE  Told(c)'
<1>1. /\ Len(log) \in Nat /\ DOMAIN log = 1..Len(log) /\ head \in Nat /\ head' \in Nat
      /\ Len(log') \in Nat /\ DOMAIN log' = 1..Len(log')
      /\ sent[c] \in Seq(Nat) /\ ri \in Nat /\ ri' \in Nat
  BY DEF Inv, TypeOK
<1>2. Len(log') >= Len(log) /\ \A n \in DOMAIN log : log'[n] = log[n]
  <2>1. log \in Seq(Event)
    BY DEF Inv, TypeOK
  <2>2. CASE log' = log
    BY <1>1, <2>2
  <2>3. ASSUME NEW e \in Event, log' = Append(log, e)
        PROVE  Len(log') >= Len(log) /\ \A n \in DOMAIN log : log'[n] = log[n]
    BY <1>1, <2>1, <2>3, AppendProperties
  <2> QED BY <2>2, <2>3 DEF Onwards
<1>3. ASSUME NEW i \in DOMAIN sent[c] PROVE NotAgain(c, sent[c][i])'
  <2> DEFINE n == sent[c][i]
  <2>1. n \in DOMAIN log /\ NotAgain(c, n) /\ n \in Nat
    BY <1>1 DEF Told
  <2>2. sent'[c][i] = n
    OBVIOUS
  <2>3. CASE pc'[Consumer] = "starting"
    BY <2>3 DEF NotAgain
  <2>4. CASE \/ pc[Consumer] = "starting" /\ head' = Len(log')
             \/ pc[Consumer] = "idle" /\ head' >= head
             \/ pc[Consumer] # "starting" /\ head' = head + 1
    <3>1. n <= head'
      BY <1>1, <1>2, <2>1, <2>4 DEF NotAgain
    <3> QED BY <2>2, <3>1 DEF NotAgain
  <2>5. CASE /\ pc[Consumer] \notin {"starting", "idle"} /\ pc'[Consumer] # "idle"
             /\ head' = head /\ ri' >= ri /\ Target' = Target
    <3>1. \A j \in DOMAIN Target : j \in Int
      BY <2>5, SendingIs
    <3> QED BY <1>1, <2>1, <2>2, <2>5, <3>1 DEF NotAgain
  <2> QED BY <2>3, <2>4, <2>5 DEF Position
<1> QED
  BY <1>1, <1>2, <1>3 DEF Told

\* Connections leave the consumer's position alone.
LEMMA ConnPosition ==
    ASSUME Inv, UNCHANGED <<head, ri>>, pc'[Consumer] = pc[Consumer], Onwards,
           mu = Consumer => hub' = hub
    PROVE  Position
<1>1. CASE pc[Consumer] \in {"starting", "idle"}
  BY <1>1 DEF Position, Inv, TypeOK
<1>2. CASE pc[Consumer] \notin {"starting", "idle"}
  <2>1. /\ head \in Nat /\ head + 1 \in 1..Len(log) /\ hub' = hub /\ log \in Seq(Event) /\ ri \in Nat
    BY <1>2 DEF Inv, TypeOK, Consuming
  <2>2. log'[head + 1] = log[head + 1]
    BY <2>1, AppendProperties DEF Onwards
  <2>3. Target' = Target
    BY <2>1, <2>2 DEF Target, Current
  <2> QED BY <1>2, <2>1, <2>3 DEF Position
<1> QED
  BY <1>1, <1>2

LEMMA StatusAside ==
    ASSUME Inv, NEW p \in Proc, SetOnlineStatus(p)
    PROVE  /\ UNCHANGED <<sent, head, ri, hub>> /\ Onwards
           /\ pc[p] \in {"db", "cache", "publish"}
           /\ pc'[p] \in {"cache", "publish", AfterStatus(p)}
           /\ \A q \in Proc \ {p} : pc'[q] = pc[q]
<1>1. /\ UNCHANGED <<hub, peer, sent, head, ri>>
      /\ pc[p] \in {"db", "cache", "publish"}
      /\ \E to \in {"cache", "publish", AfterStatus(p)} : Goto(p, pc[p], to)
  BY DEF SetOnlineStatus, SetUserOnlineStatus, UpdateUserOnlineStatusInCache, PublishStatus, Goto,
         sockets, cursor
<1>2. [user |-> Subject(p), online |-> Arriving(p)] \in Event
  BY <1>1, SubjectIs DEF Event
<1>3. log' = log \/ \E e \in Event : log' = Append(log, e)
  BY <1>2 DEF SetOnlineStatus, SetUserOnlineStatus, UpdateUserOnlineStatusInCache, PublishStatus
<1> QED
  BY <1>1, <1>3, MovesIs DEF Onwards, Gone

LEMMA WriteTold ==
    ASSUME Inv, NEW o \in Conn, WriteJSON(o), NEW c \in Conn, Wishes(c), Told(c)
    PROVE  Told(c)'
<1>1. /\ pc[Consumer] = "sending" /\ ri <= Len(Target) /\ o = Target[ri] /\ ri \in Nat \ {0}
      /\ ri' = ri + 1 /\ UNCHANGED <<hub, pc, log, head>>
      /\ sent' = [sent EXCEPT ![o] = Append(@, head + 1)]
  BY DEF WriteJSON, Writing, stores, lists, Inv, TypeOK
<1>2. /\ head \in Nat /\ head + 1 \in DOMAIN log /\ Current \in Event /\ Target \in Seq(Conn)
      /\ Target' = Target /\ Target = hub[Current.user] /\ Current.user \in User
  BY <1>1, SendingIs DEF Target, Current, Event
<1>3. ri \in DOMAIN Target /\ \A j \in DOMAIN Target : j \in Nat
  BY <1>1, <1>2
<1>4. CASE c # o
  <2>1. sent'[c] = sent[c]
    BY <1>1, <1>4 DEF Inv, TypeOK
  <2>2. \A n : NotAgain(c, n) => NotAgain(c, n)'
    BY <1>1, <1>2, <1>3 DEF NotAgain
  <2> QED BY <1>1, <2>1, <2>2 DEF Told
<1>5. CASE c = o
  <2> DEFINE s == sent[c]
  <2>1. /\ s \in Seq(Nat) /\ sent'[c] = Append(s, head + 1)
    BY <1>1, <1>5 DEF Inv, TypeOK
  <2>2. /\ Len(s) \in Nat /\ DOMAIN s = 1..Len(s) /\ DOMAIN sent'[c] = 1..(Len(s) + 1)
        /\ \A i \in 1..Len(s) : sent'[c][i] = s[i]
        /\ sent'[c][Len(s) + 1] = head + 1
    BY <1>2, <2>1, AppendProperties
  <2>3. log[head + 1].user \in ToSet(Notifiers[c])
    <3>1. Stands(hub, Current.user, c)
      BY <1>1, <1>2, <1>3, <1>5 DEF Stands
    <3> QED BY <1>2, <3>1 DEF Wishes, Current
  <2>4. \A i \in DOMAIN s : s[i] \in Nat /\ s[i] <= head + 1
    <3>1. ASSUME NEW i \in DOMAIN s PROVE s[i] \in Nat /\ NotAgain(c, s[i])
      BY <2>1 DEF Told
    <3>2. pc[Consumer] = "sending"
      BY <1>1
    <3> QED BY <1>2, <3>1, <3>2 DEF NotAgain
  <2>5. ASSUME IsInjective(Notifiers[c]) PROVE \A i \in DOMAIN s : s[i] <= head
    <3>1. ASSUME NEW i \in DOMAIN s PROVE s[i] \in Nat /\ NotAgain(c, s[i])
      BY <2>1 DEF Told
    <3>2. pc[Consumer] = "sending" /\ Target[ri] = c /\ ri \in Nat
      BY <1>1, <1>3, <1>5
    <3> QED BY <1>2, <1>3, <2>5, <3>1, <3>2 DEF NotAgain
  <2>6. ASSUME IsInjective(Notifiers[c]) PROVE \A j \in DOMAIN Target : j >= ri + 1 => Target[j] # c
    <3>1. Once(hub, Current.user, c)
      BY <1>2, <2>6 DEF Wishes
    <3>2. \A j \in DOMAIN Target : Target[j] = c => j = ri
      BY <1>1, <1>2, <1>3, <1>5, <3>1 DEF Once
    <3> QED BY <1>1, <3>2
  <2>7. \A n \in Nat : n <= head + 1 => NotAgain(c, n)'
    BY <1>1, <1>2, <2>6 DEF NotAgain
  <2>8. ASSUME NEW i \in DOMAIN sent'[c]
        PROVE  /\ sent'[c][i] \in DOMAIN log /\ log[sent'[c][i]].user \in ToSet(Notifiers[c])
               /\ sent'[c][i] \in Nat /\ sent'[c][i] <= head + 1
    BY <1>2, <2>2, <2>3, <2>4 DEF Told
  <2>9. ASSUME NEW i \in DOMAIN sent'[c], NEW j \in DOMAIN sent'[c], i < j
        PROVE  /\ sent'[c][i] <= sent'[c][j]
               /\ IsInjective(Notifiers[c]) => sent'[c][i] < sent'[c][j]
    <3>1. CASE j \in DOMAIN s
      BY <2>2, <2>9, <3>1 DEF Told
    <3>2. CASE j = Len(s) + 1
      BY <1>2, <2>2, <2>4, <2>5, <2>9, <3>2
    <3> QED BY <2>2, <3>1, <3>2
  <2> QED BY <1>1, <2>7, <2>8, <2>9 DEF Told
<1> QED
  BY <1>4, <1>5

LEMMA ConsumerTold ==
    ASSUME Inv, Inv',
           \/ ConsumerStep
           \/ LoseEvent,
           NEW c \in Conn, Wishes(c), Told(c)
    PROVE  Told(c)'
<1>1. Consumer \in Proc /\ Consumer \notin Conn /\ head \in Nat /\ ri \in Nat
  BY ConsumerAssumption DEF Proc, Inv, TypeOK
<1>2. CASE SubscribeToChannel \/ Send \/ LoseEvent \/ EndSend
  <2>1. UNCHANGED <<sent, log, peer>> /\ Onwards
    BY <1>2 DEF SubscribeToChannel, Send, LoseEvent, EndSend, stores, lists, sockets, Onwards, Gone
  <2>2. Position
    BY <1>1, <1>2 DEF SubscribeToChannel, Send, LoseEvent, EndSend, stores, lists, Goto, Position, Inv, TypeOK
  <2> QED BY <2>1, <2>2, ToldKept
<1>3. CASE SetOnlineStatus(Consumer)
  <2>1. /\ UNCHANGED <<sent, head, ri, hub>> /\ Onwards
        /\ pc[Consumer] \in {"db", "cache", "publish"} /\ pc'[Consumer] \in {"cache", "publish", "fetch"}
    BY <1>1, <1>3, StatusAside, AfterStatusIs
  <2>2. head + 1 \in 1..Len(log) /\ log \in Seq(Event)
    BY <2>1 DEF Inv, TypeOK, Consuming
  <2>3. log'[head + 1] = log[head + 1]
    BY <2>1, <2>2, AppendProperties DEF Onwards
  <2>4. Target' = Target
    BY <2>1, <2>3 DEF Target, Current
  <2>5. Position
    BY <1>1, <2>1, <2>4 DEF Position
  <2> QED BY <2>1, <2>5, ToldKept
<1>4. CASE Unsubscribe(Consumer) \/ \E o \in Conn : WriteToGoneClient(o)
  <2>1. /\ UNCHANGED <<sent, log, peer, head>> /\ Onwards
        /\ pc[Consumer] \in {"sending", "fetch", "delete", "remove"}
        /\ pc[Consumer] # "remove" => hub' = hub
    <3>1. pc[Consumer] # "removing"
      BY DEF Inv, Consuming
    <3>2. CASE Unsubscribe(Consumer)
      BY <3>1, <3>2 DEF Unsubscribe, FetchNotifiers, FetchNoNotifiers, DeleteNotifiers, DeleteNotifiersFails,
             LockToRemove, RemoveObserver, FinishRemoving, Goto, stores, lists, sockets, cursor, Onwards, Gone
    <3>3. CASE \E o \in Conn : WriteToGoneClient(o)
      BY <3>3 DEF WriteToGoneClient, Goto, stores, lists, cursor, Onwards, Gone
    <3> QED BY <1>4, <3>2, <3>3
  <2>2. pc[Consumer] # "remove"
    <3> SUFFICES ASSUME pc[Consumer] = "remove" PROVE FALSE
      OBVIOUS
    <3>1. LockToRemove(Consumer)
      BY <1>4 DEF Unsubscribe, FetchNotifiers, FetchNoNotifiers, DeleteNotifiers, DeleteNotifiersFails,
         RemoveObserver, FinishRemoving, Goto, WriteToGoneClient
    <3>2. mu = "free" /\ mu = Consumer
      BY <3>1 DEF LockToRemove, Inv, Consuming
    <3> QED BY <3>2, ConsumerAssumption
  <2>3. pc'[Consumer] # "idle" /\ ri' >= ri
    <3>1. CASE FetchNotifiers(Consumer) \/ DeleteNotifiers(Consumer) \/ \E o \in Conn : WriteToGoneClient(o)
      BY <1>1, <3>1, MovesIs DEF FetchNotifiers, DeleteNotifiers, WriteToGoneClient, cursor
    <3>2. CASE EndUnsubscribe(Consumer)
      BY <1>1, <3>2, EndUnsubscribeIs DEF EndUnsubscribe
    <3> QED BY <1>4, <2>1, <2>2, <3>1, <3>2
            DEF Unsubscribe, FetchNoNotifiers, DeleteNotifiersFails, LockToRemove, RemoveObserver,
                FinishRemoving, Goto
  <2>4. Target' = Target
    BY <2>1, <2>2 DEF Target, Current
  <2>5. Position
    BY <2>1, <2>3, <2>4 DEF Position
  <2> QED BY <2>1, <2>5, ToldKept
<1> QED
  BY <1>2, <1>3, <1>4, WriteTold DEF ConsumerStep, WriteToClosedSocket, FinishSend

\* Events reach a socket in the order of publication, and only about users it
\* asked to observe; none twice, if it asked for no user twice.
THEOREM NotifiedCorrect == Spec => []NotifiedInOrder
<1> DEFINE Telling == \A c \in Conn : Wishes(c) /\ Told(c)
<1>1. Init => Telling
  BY ConsumerAssumption DEF Init, Wishes, Told, Stands, Once, EmptyHub, Proc
<1>2. Inv /\ Inv' /\ Telling /\ [Next]_vars => Telling'
  <2> SUFFICES ASSUME Inv, Inv', Telling, [Next]_vars, NEW c \in Conn PROVE Told(c)'
    BY WishesStep
  <2>1. ASSUME NEW p \in Conn,
               \/ Elsewhere(p)
               \/ SetOnlineStatus(p)
        PROVE  Told(c)'
    <3>1. p \in Proc /\ p # Consumer /\ Consumer \in Proc
      BY Subjects DEF Proc
    <3>2. /\ UNCHANGED <<sent, head, ri>> /\ pc'[Consumer] = pc[Consumer] /\ Onwards
          /\ mu = Consumer => hub' = hub
      <4>1. CASE Elsewhere(p)
        BY <3>1, <4>1, ElsewhereMeans DEF Elsewhere, Goes, Onwards
      <4>2. CASE SetOnlineStatus(p)
        BY <3>1, <4>2, StatusAside
      <4> QED BY <2>1, <4>1, <4>2
    <3>3. Position
      BY <3>2, ConnPosition
    <3> QED BY <3>2, <3>3, ToldKept
  <2>2. ASSUME NEW p \in Conn, ConnStep(p) PROVE Told(c)'
    BY <2>1, <2>2, ConnElsewhere, UnsubscribeElsewhere DEF ConnStep, Proc
  <2>3. CASE ConsumerStep \/ LoseEvent
    BY <2>3, ConsumerTold
  <2>4. CASE Crash
    <3>1. /\ UNCHANGED <<sent, log, peer>> /\ pc'[Consumer] = "starting"
      BY <2>4 DEF Crash, stores, lists, Proc
    <3> QED BY <3>1, ToldKept DEF Onwards, Gone, Position
  <2>5. CASE UNCHANGED vars
    BY <2>5 DEF Told, NotAgain, Target, Current, vars
  <2>6. ASSUME NEW u \in User, ExpireStatus(u) PROVE Told(c)'
    BY <2>6 DEF ExpireStatus, sockets, cursor, Told, NotAgain, Target, Current
  <2> QED BY <2>1, <2>2, <2>3, <2>4, <2>5, <2>6, ConnElsewhere DEF Next
<1>3. Telling => NotifiedInOrder
  BY DEF Told, NotifiedInOrder
<1> QED
  BY <1>1, <1>2, <1>3, InitInv, NextInv, PTL DEF Spec

(***************************************************************************)
(* How often a connection stands in the hub                                *)
(***************************************************************************)

LEMMA RegisterCounts ==
    ASSUME NEW h \in Hubs, NEW n \in User, NEW d \in Conn, NEW k \in User, NEW c \in Conn
    PROVE  Occurrences(Register(h, n, d)[k], c) =
             Occurrences(h[k], c) + IF k = n /\ c = d THEN 1 ELSE 0
<1>1. /\ h[n] \in Seq(Conn) /\ h[k] \in Seq(Conn)
      /\ Register(h, n, d)[k] = IF k = n THEN Append(h[n], d) ELSE h[k]
  BY DEF Register, Hubs
<1>2. Occurrences(h[k], c) \in Nat
  BY <1>1, OccurrencesFinite
<1> QED
  BY <1>1, <1>2, OccurrencesAppend

\* Unregistering a user of one connection takes one of its entries under that key,
\* if there is any; nobody comes to stand there more often.
LEMMA UnregisterCounts ==
    ASSUME NEW h \in Hubs, NEW n \in User, NEW u, NEW k \in User, NEW c \in Conn
    PROVE  /\ Occurrences(Unregister(h, n, u)[k], c) <= Occurrences(h[k], c)
           /\ k = n /\ UserOf[c] = u /\ Lone(c) /\ Occurrences(h[k], c) # 0 =>
                 Occurrences(Unregister(h, n, u)[k], c) <= Occurrences(h[k], c) - 1
<1>1. h[k] \in Seq(Conn) /\ Occurrences(h[k], c) \in Nat
  BY OccurrencesFinite DEF Hubs
<1>2. CASE EntriesOf(h[n], u) = {} \/ k # n
  <2>1. Unregister(h, n, u)[k] = h[k]
    BY <1>2 DEF Unregister, Hubs
  <2>2. ASSUME k = n, UserOf[c] = u, Occurrences(h[k], c) # 0 PROVE FALSE
    <3>1. Positions(h[k], c) # {}
      BY <1>1, <2>2, OccurrencesFinite, FS_EmptySet
    <3>2. PICK i \in DOMAIN h[k] : h[k][i] = c
      BY <3>1 DEF Positions
    <3> QED BY <1>2, <2>2, <3>2 DEF EntriesOf
  <2> QED BY <1>1, <2>1, <2>2
<1>3. CASE EntriesOf(h[n], u) # {} /\ k = n
  <2>1. PICK m \in DOMAIN h[n] : Unregister(h, n, u)[k] = RemoveAt(h[n], m) /\ UserOf[h[n][m]] = u
    <3>1. h[n] \in Seq(Conn) /\ Min(EntriesOf(h[n], u)) = HubLemmas!Min(EntriesOf(h[n], u))
      BY DEF Hubs, Min, HubLemmas!Min
    <3>2. EntriesOf(h[n], u) \subseteq Nat
      BY <3>1 DEF EntriesOf
    <3>3. Min(EntriesOf(h[n], u)) \in EntriesOf(h[n], u)
      BY <1>3, <3>1, <3>2, HubLemmas!MinProperties, ObserversAssumption
    <3> QED BY <1>3, <3>3 DEF Unregister, Hubs, EntriesOf
  <2>2. /\ m \in 1..Len(h[n]) /\ Len(h[n]) \in Nat /\ h[n] \in Seq(Conn) /\ m \in DOMAIN h[n]
        /\ RemoveAt(h[n], m) = HubLemmas!RemoveAt(h[n], m)
    BY DEF Hubs, RemoveAt, HubLemmas!RemoveAt
  <2>3. PICK r : r = RemoveAt(h[n], m)
    OBVIOUS
  <2>4. /\ r \in Seq(Conn) /\ Len(r) = Len(h[n]) - 1 /\ DOMAIN r = 1..(Len(h[n]) - 1)
        /\ \A j \in 1..(Len(h[n]) - 1) : r[j] = IF j < m THEN h[n][j] ELSE h[n][j + 1]
    <3>1. /\ HubLemmas!RemoveAt(h[n], m) \in Seq(Conn)
          /\ Len(HubLemmas!RemoveAt(h[n], m)) = Len(h[n]) - 1
          /\ \A j \in 1..(Len(h[n]) - 1) :
                HubLemmas!RemoveAt(h[n], m)[j] = IF j < m THEN h[n][j] ELSE h[n][j + 1]
      BY <2>2, HubLemmas!RemoveAtProperties, ObserversAssumption
    <3>2. HubLemmas!RemoveAt(h[n], m) = r
      BY <2>2, <2>3
    <3>3. r \in Seq(Conn) /\ Len(r) = Len(h[n]) - 1
          /\ \A j \in 1..(Len(h[n]) - 1) : r[j] = IF j < m THEN h[n][j] ELSE h[n][j + 1]
      BY <3>1, <3>2
    <3> QED BY <3>3
  <2> DEFINE f == [j \in 1..(Len(h[n]) - 1) |-> IF j < m THEN j ELSE j + 1]
             A == Positions(r, c)
             B == Positions(h[n], c)
  <2>5. \A j \in 1..(Len(h[n]) - 1) :
           f[j] \in 1..Len(h[n]) /\ f[j] # m /\ r[j] = h[n][f[j]]
    BY <2>2, <2>4
  <2>6. \A i, j \in 1..(Len(h[n]) - 1) : f[i] = f[j] => i = j
    BY <2>2
  <2> HIDE DEF f
  <2>7. (\A i \in A : f[i] \in B \ {m}) /\ \A i, j \in A : f[i] = f[j] => i = j
    <3>1. \A i \in A : i \in 1..(Len(h[n]) - 1) /\ r[i] = c
      BY <2>4 DEF Positions
    <3>2. \A i \in A : f[i] \in DOMAIN h[n] /\ h[n][f[i]] = c /\ f[i] # m
      BY <2>2, <2>5, <3>1
    <3> QED BY <2>6, <3>1, <3>2 DEF Positions
  <2>8. IsFiniteSet(B) /\ Occurrences(h[n], c) = Cardinality(B) /\ Occurrences(r, c) = Cardinality(A)
        /\ Cardinality(A) \in Nat /\ Cardinality(B) \in Nat
    BY <2>2, <2>4, OccurrencesFinite
  <2> HIDE DEF A, B
  <2>9. IsFiniteSet(B \ {m}) /\ Cardinality(B \ {m}) = IF m \in B THEN Cardinality(B) - 1 ELSE Cardinality(B)
    BY <2>8, FS_RemoveElement
  <2>10. Cardinality(A) <= Cardinality(B \ {m})
    BY <2>7, <2>9, IntoFewer
  <2>11. Cardinality(B \ {m}) <= Cardinality(B)
    BY <2>8, <2>9
  <2>12. ASSUME UserOf[c] = u, Lone(c) PROVE m \in B
    <3>1. h[n][m] \in Conn
      BY <2>2
    <3>2. h[n][m] = c
      BY <2>1, <2>12, <3>1 DEF Lone, Siblings
    <3> QED BY <2>2, <3>2 DEF B, Positions
  <2>13. Unregister(h, n, u)[k] = r
    BY <2>1, <2>3
  <2>14. Occurrences(r, c) <= Occurrences(h[n], c)
         /\ (UserOf[c] = u /\ Lone(c) => Occurrences(r, c) <= Occurrences(h[n], c) - 1)
    BY <2>8, <2>9, <2>10, <2>11, <2>12
  <2> QED BY <1>3, <2>13, <2>14
<1> QED
  BY <1>2, <1>3

(***************************************************************************)
(* What the Redis list names                                               *)
(***************************************************************************)

\* The entries that c, whose list is gone, is about to remove.
Owed(c, k) == IF pc[c] \in {"remove", "removing"} THEN Occurrences(work[c], k) ELSE 0

\* What the list of c's user names, or named when an error hid its deletion.
Backing(c, k) == Occurrences(list[UserOf[c]], k) + lost[UserOf[c]][k]

Fetched(c) == \A k \in User : Occurrences(list[UserOf[c]], k) <= Occurrences(work[c], k)

\* They and what c is about to remove name every entry of c, and what c fetched
\* names all that it deletes, unless the consumer took the list and waits for the
\* mutex it holds.
Listed(c) ==
    Lone(c) /\ ~Removing(Consumer, UserOf[c]) =>
        /\ pc[c] = "delete" => Fetched(c)
        /\ \A k \in User : Occurrences(hub[k], c) <= Backing(c, k) + Owed(c, k)

Counted ==
    \A c \in Conn, k \in User :
        /\ Occurrences(hub[k], c) \in Nat
        /\ Occurrences(list[UserOf[c]], k) \in Nat
        /\ Occurrences(work[c], k) \in Nat
        /\ lost[UserOf[c]][k] \in Nat
        /\ Backing(c, k) \in Nat
        /\ Owed(c, k) \in Nat

LEMMA CountsTyped == Inv => Counted
<1> SUFFICES ASSUME Inv, NEW c \in Conn, NEW k \in User
             PROVE  /\ Occurrences(hub[k], c) \in Nat
                    /\ Occurrences(list[UserOf[c]], k) \in Nat
                    /\ Occurrences(work[c], k) \in Nat
                    /\ lost[UserOf[c]][k] \in Nat
                    /\ Backing(c, k) \in Nat
                    /\ Owed(c, k) \in Nat
  BY DEF Counted
<1>1. hub[k] \in Seq(Conn) /\ list[UserOf[c]] \in Seq(User) /\ work[c] \in Seq(User)
  BY Subjects DEF Inv, TypeOK, Hubs
<1>2. /\ Occurrences(hub[k], c) \in Nat
      /\ Occurrences(list[UserOf[c]], k) \in Nat
      /\ Occurrences(work[c], k) \in Nat
  BY <1>1, OccurrencesFinite
<1>3. lost[UserOf[c]][k] \in Nat
  BY Subjects DEF Inv, TypeOK
<1> QED
  BY <1>2, <1>3 DEF Owed, Backing

LEMMA SameBacking ==
    ASSUME Inv, NEW c \in Conn, list'[UserOf[c]] = list[UserOf[c]], lost'[UserOf[c]] = lost[UserOf[c]]
    PROVE  \A k \in User : /\ Backing(c, k)' = Backing(c, k)
                           /\ Occurrences(list'[UserOf[c]], k) <= Occurrences(list[UserOf[c]], k)
BY CountsTyped DEF Backing, Counted

\* A step that neither takes from the list of c nor enters c.
Spared(c) ==
    /\ \A k \in User : Occurrences(hub'[k], c) <= Occurrences(hub[k], c)
    /\ \A k \in User : Backing(c, k)' = Backing(c, k)
    /\ \A k \in User : Occurrences(list'[UserOf[c]], k) <= Occurrences(list[UserOf[c]], k)
    /\ \/ pc'[c] = pc[c] /\ work'[c] = work[c]
       \/ pc[c] \notin {"remove", "removing"} /\ pc'[c] \notin {"delete", "remove", "removing"}
    /\ Removing(Consumer, UserOf[c]) => Removing(Consumer, UserOf[c])'

LEMMA ListedKept ==
    ASSUME Inv, Inv', NEW c \in Conn, Listed(c), Spared(c)
    PROVE  Listed(c)'
<1> SUFFICES ASSUME Lone(c), ~Removing(Consumer, UserOf[c])'
             PROVE  /\ pc'[c] = "delete" => Fetched(c)'
                    /\ \A k \in User :
                          Occurrences(hub'[k], c) <= Backing(c, k)' + Owed(c, k)'
  BY DEF Listed, Lone, Siblings
<1>1. /\ pc[c] = "delete" => Fetched(c)
      /\ \A k \in User : Occurrences(hub[k], c) <= Backing(c, k) + Owed(c, k)
  BY DEF Listed, Spared
<1>2. pc'[c] = "delete" => Fetched(c)'
  <2> SUFFICES ASSUME pc'[c] = "delete", NEW k \in User
               PROVE  Occurrences(list'[UserOf[c]], k) <= Occurrences(work'[c], k)
    BY DEF Fetched
  <2>1. work'[c] = work[c] /\ pc[c] = "delete"
    BY DEF Spared
  <2>2. Occurrences(list[UserOf[c]], k) <= Occurrences(work[c], k)
    BY <1>1, <2>1 DEF Fetched
  <2>3. Occurrences(list'[UserOf[c]], k) <= Occurrences(list[UserOf[c]], k)
    BY DEF Spared
  <2>4. /\ Occurrences(list[UserOf[c]], k) \in Nat /\ Occurrences(work[c], k) \in Nat
        /\ Occurrences(list'[UserOf[c]], k) \in Nat
    <3>1. Counted /\ Counted'
      BY CountsTyped, PTL
    <3> QED BY <3>1 DEF Counted
  <2> QED BY <2>1, <2>2, <2>3, <2>4
<1>3. ASSUME NEW k \in User
      PROVE  Occurrences(hub'[k], c) <= Backing(c, k)' + Owed(c, k)'
  <2>1. Owed(c, k)' = Owed(c, k)
    BY DEF Owed, Spared
  <2>2. /\ Occurrences(hub[k], c) \in Nat /\ Occurrences(hub'[k], c) \in Nat
        /\ Backing(c, k) \in Nat /\ Owed(c, k) \in Nat
    <3>1. Counted /\ Counted'
      BY CountsTyped, PTL
    <3> QED BY <3>1 DEF Counted
  <2> QED BY <1>1, <2>1, <2>2 DEF Spared
<1> QED
  BY <1>2, <1>3

\* The consumer goes on waiting for the same user's entries.
LEMMA RemovingKept ==
    ASSUME Inv, UNCHANGED <<head, ri>>, pc'[Consumer] = pc[Consumer], Onwards,
           mu = Consumer => hub' = hub, NEW u, Removing(Consumer, u)
    PROVE  Removing(Consumer, u)'
<1>1. pc[Consumer] \notin {"starting", "idle"}
  BY DEF Removing
<1>2. /\ head + 1 \in 1..Len(log) /\ hub' = hub /\ log \in Seq(Event)
  BY <1>1 DEF Inv, TypeOK, Consuming
<1>3. log'[head + 1] = log[head + 1]
  BY <1>2, AppendProperties DEF Onwards
<1>4. Target' = Target
  BY <1>2, <1>3 DEF Target, Current
<1> QED
  BY <1>4 DEF Removing, Subject

LEMMA ConnRemovingKept ==
    ASSUME Inv, NEW p \in Conn, Elsewhere(p) \/ SetOnlineStatus(p), NEW u, Removing(Consumer, u)
    PROVE  Removing(Consumer, u)'
<1>1. p \in Proc /\ p # Consumer /\ Consumer \in Proc
  BY Subjects DEF Proc
<1>2. /\ UNCHANGED <<head, ri>> /\ pc'[Consumer] = pc[Consumer] /\ Onwards
      /\ mu = Consumer => hub' = hub
  <2>1. CASE Elsewhere(p)
    BY <1>1, <2>1, ElsewhereMeans DEF Elsewhere, Goes, Onwards
  <2>2. CASE SetOnlineStatus(p)
    BY <1>1, <2>2, StatusAside
  <2> QED BY <2>1, <2>2
<1> QED
  BY <1>2, RemovingKept

\* A move that touches neither the hub nor a list.
LEMMA MoveSpares ==
    ASSUME Inv, NEW p \in Conn, Elsewhere(p) \/ SetOnlineStatus(p),
           UNCHANGED <<hub, list, lost>>, \A c \in Conn \ {p} : pc'[c] = pc[c] /\ work'[c] = work[c],
           \/ pc'[p] = pc[p] /\ work'[p] = work[p]
           \/ pc[p] \notin {"remove", "removing"} /\ pc'[p] \notin {"delete", "remove", "removing"}
    PROVE  \A c \in Conn : Spared(c)
<1> TAKE c \in Conn
<1>1. \A k \in User : Occurrences(hub'[k], c) <= Occurrences(hub[k], c)
  <2>1. \A k \in User : Occurrences(hub[k], c) \in Nat
    BY CountsTyped DEF Counted
  <2> QED BY <2>1
<1>2. Removing(Consumer, UserOf[c]) => Removing(Consumer, UserOf[c])'
  BY ConnRemovingKept
<1>3. \A k \in User : /\ Backing(c, k)' = Backing(c, k)
                      /\ Occurrences(list'[UserOf[c]], k) <= Occurrences(list[UserOf[c]], k)
  BY SameBacking
<1> QED
  BY <1>1, <1>2, <1>3 DEF Spared

LEMMA RestSpares ==
    ASSUME Inv, NEW p \in Conn,
           \/ HandleSocketUserObservingRoute(p)
           \/ LockToSubscribe(p)
           \/ FinishSubscribing(p)
           \/ CloseSocket(p)
           \/ ReadFails(p)
           \/ Leave(p)
           \/ StopOrResume(p)
           \/ SetOnlineStatus(p)
    PROVE  \A c \in Conn : Spared(c)
<1>1. p \in Proc /\ p # Consumer /\ \A c \in Conn \ {p} : c \in Proc \ {p}
  BY Subjects
<1>2. Elsewhere(p) \/ SetOnlineStatus(p)
  BY ConnElsewhere
<1>3. UNCHANGED <<hub, list, lost>>
  BY DEF HandleSocketUserObservingRoute, LockToSubscribe, FinishSubscribing, CloseSocket, ReadFails,
         ReadClose, ReadClosedSocket, Leave, StopOrResume, SetOnlineStatus, SetUserOnlineStatus,
         UpdateUserOnlineStatusInCache, PublishStatus, stores, lists, sockets
<1>4. /\ \A c \in Conn \ {p} : pc'[c] = pc[c] /\ work'[c] = work[c]
      /\ \/ pc'[p] = pc[p] /\ work'[p] = work[p]
         \/ pc[p] \notin {"remove", "removing"} /\ pc'[p] \notin {"delete", "remove", "removing"}
  <2>1. CASE HandleSocketUserObservingRoute(p) \/ FinishSubscribing(p) \/ CloseSocket(p)
    BY <1>1, <2>1, MovesIs DEF HandleSocketUserObservingRoute, FinishSubscribing, CloseSocket
  <2>2. CASE LockToSubscribe(p)
    BY <1>1, <2>2, MovesIs DEF LockToSubscribe, Inv, TypeOK
  <2>3. CASE ReadFails(p)
    <3>1. UNCHANGED work /\ \E to \in {"closing", "db"} : Goto(p, "reading", to)
      BY <2>3 DEF ReadFails, ReadClose, ReadClosedSocket
    <3> QED BY <1>1, <3>1, MovesIs
  <2>4. CASE Leave(p) \/ StopOrResume(p)
    BY <2>4 DEF Leave, StopOrResume
  <2>5. CASE SetOnlineStatus(p)
    <3>1. UNCHANGED work
      BY <2>5 DEF SetOnlineStatus, SetUserOnlineStatus, UpdateUserOnlineStatusInCache, PublishStatus
    <3>2. pc'[p] \notin {"delete", "remove", "removing"}
      BY <1>1, <2>5, StatusAside, AfterStatusIs
    <3> QED BY <1>1, <2>5, <3>1, <3>2, StatusAside
  <2> QED BY <2>1, <2>2, <2>3, <2>4, <2>5
<1> QED
  BY <1>2, <1>3, <1>4, MoveSpares

\* An entry comes with its name in the list.
LEMMA SaveListed ==
    ASSUME Inv, Inv', NEW p \in Conn, SaveObserverNotifier(p), NEW c \in Conn, Listed(c)
    PROVE  Listed(c)'
<1>1. /\ pc[p] = "saving" /\ work[p] \in Seq(User) /\ work[p] # << >> /\ hub \in Hubs
      /\ list \in [User -> Seq(User)] /\ UserOf[p] \in User /\ UserOf[c] \in User
      /\ UNCHANGED <<pc, mu, lost>>
      /\ list' = [list EXCEPT ![UserOf[p]] = Append(@, Head(work[p]))]
      /\ hub' = Register(hub, Head(work[p]), p)
      /\ \A d \in Conn \ {p} : work'[d] = work[d]
  BY Subjects DEF SaveObserverNotifier, Inv, TypeOK
<1>2. PICK n \in User : n = Head(work[p])
  BY <1>1, HeadTailProperties
<1>3. \A k \in User : Occurrences(hub'[k], c) = Occurrences(hub[k], c) + IF k = n /\ c = p THEN 1 ELSE 0
  BY <1>1, <1>2, RegisterCounts
<1>4. Removing(Consumer, UserOf[c]) => Removing(Consumer, UserOf[c])'
  BY ConnElsewhere, ConnRemovingKept
<1>5. CASE c # p
  <2>1. ASSUME Lone(c) PROVE Spared(c)
    <3>1. UserOf[c] # UserOf[p]
      BY <1>5, <2>1 DEF Lone, Siblings
    <3>2. list'[UserOf[c]] = list[UserOf[c]] /\ lost' = lost
      BY <1>1, <3>1
    <3>3. \A k \in User : Occurrences(hub'[k], c) <= Occurrences(hub[k], c)
      BY <1>3, <1>5, CountsTyped DEF Counted
    <3>4. \A k \in User : /\ Backing(c, k)' = Backing(c, k)
                          /\ Occurrences(list'[UserOf[c]], k) <= Occurrences(list[UserOf[c]], k)
      BY <3>2, SameBacking
    <3> QED BY <1>1, <1>4, <1>5, <3>3, <3>4 DEF Spared
  <2> QED BY <2>1, ListedKept DEF Listed, Lone, Siblings
<1>6. CASE c = p
  <2> SUFFICES ASSUME Lone(c), ~Removing(Consumer, UserOf[c])', NEW k \in User
               PROVE  /\ pc'[c] # "delete"
                      /\ Occurrences(hub'[k], c) <= Backing(c, k)' + Owed(c, k)'
    BY DEF Listed, Lone, Siblings
  <2>1. Owed(c, k) = 0 /\ Owed(c, k)' = 0 /\ pc'[c] # "delete"
    BY <1>1, <1>6 DEF Owed
  <2>2. list'[UserOf[c]] = Append(list[UserOf[c]], n) /\ list[UserOf[c]] \in Seq(User)
    BY <1>1, <1>2, <1>6
  <2>3. Occurrences(list'[UserOf[c]], k) = Occurrences(list[UserOf[c]], k) + IF n = k THEN 1 ELSE 0
    BY <2>2, OccurrencesAppend
  <2>4. /\ Occurrences(hub[k], c) \in Nat /\ Occurrences(list[UserOf[c]], k) \in Nat
        /\ lost[UserOf[c]][k] \in Nat /\ Backing(c, k) \in Nat
    BY CountsTyped DEF Counted
  <2>5. Backing(c, k)' = Backing(c, k) + IF n = k THEN 1 ELSE 0
    BY <1>1, <2>3, <2>4 DEF Backing
  <2>6. Occurrences(hub[k], c) <= Backing(c, k)
    <3>1. Occurrences(hub[k], c) <= Backing(c, k) + Owed(c, k)
      BY <1>4 DEF Listed
    <3> QED BY <2>1, <2>4, <3>1
  <2>7. Occurrences(hub'[k], c) = Occurrences(hub[k], c) + IF k = n THEN 1 ELSE 0
    BY <1>3, <1>6
  <2>8. Occurrences(hub'[k], c) <= Backing(c, k)'
    <3>1. CASE k = n
      BY <2>4, <2>5, <2>6, <2>7, <3>1
    <3>2. CASE k # n
      BY <2>4, <2>5, <2>6, <2>7, <3>2
    <3> QED BY <3>1, <3>2
  <2>9. Backing(c, k)' \in Nat /\ Occurrences(hub'[k], c) \in Nat
    BY <2>4, <2>5, <2>7
  <2> QED BY <2>1, <2>8, <2>9
<1> QED
  BY <1>5, <1>6

\* The steps of unsubscribing but removing, as the connection itself sees them.
LEMMA UnsubscribeListed ==
    ASSUME Inv, Inv', NEW p \in Conn, Unsubscribe(p), ~RemoveObserver(p), NEW c \in Conn, Listed(c)
    PROVE  Listed(c)'
<1>1. /\ p \in Proc /\ p # Consumer /\ Subject(p) = UserOf[p] /\ UserOf[p] \in User /\ UserOf[c] \in User
      /\ c \in Proc
      /\ work \in [Proc -> Seq(User)] /\ list \in [User -> Seq(User)] /\ hub' = hub
  BY Subjects DEF Inv, TypeOK, Unsubscribe, FetchNotifiers, FetchNoNotifiers, DeleteNotifiers,
                  DeleteNotifiersFails, LockToRemove, RemoveObserver, FinishRemoving
<1>2. Removing(Consumer, UserOf[c]) => Removing(Consumer, UserOf[c])'
  BY <1>1, UnsubscribeElsewhere, ConnRemovingKept
<1>3. \A k \in User : Occurrences(hub'[k], c) = Occurrences(hub[k], c)
  BY <1>1
<1>4. \A k \in User : Occurrences(hub[k], c) \in Nat
  BY CountsTyped DEF Counted
<1>5. \A q \in Proc \ {p} : pc'[q] = pc[q] /\ work'[q] = work[q]
  <2>1. \A q \in Proc \ {p} : pc'[q] = pc[q]
    BY <1>1, UnsubscribeElsewhere DEF Elsewhere
  <2>2. \A q \in Proc \ {p} : work'[q] = work[q]
    BY <1>1 DEF Unsubscribe, FetchNotifiers, FetchNoNotifiers, DeleteNotifiers,
                DeleteNotifiersFails, LockToRemove, FinishRemoving
  <2> QED BY <2>1, <2>2
<1>6. CASE c # p
  <2>1. ASSUME Lone(c) PROVE Spared(c)
    <3>1. UserOf[c] # UserOf[p]
      BY <1>6, <2>1 DEF Lone, Siblings
    <3>2. list'[UserOf[c]] = list[UserOf[c]] /\ lost'[UserOf[c]] = lost[UserOf[c]]
      <4>1. \/ UNCHANGED lists
            \/ list' = [list EXCEPT ![UserOf[p]] = << >>]
               /\ (lost' = lost \/ \E f : lost' = [lost EXCEPT ![UserOf[p]] = f])
        <5>1. CASE DeleteNotifiersFails(p)
          BY <1>1, <5>1 DEF DeleteNotifiersFails, EmptyList
        <5>2. CASE DeleteNotifiers(p)
          BY <1>1, <5>2 DEF DeleteNotifiers, EmptyList
        <5>3. CASE FetchNotifiers(p) \/ FetchNoNotifiers(p) \/ LockToRemove(p) \/ FinishRemoving(p)
          BY <5>3 DEF FetchNotifiers, FetchNoNotifiers, LockToRemove, FinishRemoving, stores, lists
        <5> QED BY <5>1, <5>2, <5>3 DEF Unsubscribe
      <4> QED BY <1>1, <3>1, <4>1 DEF lists, Inv, TypeOK
    <3>3. \A k \in User : /\ Backing(c, k)' = Backing(c, k)
                          /\ Occurrences(list'[UserOf[c]], k) <= Occurrences(list[UserOf[c]], k)
      BY <3>2, SameBacking
    <3>4. \A k \in User : Occurrences(hub'[k], c) <= Occurrences(hub[k], c)
      BY <1>3, <1>4
    <3>5. pc'[c] = pc[c] /\ work'[c] = work[c]
      BY <1>1, <1>5, <1>6
    <3> QED BY <1>2, <3>3, <3>4, <3>5 DEF Spared
  <2> QED BY <2>1, ListedKept DEF Listed, Lone, Siblings
<1>7. CASE c = p /\ FetchNotifiers(p)
  <2>1. /\ list' = list /\ lost' = lost
        /\ pc[c] = "fetch" /\ pc'[c] = "delete" /\ work'[c] = list[UserOf[c]]
    BY <1>1, <1>7, MovesIs DEF FetchNotifiers, stores, lists
  <2>2. \A k \in User : Owed(c, k) = 0 /\ Owed(c, k)' = 0
    BY <2>1 DEF Owed
  <2>3. Fetched(c)' /\ \A k \in User : Backing(c, k)' = Backing(c, k)
    BY <2>1, CountsTyped DEF Fetched, Backing, Counted
  <2> QED BY <1>2, <1>3, <2>1, <2>2, <2>3 DEF Listed, Lone, Siblings
<1>8. CASE c = p /\ (FetchNoNotifiers(p) \/ DeleteNotifiersFails(p))
  <2>1. pc[c] \in {"fetch", "delete"} /\ pc'[c] \in {"closing", "db"}
    BY <1>1, <1>8, EndUnsubscribeIs DEF FetchNoNotifiers, DeleteNotifiersFails, Goto
  <2>2. \A k \in User : /\ Backing(c, k)' = Backing(c, k)
                         /\ Occurrences(list'[UserOf[c]], k) <= Occurrences(list[UserOf[c]], k)
    <3>1. CASE FetchNoNotifiers(p)
      BY <3>1, SameBacking DEF FetchNoNotifiers, stores, lists
    <3>2. CASE DeleteNotifiersFails(p)
      BY <1>1, <3>2, FailedDeletion DEF Backing
    <3> QED BY <1>8, <3>1, <3>2
  <2>3. Spared(c)
    BY <1>1, <1>2, <1>3, <1>4, <2>1, <2>2 DEF Spared
  <2> QED BY <2>3, ListedKept
<1>9. CASE c = p /\ DeleteNotifiers(p)
  <2>1. /\ pc[c] = "delete" /\ pc'[c] = "remove" /\ work' = work /\ list'[UserOf[c]] = << >>
        /\ lost' = lost
    BY <1>1, <1>9, MovesIs DEF DeleteNotifiers, EmptyList
  <2> SUFFICES ASSUME Lone(c), ~Removing(Consumer, UserOf[c]), NEW k \in User
               PROVE  Occurrences(hub'[k], c) <= Backing(c, k)' + Owed(c, k)'
    BY <1>2, <2>1 DEF Listed, Lone, Siblings
  <2>2. /\ Occurrences(list[UserOf[c]], k) <= Occurrences(work[c], k)
        /\ Occurrences(hub[k], c) <= Backing(c, k) + Owed(c, k)
    BY <2>1 DEF Listed, Fetched
  <2>3. Owed(c, k) = 0 /\ Owed(c, k)' = Occurrences(work[c], k)
    BY <2>1 DEF Owed
  <2>4. /\ Backing(c, k) = Occurrences(list[UserOf[c]], k) + lost[UserOf[c]][k]
        /\ Backing(c, k)' = 0 + lost[UserOf[c]][k]
    BY <2>1, OccurrencesNone DEF Backing
  <2>5. /\ Occurrences(work[c], k) \in Nat /\ Occurrences(hub[k], c) \in Nat
        /\ Occurrences(list[UserOf[c]], k) \in Nat /\ lost[UserOf[c]][k] \in Nat
    BY CountsTyped DEF Counted
  <2>6. Occurrences(hub'[k], c) = Occurrences(hub[k], c)
    BY <1>3
  <2> QED BY <2>2, <2>3, <2>4, <2>5, <2>6
<1>10. CASE c = p /\ LockToRemove(p)
  <2>1. UNCHANGED lists /\ pc[c] = "remove" /\ pc'[c] = "removing" /\ work' = work
    BY <1>1, <1>10, MovesIs DEF LockToRemove, stores, lists
  <2>2. \A k \in User : Owed(c, k)' = Owed(c, k)
    BY <2>1 DEF Owed
  <2>3. \A k \in User : Backing(c, k)' = Backing(c, k)
    BY <2>1, SameBacking DEF lists
  <2> QED BY <1>2, <1>3, <2>1, <2>2, <2>3 DEF Listed, Lone, Siblings
<1>11. CASE c = p /\ FinishRemoving(p)
  <2>1. UNCHANGED lists /\ pc[c] = "removing" /\ pc'[c] \in {"closing", "db"} /\ work[c] = << >>
    BY <1>1, <1>11, EndUnsubscribeIs DEF FinishRemoving, stores, lists
  <2>2. \A k \in User : Owed(c, k) = 0 /\ Owed(c, k)' = 0
    <3>1. \A k \in User : Occurrences(work[c], k) = 0
      BY <2>1, OccurrencesNone
    <3> QED BY <2>1, <3>1 DEF Owed
  <2>3. \A k \in User : Backing(c, k)' = Backing(c, k)
    BY <2>1, SameBacking DEF lists
  <2> QED BY <1>2, <1>3, <2>1, <2>2, <2>3 DEF Listed, Lone, Siblings
<1> QED
  BY <1>6, <1>7, <1>8, <1>9, <1>10, <1>11 DEF Unsubscribe

\* An entry that is removed was owed; those of others stay owed or listed.
LEMMA RemoveListed ==
    ASSUME Inv, Inv', NEW p \in Conn, RemoveObserver(p), NEW c \in Conn, Listed(c)
    PROVE  Listed(c)'
<1>1. /\ p \in Proc /\ c \in Proc /\ p # Consumer /\ UserOf[p] \in User /\ UserOf[c] \in User
      /\ pc[p] = "removing" /\ work[p] \in Seq(User) /\ work[p] # << >> /\ hub \in Hubs
      /\ work \in [Proc -> Seq(User)]
      /\ UNCHANGED <<pc, list, lost>>
      /\ hub' = Unregister(hub, Head(work[p]), UserOf[p])
      /\ work' = [work EXCEPT ![p] = Tail(@)]
  BY Subjects DEF RemoveObserver, Inv, TypeOK, stores, lists
<1>2. PICK n \in User : n = Head(work[p])
  BY <1>1, HeadTailProperties
<1>3. ASSUME NEW k \in User
      PROVE  /\ Occurrences(hub'[k], c) <= Occurrences(hub[k], c)
             /\ c = p /\ Lone(c) /\ k = n /\ Occurrences(hub[k], c) # 0 =>
                   Occurrences(hub'[k], c) <= Occurrences(hub[k], c) - 1
  <2>1. hub' = Unregister(hub, n, UserOf[p])
    BY <1>1, <1>2
  <2> QED BY <1>1, <2>1, UnregisterCounts
<1>4. Removing(Consumer, UserOf[c]) => Removing(Consumer, UserOf[c])'
  <2>1. Elsewhere(p)
    BY <1>1, UnsubscribeElsewhere DEF Unsubscribe
  <2> QED BY <2>1, ConnRemovingKept
<1>5. CASE c # p
  <2>1. Spared(c)
    BY <1>1, <1>3, <1>4, <1>5, SameBacking DEF Spared
  <2> QED BY <2>1, ListedKept
<1>6. CASE c = p
  <2> SUFFICES ASSUME Lone(c), ~Removing(Consumer, UserOf[c]), NEW k \in User
               PROVE  Occurrences(hub'[k], c) <= Backing(c, k)' + Owed(c, k)'
    BY <1>1, <1>4, <1>6 DEF Listed, Lone, Siblings
  <2>1. Owed(c, k) = Occurrences(work[c], k) /\ Owed(c, k)' = Occurrences(Tail(work[c]), k)
    BY <1>1, <1>6 DEF Owed
  <2>2. Occurrences(work[c], k) <= Occurrences(Tail(work[c]), k) + IF n = k THEN 1 ELSE 0
    BY <1>1, <1>2, <1>6, OccurrencesTail
  <2>3. Occurrences(hub[k], c) <= Backing(c, k) + Occurrences(work[c], k)
    BY <2>1 DEF Listed
  <2>4. /\ Occurrences(hub[k], c) \in Nat /\ Occurrences(hub'[k], c) \in Nat
        /\ Backing(c, k) \in Nat /\ Occurrences(work[c], k) \in Nat
        /\ Occurrences(Tail(work[c]), k) \in Nat
    <3>1. Counted /\ Counted'
      BY CountsTyped, PTL
    <3>2. Tail(work[c]) = work'[c]
      BY <1>1, <1>6
    <3>3. Occurrences(work'[c], k) \in Nat
      BY <3>1 DEF Counted
    <3>4. Occurrences(hub'[k], c) \in Nat
      BY <3>1 DEF Counted
    <3>5. /\ Occurrences(hub[k], c) \in Nat
          /\ Backing(c, k) \in Nat /\ Occurrences(work[c], k) \in Nat
      BY <3>1 DEF Counted
    <3> QED BY <3>2, <3>3, <3>4, <3>5
  <2>5. Occurrences(hub'[k], c) <= Backing(c, k) + Occurrences(Tail(work[c]), k)
    <3>1. CASE n = k /\ Occurrences(hub[k], c) # 0
      <4>1. Occurrences(hub'[k], c) <= Occurrences(hub[k], c) - 1
        BY <1>3, <1>6, <3>1
      <4> QED BY <2>2, <2>3, <2>4, <3>1, <4>1
    <3>2. CASE Occurrences(hub[k], c) = 0
      <4>1. Occurrences(hub'[k], c) <= 0
        BY <1>3, <3>2
      <4> QED BY <2>4, <4>1
    <3>3. CASE n # k
      <4>1. Occurrences(hub'[k], c) <= Occurrences(hub[k], c)
        BY <1>3
      <4> QED BY <2>2, <2>3, <2>4, <3>3, <4>1
    <3> QED BY <3>1, <3>2, <3>3
  <2>6. Backing(c, k)' = Backing(c, k)
    BY <1>1, SameBacking
  <2> QED BY <2>1, <2>5, <2>6
<1> QED
  BY <1>5, <1>6

\* The consumer takes a list only to wait for itself; what else it does is aside.
LEMMA ConsumerListed ==
    ASSUME Inv, Inv', ConsumerStep \/ LoseEvent, NEW c \in Conn, Listed(c)
    PROVE  Listed(c)'
<1>1. /\ Consumer \in Proc /\ c \in Proc /\ c # Consumer /\ UserOf[c] \in User
      /\ list \in [User -> Seq(User)]
  BY Subjects DEF Proc, Inv, TypeOK
<1>2. pc[Consumer] # "removing"
  BY DEF Inv, Consuming
<1>3. pc[Consumer] # "remove"
  <2> SUFFICES ASSUME pc[Consumer] = "remove" PROVE FALSE
    OBVIOUS
  <2>1. mu = Consumer
    BY DEF Inv, Consuming
  <2>2. LockToRemove(Consumer)
    BY DEF ConsumerStep, LoseEvent, SubscribeToChannel, Send, WriteJSON, WriteToClosedSocket,
           WriteToGoneClient, FinishSend, EndSend, Writing, SetOnlineStatus, SetUserOnlineStatus,
           UpdateUserOnlineStatusInCache, PublishStatus, Unsubscribe, FetchNotifiers, FetchNoNotifiers,
           DeleteNotifiers, DeleteNotifiersFails, RemoveObserver, FinishRemoving, Goto
  <2> QED BY <2>1, <2>2, ConsumerAssumption DEF LockToRemove
<1>4. ~Removing(Consumer, UserOf[c])
  BY <1>2, <1>3 DEF Removing
<1>5. hub' = hub /\ (DeleteNotifiers(Consumer) \/ DeleteNotifiersFails(Consumer) \/ UNCHANGED lists)
  BY <1>2, <1>3
     DEF ConsumerStep, LoseEvent, SubscribeToChannel, Send, WriteJSON, WriteToClosedSocket,
         WriteToGoneClient, FinishSend, EndSend, Writing, SetOnlineStatus, SetUserOnlineStatus,
         UpdateUserOnlineStatusInCache, PublishStatus, Unsubscribe, FetchNotifiers, FetchNoNotifiers,
         DeleteNotifiers, DeleteNotifiersFails, LockToRemove, RemoveObserver, FinishRemoving, Goto, stores, lists
<1>6. pc'[c] = pc[c]
  <2>1. CASE SetOnlineStatus(Consumer)
    BY <1>1, <2>1, StatusAside
  <2>2. CASE ~SetOnlineStatus(Consumer)
    <3>1. Elsewhere(Consumer)
      BY <1>1, <2>2, ConsumerElsewhere, UnsubscribeElsewhere
         DEF ConsumerStep, WriteToClosedSocket, FinishSend
    <3> QED BY <1>1, <3>1 DEF Elsewhere
  <2> QED BY <2>1, <2>2
<1>7. work'[c] = work[c]
  <2>1. CASE Unsubscribe(Consumer)
    BY <1>1, <1>2, <2>1
       DEF Unsubscribe, FetchNotifiers, FetchNoNotifiers, DeleteNotifiers, DeleteNotifiersFails,
           LockToRemove, RemoveObserver, FinishRemoving, Inv, TypeOK
  <2>2. CASE ~Unsubscribe(Consumer)
    BY <2>2
       DEF ConsumerStep, LoseEvent, SubscribeToChannel, Send, WriteJSON, WriteToClosedSocket,
           WriteToGoneClient, FinishSend, EndSend, SetOnlineStatus, SetUserOnlineStatus,
           UpdateUserOnlineStatusInCache, PublishStatus
  <2> QED BY <2>1, <2>2
<1>8. \A k \in User : Occurrences(hub'[k], c) <= Occurrences(hub[k], c)
  BY <1>5, CountsTyped DEF Counted
<1>9. CASE UNCHANGED lists \/ DeleteNotifiersFails(Consumer) \/ (DeleteNotifiers(Consumer) /\ Subject(Consumer) # UserOf[c])
  <2>1. \A k \in User : /\ Backing(c, k)' = Backing(c, k)
                         /\ Occurrences(list'[UserOf[c]], k) <= Occurrences(list[UserOf[c]], k)
    <3>1. CASE UNCHANGED lists
      BY <3>1, SameBacking DEF lists
    <3>2. CASE DeleteNotifiersFails(Consumer)
      BY <1>1, <3>2, FailedDeletion DEF Backing
    <3>3. CASE DeleteNotifiers(Consumer) /\ Subject(Consumer) # UserOf[c]
      <4>1. list'[UserOf[c]] = list[UserOf[c]] /\ lost' = lost
        BY <1>1, <3>3 DEF DeleteNotifiers, EmptyList
      <4> QED BY <4>1, SameBacking
    <3> QED BY <1>9, <3>1, <3>2, <3>3
  <2>2. Spared(c)
    BY <1>4, <1>6, <1>7, <1>8, <2>1 DEF Spared
  <2> QED BY <2>2, ListedKept
<1>10. CASE DeleteNotifiers(Consumer) /\ Subject(Consumer) = UserOf[c]
  <2>1. pc'[Consumer] = "remove" /\ UNCHANGED <<hub, log, head, ri>>
    BY <1>1, <1>10, MovesIs DEF DeleteNotifiers, cursor
  <2>2. Subject(Consumer)' = Subject(Consumer)
    BY <2>1 DEF Subject, Target, Current
  <2>3. Removing(Consumer, UserOf[c])'
    BY <1>10, <2>1, <2>2 DEF Removing
  <2> QED BY <2>3 DEF Listed
<1> QED
  BY <1>5, <1>9, <1>10

LEMMA ListedStep ==
    ASSUME Inv, Inv', \A c \in Conn : Listed(c), [Next]_vars
    PROVE  \A c \in Conn : Listed(c)'
<1> TAKE c \in Conn
<1>1. Listed(c)
  OBVIOUS
<1>2. ASSUME NEW p \in Conn, ConnStep(p) PROVE Listed(c)'
  <2>1. CASE SetOnlineStatus(p) \/ LockToSubscribe(p) \/ FinishSubscribing(p) \/ CloseSocket(p)
    BY <2>1, RestSpares, ListedKept
  <2>2. CASE Unsubscribe(p)
    BY <2>2, UnsubscribeListed, RemoveListed
  <2> QED BY <1>2, <2>1, <2>2, SaveListed DEF ConnStep
<1>3. ASSUME NEW p \in Conn,
             HandleSocketUserObservingRoute(p) \/ ReadFails(p) \/ Leave(p) \/ StopOrResume(p)
      PROVE  Listed(c)'
  BY <1>3, RestSpares, ListedKept
<1>4. CASE Crash
  <2>1. c \in Proc /\ c # Consumer
    BY Subjects
  <2>2. /\ pc'[c] \in {"none", "done"} /\ UserOf[c] \in User
        /\ \A k \in User : hub'[k] = << >>
    BY <1>4, <2>1, Subjects DEF Crash, EmptyHub
  <2>3. \A k \in User : Occurrences(hub'[k], c) = 0
    BY <2>2, OccurrencesNone
  <2>4. \A k \in User : Backing(c, k)' \in Nat /\ Owed(c, k)' = 0
    <3>1. Counted'
      BY CountsTyped, PTL
    <3>2. \A k \in User : Owed(c, k)' = 0
      BY <2>2 DEF Owed
    <3> QED BY <3>1, <3>2 DEF Counted
  <2> QED BY <2>2, <2>3, <2>4 DEF Listed
<1>5. CASE UNCHANGED vars
  BY <1>5 DEF Listed, Fetched, Backing, Lone, Siblings, Removing, Owed, Subject, Target, Current, vars
<1>6. ASSUME NEW u \in User, ExpireStatus(u) PROVE Listed(c)'
  BY <1>6 DEF Listed, Fetched, Backing, Lone, Siblings, Removing, Owed, Subject, Target, Current,
              ExpireStatus, lists, cursor
<1> QED
  BY <1>2, <1>3, <1>4, <1>5, <1>6, ConsumerListed DEF Next

\* The Redis list names every hub entry of a user with one connection, as often
\* as it stands there, unless somebody has taken the list to remove them, or an
\* error hid that the list was deleted.
THEOREM ListedCorrect == Spec => []EntriesListed
<1> DEFINE Listing == \A c \in Conn : Listed(c)
<1>1. Init => Listing
  <2> SUFFICES ASSUME Init, NEW c \in Conn PROVE Listed(c)
    OBVIOUS
  <2>1. c \in Proc /\ c # Consumer /\ UserOf[c] \in User
    BY ConsumerAssumption, ObserversAssumption DEF Proc
  <2>2. /\ pc[c] = "none" /\ list[UserOf[c]] = << >> /\ \A k \in User : hub[k] = << >>
        /\ \A k \in User : lost[UserOf[c]][k] = 0
    BY <2>1 DEF Init, EmptyHub
  <2>3. \A k \in User : /\ Occurrences(hub[k], c) = 0 /\ Occurrences(list[UserOf[c]], k) = 0
                        /\ Owed(c, k) = 0 /\ Backing(c, k) = 0
    BY <2>2, OccurrencesNone DEF Owed, Backing
  <2> QED BY <2>2, <2>3 DEF Listed
<1>2. Inv /\ Inv' /\ Listing /\ [Next]_vars => Listing'
  BY ListedStep
<1>3. Inv /\ Listing => EntriesListed
  <2> SUFFICES ASSUME Inv, Listing, NEW c \in Conn, Lone(c),
                      \A p \in Proc : ~Removing(p, UserOf[c]), NEW k \in User
               PROVE  Occurrences(hub[k], c) <= Backing(c, k)
    BY DEF EntriesListed, Backing
  <2>1. Consumer \in Proc /\ c \in Proc /\ Subject(c) = UserOf[c]
    BY Subjects DEF Proc
  <2>2. Occurrences(hub[k], c) <= Backing(c, k) + Owed(c, k)
    BY <2>1 DEF Listed
  <2>3. Owed(c, k) = 0
    BY <2>1 DEF Owed, Removing
  <2> QED BY <2>2, <2>3, CountsTyped DEF Counted
<1> QED
  BY <1>1, <1>2, <1>3, InitInv, NextInv, PTL DEF Spec
=============================================================================
