------------------------------ MODULE HubProofs ------------------------------
(***************************************************************************)
(* Lemmas about the operations on a hub, for every set of connections,     *)
(* users and conversations, and the facts about sequences they rest on.    *)
(***************************************************************************)
EXTENDS Hub, SequenceTheorems, FiniteSetTheorems, TLAPS

(***************************************************************************)
(* Lemmas about sets of naturals and sequences                             *)
(***************************************************************************)

\* A non-empty set of naturals has a smallest element, which Min returns. The
\* sets {y \in S : y <= x} are finite, so one of them is minimal for inclusion.
LEMMA MinProperties ==
    ASSUME NEW S, S \subseteq Nat, S # {}
    PROVE  /\ Min(S) \in S
           /\ \A n \in S : Min(S) <= n
<1> DEFINE Below(x) == {y \in S : y <= x}
           Belows == {Below(x) : x \in S}
           R == StrictSubsetOrdering(S)
<1>1. \A x \in S : IsFiniteSet(Below(x))
  <2> TAKE x \in S
  <2>1. Below(x) \in SUBSET Nat /\ x \in Nat /\ \A y \in Below(x) : y <= x
    OBVIOUS
  <2> HIDE DEF Below
  <2> QED BY <2>1, FS_BoundedSetOfNaturals
<1>2. Belows \subseteq FiniteSubsetsOf(S) /\ Belows # {}
  BY <1>1 DEF FiniteSubsetsOf
<1>3. PICK B \in Belows : \A C \in Belows : <<C, B>> \notin R
  <2> HIDE DEF Belows, R
  <2>1. IsWellFoundedOn(R, FiniteSubsetsOf(S))
    BY FS_StrictSubsetOrderingWellFounded DEF R
  <2> QED BY <1>2, <2>1, WFMin
<1>4. PICK m \in S : B = Below(m)
  OBVIOUS
<1>5. \A n \in S : m <= n
  <2> SUFFICES ASSUME NEW n \in S, n < m PROVE FALSE
    OBVIOUS
  <2>1. /\ n \in Nat /\ m \in Nat
        /\ \A y \in S : y \in Nat /\ (y <= n => y <= m)
        /\ m <= m /\ ~(m <= n)
    OBVIOUS
  <2>2. Below(n) \subseteq Below(m) /\ m \in Below(m) /\ m \notin Below(n)
    BY <2>1, Zenon
  <2>3. <<Below(n), Below(m)>> \in R
    BY <2>2 DEF StrictSubsetOrdering
  <2> QED BY <1>3, <1>4, <2>3
<1> QED
  BY <1>5 DEF Min

\* Taking the i-th element out of a sequence shifts the ones after it.
LEMMA RemoveAtProperties ==
    ASSUME NEW X, NEW s \in Seq(X), NEW i \in DOMAIN s
    PROVE  /\ RemoveAt(s, i) \in Seq(X)
           /\ Len(RemoveAt(s, i)) = Len(s) - 1
           /\ \A j \in 1..(Len(s) - 1) :
                 RemoveAt(s, i)[j] = IF j < i THEN s[j] ELSE s[j + 1]
<1> DEFINE front == SubSeq(s, 1, i - 1)
           back == SubSeq(s, i + 1, Len(s))
<1>1. /\ i \in 1..Len(s) /\ i \in Int /\ Len(s) \in Nat
      /\ \A j \in 1..Len(s) : s[j] \in X
  OBVIOUS
<1>2. front \in Seq(X) /\ Len(front) = i - 1 /\ \A j \in 1..(i - 1) : front[j] = s[j]
  BY <1>1, SubSeqProperties
<1>3. /\ back \in Seq(X) /\ Len(back) = Len(s) - i
      /\ \A j \in 1..(Len(s) - i) : back[j] = s[i + j]
  BY <1>1, SubSeqProperties
<1> HIDE DEF front, back
<1>4. /\ front \o back \in Seq(X)
      /\ Len(front \o back) = Len(s) - 1
      /\ \A j \in 1..(Len(s) - 1) :
            (front \o back)[j] = IF j <= i - 1 THEN front[j] ELSE back[j - (i - 1)]
  BY <1>1, <1>2, <1>3, ConcatProperties
<1>5. \A j \in 1..(Len(s) - 1) :
         (front \o back)[j] = IF j < i THEN s[j] ELSE s[j + 1]
  <2> TAKE j \in 1..(Len(s) - 1)
  <2>1. CASE j < i
    BY <1>1, <1>2, <1>4, <2>1
  <2>2. CASE ~(j < i)
    <3>1. /\ ~(j <= i - 1)
          /\ j - (i - 1) \in 1..(Len(s) - i)
          /\ i + (j - (i - 1)) = j + 1
      BY <1>1, <2>2
    <3>2. back[j - (i - 1)] = s[j + 1]
      BY <1>3, <3>1
    <3> QED BY <1>4, <2>2, <3>1, <3>2
  <2> QED BY <2>1, <2>2
<1> QED
  BY <1>4, <1>5 DEF RemoveAt, front, back

\* The entries of a user in a slice are positions of it.
LEMMA FirstEntry ==
    ASSUME NEW q \in Seq(Conn), NEW u, EntriesOf(q, u) # {}
    PROVE  Min(EntriesOf(q, u)) \in DOMAIN q
<1>1. EntriesOf(q, u) \subseteq Nat
  BY DEF EntriesOf
<1>2. Min(EntriesOf(q, u)) \in EntriesOf(q, u)
  BY <1>1, MinProperties
<1> QED
  BY <1>2 DEF EntriesOf

(***************************************************************************)
(* The operations                                                          *)
(***************************************************************************)

\* Being registered is standing somewhere in a slice.
LEMMA RegisteredMeans ==
    ASSUME NEW h \in Hubs, NEW c
    PROVE  Registered(h, c) <=> \E k \in Conv : \E i \in DOMAIN h[k] : h[k][i] = c
BY DEF Registered, ToSet

\* Registering keeps the hub's type, adds the one connection, and keeps the hub
\* sound if that connection was not there.
LEMMA RegisterProperties ==
    ASSUME NEW h \in Hubs, NEW k \in Conv, NEW c \in Conn
    PROVE  /\ Register(h, k, c) \in Hubs
           /\ \A d : Registered(Register(h, k, c), d) => Registered(h, d) \/ d = c
           /\ SoundHub(h) /\ ~Registered(h, c) /\ ConvOf[c] = k
                => SoundHub(Register(h, k, c))
<1> DEFINE g == Register(h, k, c)
<1>1. /\ k \in Conv /\ h[k] \in Seq(Conn)
      /\ Append(h[k], c) \in Seq(Conn)
      /\ Len(Append(h[k], c)) = Len(h[k]) + 1
      /\ \A i \in 1..Len(h[k]) : Append(h[k], c)[i] = h[k][i]
      /\ Append(h[k], c)[Len(h[k]) + 1] = c
  BY AppendProperties DEF Hubs
<1>2. /\ g \in Hubs
      /\ g[k] = Append(h[k], c)
      /\ \A j \in Conv : j # k => g[j] = h[j]
  BY <1>1 DEF Register, Hubs
<1>3. DOMAIN h[k] = 1..Len(h[k]) /\ DOMAIN g[k] = 1..(Len(h[k]) + 1)
  BY <1>1, <1>2
<1> HIDE DEF g
<1>4. ASSUME NEW d, Registered(g, d), d # c PROVE Registered(h, d)
  <2>0. PICK j \in Conv : \E i \in DOMAIN g[j] : g[j][i] = d
    BY <1>2, <1>4, RegisteredMeans
  <2>1. PICK i \in DOMAIN g[j] : g[j][i] = d
    BY <2>0
  <2>2. i \in DOMAIN h[j] /\ h[j][i] = d
    BY <1>1, <1>2, <1>3, <1>4, <2>1
  <2> QED BY <2>2, RegisteredMeans
<1>5. ASSUME SoundHub(h), ~Registered(h, c), ConvOf[c] = k PROVE SoundHub(g)
  <2>1. \A i \in DOMAIN h[k] : h[k][i] # c
    BY <1>1, <1>5, RegisteredMeans
  <2>2. ASSUME NEW j \in Conv, NEW i \in DOMAIN g[j] PROVE ConvOf[g[j][i]] = j
    <3>1. CASE j # k
      <4>1. g[j] = h[j]
        BY <1>2, <3>1
      <4> QED BY <1>5, <2>2, <4>1 DEF SoundHub
    <3>2. CASE j = k /\ i \in DOMAIN h[k]
      BY <1>1, <1>2, <1>3, <1>5, <3>2 DEF SoundHub
    <3>3. CASE j = k /\ i = Len(h[k]) + 1
      BY <1>1, <1>2, <1>3, <1>5, <3>3
    <3> QED BY <1>1, <1>2, <1>3, <2>2, <3>1, <3>2, <3>3
  <2>3. ASSUME NEW j \in Conv, NEW a \in DOMAIN g[j], NEW b \in DOMAIN g[j],
               g[j][a] = g[j][b]
        PROVE  a = b
    <3>1. CASE j # k
      BY <1>2, <1>5, <2>3, <3>1 DEF SoundHub
    <3>2. CASE j = k
      <4>1. a \in 1..(Len(h[k]) + 1) /\ b \in 1..(Len(h[k]) + 1) /\ Len(h[k]) \in Nat
        BY <1>1, <1>3, <2>3, <3>2
      <4>2. CASE a \in 1..Len(h[k]) /\ b \in 1..Len(h[k])
        BY <1>1, <1>2, <1>3, <1>5, <2>3, <3>2, <4>2 DEF SoundHub
      <4>3. CASE a = Len(h[k]) + 1 \/ b = Len(h[k]) + 1
        BY <1>1, <1>2, <1>3, <2>1, <2>3, <3>2, <4>1, <4>3
      <4> QED BY <4>1, <4>2, <4>3
    <3> QED BY <3>1, <3>2
  <2> QED BY <2>2, <2>3 DEF SoundHub
<1> QED
  BY <1>2, <1>4, <1>5 DEF g

\* Registering takes no entry away.
LEMMA RegisterKeeps ==
    ASSUME NEW h \in Hubs, NEW k \in Conv, NEW c \in Conn, NEW d, Registered(h, d)
    PROVE  Registered(Register(h, k, c), d)
<1> DEFINE g == Register(h, k, c)
<1>1. g \in Hubs
  BY RegisterProperties
<1>2. /\ DOMAIN h[k] = 1..Len(h[k]) /\ Len(h[k]) \in Nat
      /\ DOMAIN Append(h[k], c) = 1..(Len(h[k]) + 1)
      /\ \A i \in 1..Len(h[k]) : Append(h[k], c)[i] = h[k][i]
  BY AppendProperties DEF Hubs
<1>3. \A j \in Conv : g[j] = IF j = k THEN Append(h[k], c) ELSE h[j]
  BY DEF Register, Hubs
<1> HIDE DEF g
<1>4. PICK j \in Conv : \E i \in DOMAIN h[j] : h[j][i] = d
  BY RegisteredMeans
<1>5. PICK i \in DOMAIN h[j] : h[j][i] = d
  BY <1>4
<1>6. i \in DOMAIN g[j] /\ g[j][i] = d
  <2>1. CASE j = k
    <3>1. i \in 1..Len(h[k]) /\ h[k][i] = d
      BY <1>2, <1>5, <2>1
    <3>2. i \in 1..(Len(h[k]) + 1)
      BY <1>2, <3>1
    <3>3. g[j] = Append(h[k], c)
      BY <1>3, <2>1
    <3> QED BY <1>2, <3>1, <3>2, <3>3
  <2>2. CASE j # k
    BY <1>3, <1>5, <2>2
  <2> QED BY <2>1, <2>2
<1> QED
  BY <1>1, <1>6, RegisteredMeans DEF g

\* Registering enters the connection.
LEMMA RegisterEnters ==
    ASSUME NEW h \in Hubs, NEW k \in Conv, NEW c \in Conn
    PROVE  Registered(Register(h, k, c), c)
<1> DEFINE g == Register(h, k, c)
<1>1. /\ h[k] \in Seq(Conn) /\ Len(h[k]) \in Nat
      /\ Len(Append(h[k], c)) = Len(h[k]) + 1
      /\ DOMAIN Append(h[k], c) = 1..(Len(h[k]) + 1)
      /\ Append(h[k], c)[Len(h[k]) + 1] = c
  BY AppendProperties DEF Hubs
<1>2. g \in Hubs /\ g[k] = Append(h[k], c)
  BY <1>1, RegisterProperties DEF Register, Hubs
<1> HIDE DEF g
<1>3. Len(h[k]) + 1 \in DOMAIN g[k]
  BY <1>1, <1>2
<1> QED
  BY <1>1, <1>2, <1>3, RegisteredMeans DEF g

\* Unregistering keeps the hub's type, adds nobody and keeps the hub sound.
LEMMA UnregisterProperties ==
    ASSUME NEW h \in Hubs, NEW k \in Conv, NEW u
    PROVE  /\ Unregister(h, k, u) \in Hubs
           /\ \A d : Registered(Unregister(h, k, u), d) => Registered(h, d)
           /\ SoundHub(h) => SoundHub(Unregister(h, k, u))
<1>1. CASE EntriesOf(h[k], u) = {}
  BY <1>1 DEF Unregister
<1>2. CASE EntriesOf(h[k], u) # {}
  <2> DEFINE q == h[k]
             m == Min(EntriesOf(q, u))
             r == RemoveAt(q, m)
             g == Unregister(h, k, u)
  <2>1. q \in Seq(Conn) /\ m \in DOMAIN q
    BY <1>2, FirstEntry DEF Hubs
  <2>2. /\ r \in Seq(Conn)
        /\ Len(r) = Len(q) - 1
        /\ \A j \in 1..(Len(q) - 1) : r[j] = IF j < m THEN q[j] ELSE q[j + 1]
    <3> HIDE DEF q, m
    <3> QED BY <2>1, RemoveAtProperties
  <2>3. /\ g \in Hubs
        /\ g[k] = r
        /\ \A j \in Conv : j # k => g[j] = h[j]
    BY <1>2, <2>2 DEF Unregister, Hubs
  <2> HIDE DEF m, r, g
  \* The entry at i in the shorter slice came from position Old(i).
  <2> DEFINE Old(i) == IF i < m THEN i ELSE i + 1
  <2>4. /\ DOMAIN q = 1..Len(q) /\ Len(q) \in Nat /\ m \in 1..Len(q)
        /\ DOMAIN g[k] = 1..(Len(q) - 1)
    BY <2>1, <2>2, <2>3
  <2>5. \A i \in DOMAIN g[k] : Old(i) \in DOMAIN q /\ g[k][i] = q[Old(i)]
    BY <2>2, <2>3, <2>4
  <2>6. \A a, b \in DOMAIN g[k] : Old(a) = Old(b) => a = b
    BY <2>4
  <2> HIDE DEF Old, q
  <2>7. ASSUME NEW d, Registered(g, d) PROVE Registered(h, d)
    <3>1. PICK j \in Conv : \E i \in DOMAIN g[j] : g[j][i] = d
      BY <2>3, <2>7, RegisteredMeans
    <3>2. \E i2 \in DOMAIN h[j] : h[j][i2] = d
      BY <2>3, <2>5, <3>1 DEF q
    <3> QED BY <3>2, RegisteredMeans
  <2>8. ASSUME SoundHub(h) PROVE SoundHub(g)
    <3>1. ASSUME NEW j \in Conv, NEW i \in DOMAIN g[j] PROVE ConvOf[g[j][i]] = j
      BY <2>3, <2>5, <2>8, <3>1 DEF SoundHub, q
    <3>2. ASSUME NEW j \in Conv, NEW a \in DOMAIN g[j], NEW b \in DOMAIN g[j],
                 g[j][a] = g[j][b]
          PROVE  a = b
      BY <2>3, <2>5, <2>6, <2>8, <3>2 DEF SoundHub, q
    <3> QED BY <3>1, <3>2 DEF SoundHub
  <2> QED BY <2>3, <2>7, <2>8 DEF g
<1> QED
  BY <1>1, <1>2

\* In a sound hub only a connection of the user in the conversation loses its
\* entry.
LEMMA UnregisterLoses ==
    ASSUME NEW h \in Hubs, NEW k \in Conv, NEW u, NEW d,
           SoundHub(h), Registered(h, d), ~Registered(Unregister(h, k, u), d)
    PROVE  UserOf[d] = u /\ ConvOf[d] = k
<1>1. EntriesOf(h[k], u) # {}
  BY DEF Unregister
<1> DEFINE q == h[k]
           m == Min(EntriesOf(q, u))
           g == [h EXCEPT ![k] = RemoveAt(q, m)]
<1>2. q \in Seq(Conn) /\ m \in EntriesOf(q, u) /\ m \in DOMAIN q
  <2>1. q \in Seq(Conn) /\ EntriesOf(q, u) \subseteq Nat
    BY DEF Hubs, EntriesOf
  <2>2. m \in EntriesOf(q, u)
    BY <1>1, <2>1, MinProperties
  <2> QED
    BY <2>1, <2>2 DEF EntriesOf
<1> HIDE DEF m
<1>3. g \in Hubs /\ ~Registered(g, d)
  <2>1. g = Unregister(h, k, u)
    BY <1>1 DEF Unregister, m
  <2>2. Unregister(h, k, u) \in Hubs
    BY UnregisterProperties
  <2> HIDE DEF g
  <2> QED BY <2>1, <2>2
<1>4. PICK j \in Conv : \E i \in DOMAIN h[j] : h[j][i] = d
  BY RegisteredMeans
<1>5. PICK i \in DOMAIN h[j] : h[j][i] = d
  BY <1>4
<1>6. j = k
  <2> SUFFICES ASSUME j # k PROVE FALSE
    OBVIOUS
  <2>1. g[j] = h[j]
    BY DEF Hubs
  <2> QED
    BY <1>3, <1>5, <2>1, RegisteredMeans
<1>7. i = m
  <2> SUFFICES ASSUME i # m PROVE FALSE
    OBVIOUS
  <2> HIDE DEF q
  <2>1. /\ RemoveAt(q, m) \in Seq(Conn)
        /\ Len(RemoveAt(q, m)) = Len(q) - 1
        /\ \A n \in 1..(Len(q) - 1) :
              RemoveAt(q, m)[n] = IF n < m THEN q[n] ELSE q[n + 1]
    BY <1>2, RemoveAtProperties
  <2>2. g[k] = RemoveAt(q, m)
    BY DEF Hubs, q
  <2>3. i \in 1..Len(q) /\ m \in 1..Len(q) /\ Len(q) \in Nat /\ q[i] = d
    BY <1>2, <1>5, <1>6 DEF q
  <2>4. \E n \in DOMAIN g[k] : g[k][n] = d
    <3>1. CASE i < m
      <4>1. i \in 1..(Len(q) - 1)
        BY <2>3, <3>1
      <4> QED BY <2>1, <2>2, <2>3, <3>1, <4>1
    <3>2. CASE i > m
      <4>1. i - 1 \in 1..(Len(q) - 1) /\ ~(i - 1 < m) /\ (i - 1) + 1 = i
        BY <2>3, <3>2
      <4> QED BY <2>1, <2>2, <2>3, <4>1
    <3> QED BY <2>3, <3>1, <3>2
  <2> QED
    BY <1>3, <2>4, RegisteredMeans
<1> QED
  BY <1>2, <1>5, <1>6, <1>7 DEF EntriesOf, SoundHub

\* The only connection of its user has no entry left once one of the user's is
\* deleted.
LEMMA UnregisterLone ==
    ASSUME NEW h \in Hubs, NEW c \in Conn, SoundHub(h),
           \A d \in Conn \ {c} : <<UserOf[d], ConvOf[d]>> # <<UserOf[c], ConvOf[c]>>
    PROVE  ~Registered(Unregister(h, ConvOf[c], UserOf[c]), c)
<1> DEFINE k == ConvOf[c]
           u == UserOf[c]
           q == h[k]
           m == Min(EntriesOf(q, u))
           r == RemoveAt(q, m)
           g == Unregister(h, k, u)
<1>0. k \in Conv
  BY ConvOfAssumption
<1> HIDE DEF k, u
<1> SUFFICES ASSUME Registered(g, c) PROVE FALSE
  BY DEF k, u
<1>1. g \in Hubs /\ SoundHub(g)
  BY <1>0, UnregisterProperties
<1>2. PICK i \in DOMAIN g[k] : g[k][i] = c
  <2> HIDE DEF g
  <2> QED BY <1>1, RegisteredMeans DEF SoundHub, k
<1>3. EntriesOf(q, u) # {}
  <2>1. CASE g = h
    BY <1>2, <2>1 DEF EntriesOf, u
  <2>2. CASE g # h
    BY <2>2 DEF Unregister
  <2> QED BY <2>1, <2>2
<1>4. q \in Seq(Conn) /\ m \in EntriesOf(q, u) /\ m \in DOMAIN q
  <2>1. q \in Seq(Conn) /\ EntriesOf(q, u) \subseteq Nat
    BY <1>0 DEF Hubs, EntriesOf
  <2>2. m \in EntriesOf(q, u)
    BY <1>3, <2>1, MinProperties
  <2> QED
    BY <2>1, <2>2 DEF EntriesOf
<1>5. q[m] = c
  <2>1. ConvOf[q[m]] = k
    BY <1>0, <1>4 DEF SoundHub
  <2> HIDE DEF m, q
  <2>2. q[m] \in Conn /\ UserOf[q[m]] = u
    BY <1>4 DEF EntriesOf
  <2> QED
    BY <2>1, <2>2 DEF k, u
<1>6. g[k] = r
  BY <1>0, <1>3 DEF Unregister, Hubs
<1> HIDE DEF m, g
<1>7. PICK j \in DOMAIN q : j # m /\ q[j] = c
  <2> HIDE DEF q
  <2>1. /\ r \in Seq(Conn)
        /\ Len(r) = Len(q) - 1
        /\ \A n \in 1..(Len(q) - 1) : r[n] = IF n < m THEN q[n] ELSE q[n + 1]
    BY <1>4, RemoveAtProperties
  <2>2. i \in 1..(Len(q) - 1) /\ r[i] = c /\ m \in 1..Len(q) /\ Len(q) \in Nat
    BY <1>2, <1>4, <1>6, <2>1
  <2>3. CASE i < m
    <3>1. i \in 1..Len(q)
      BY <2>2
    <3> QED BY <1>4, <2>1, <2>2, <2>3, <3>1
  <2>4. CASE ~(i < m)
    <3>1. i + 1 \in 1..Len(q) /\ i + 1 # m
      BY <2>2, <2>4
    <3> QED BY <1>4, <2>1, <2>2, <2>4, <3>1
  <2> QED BY <2>3, <2>4
<1> QED
  BY <1>0, <1>4, <1>5, <1>7 DEF SoundHub

\* Dropping a conversation takes away the entries under it alone.
LEMMA DropLoses ==
    ASSUME NEW h \in Hubs, NEW k \in Conv, NEW d,
           Registered(h, d), ~Registered([h EXCEPT ![k] = << >>], d)
    PROVE  \E i \in DOMAIN h[k] : h[k][i] = d
<1> DEFINE g == [h EXCEPT ![k] = << >>]
<1>1. g \in Hubs /\ (\A j \in Conv : j # k => g[j] = h[j]) /\ ~Registered(g, d)
  BY DEF Hubs
<1> HIDE DEF g
<1>2. PICK j \in Conv : \E i \in DOMAIN h[j] : h[j][i] = d
  BY RegisteredMeans
<1>3. j = k
  BY <1>1, <1>2, RegisteredMeans
<1> QED
  BY <1>2, <1>3

\* Dropping a whole conversation keeps the hub's type, adds nobody and keeps the
\* hub sound.
LEMMA DropConversation ==
    ASSUME NEW h \in Hubs, NEW k \in Conv
    PROVE  /\ [h EXCEPT ![k] = << >>] \in Hubs
           /\ \A d : Registered([h EXCEPT ![k] = << >>], d) => Registered(h, d)
           /\ SoundHub(h) => SoundHub([h EXCEPT ![k] = << >>])
<1> DEFINE g == [h EXCEPT ![k] = << >>]
<1>1. /\ g \in Hubs /\ g[k] = << >> /\ DOMAIN g[k] = {}
      /\ \A j \in Conv : j # k => g[j] = h[j]
  BY DEF Hubs
<1> HIDE DEF g
<1>2. \A d : Registered(g, d) => Registered(h, d)
  BY <1>1, RegisteredMeans
<1>3. SoundHub(h) => SoundHub(g)
  BY <1>1 DEF SoundHub
<1> QED
  BY <1>1, <1>2, <1>3 DEF g
===============================================================================
