--------------------------- MODULE CollectorsProofs ---------------------------
(***************************************************************************)
(* Theorems about Collectors for every number of users: the wait group     *)
(* counts the goroutines that are under way, so that the handler returns   *)
(* after the last of them, and the list is complete then.                  *)
(***************************************************************************)
EXTENDS CollectorsProperties, FiniteSetTheorems, SequenceTheorems, TLAPS

(***************************************************************************)
(* The invariant                                                           *)
(***************************************************************************)

UnderWay == {u \in Users : pc[u] \notin {"none", "done"}}

\* Users before next have their goroutine; the wait group counts them.
Counted ==
    /\ wg = Cardinality(UnderWay)
    /\ \A u \in Users : pc[u] = "none" <=> mode = "sequential" \/ next <= u
    /\ main \in {"querying", "failed"} => next = 1
    /\ main = "returned" => next = N + 1 /\ wg = 0

\* Who appends holds the mutex, and has read what the list still is.
Locked(u) == pc[u] \in {"locked", "appending", "appended"}

Exclusive ==
    /\ \A u \in Users : Locked(u) <=> mu = u
    /\ mu # Nil => mode = "mutex"
    /\ \A u \in Users : pc[u] = "appending" => read[u] = list

\* What each variant's list holds on the way.
Alone == mode = "sequential" => Len(list) = next - 1 /\ \A i \in DOMAIN list : list[i] = i

AtIndex ==
    mode = "indexed" /\ main \in {"looping", "returned"} =>
        /\ Len(list) = N
        /\ \A u \in Users : pc[u] \in {"stored", "done"} => list[u] = u

UnderMutex ==
    mode = "mutex" =>
        /\ \A i \in DOMAIN list : list[i] \in Users /\ pc[list[i]] \in {"appended", "stored", "done"}
        /\ \A i, j \in DOMAIN list : list[i] = list[j] => i = j
        /\ \A u \in Users : pc[u] \in {"appended", "stored", "done"} =>
              \E i \in DOMAIN list : list[i] = u

Unasked == main \in {"querying", "failed"} => list = << >>

Inv == TypeOK /\ Counted /\ Exclusive /\ Alone /\ AtIndex /\ UnderMutex /\ Unasked

LEMMA UsersFinite == IsFiniteSet(Users) /\ Cardinality(Users) = N
BY NAssumption, FS_Interval DEF Users

LEMMA InitInv == Init => Inv
<1> SUFFICES ASSUME Init PROVE Inv
  OBVIOUS
<1> USE NAssumption
<1>1. TypeOK
  BY DEF Init, TypeOK, Users, Nil
<1>2. Counted
  <2>1. UnderWay = {}
    BY DEF Init, UnderWay
  <2>2. Cardinality(UnderWay) = 0
    BY <2>1, FS_EmptySet
  <2> QED BY <2>2 DEF Init, Counted, Users
<1>3. Exclusive
  BY DEF Init, Exclusive, Locked, Nil, Users
<1>4. Alone /\ AtIndex /\ UnderMutex /\ Unasked
  BY DEF Init, Alone, AtIndex, UnderMutex, Unasked
<1> QED
  BY <1>1, <1>2, <1>3, <1>4 DEF Inv

(***************************************************************************)
(* The handler's steps                                                     *)
(***************************************************************************)

LEMMA UnderWayFinite == IsFiniteSet(UnderWay) /\ Cardinality(UnderWay) \in 0..N
<1>1. UnderWay \in SUBSET Users
  BY DEF UnderWay
<1>2. IsFiniteSet(UnderWay) /\ Cardinality(UnderWay) <= N
  BY <1>1, UsersFinite, FS_Subset
<1> QED
  BY <1>2, FS_CardinalityType, NAssumption

LEMMA QueryInv == Inv /\ (Query \/ QueryFails) => Inv'
<1> SUFFICES ASSUME Inv, Query \/ QueryFails PROVE Inv'
  OBVIOUS
<1> USE NAssumption DEF Inv
<1>1. main = "querying" /\ next = 1 /\ list = << >> /\ UNCHANGED <<mode, next, pc, read, mu, wg>>
  BY DEF Query, QueryFails, Counted, Unasked
<1>2. /\ list' \in {<< >>, [u \in Users |-> Nil]}
      /\ main' = "failed" => list' = << >>
      /\ main' \in {"looping", "failed"}
      /\ main' = "looping" /\ mode = "indexed" => list' = [u \in Users |-> Nil]
      /\ mode # "indexed" => list' = << >>
  BY <1>1 DEF Query, QueryFails
<1>3. [u \in Users |-> Nil] \in Seq(Users \union {Nil}) /\ Len([u \in Users |-> Nil]) = N
  BY SeqDef DEF Users
<1>4. UnderWay' = UnderWay
  BY <1>1 DEF UnderWay
<1>5. TypeOK'
  BY <1>1, <1>2, <1>3 DEF TypeOK
<1>6. \A u \in Users : pc[u] \notin {"stored", "done", "appended", "appending"}
  BY <1>1 DEF Counted, Users
<1>7. Counted'
  BY <1>1, <1>2, <1>4 DEF Counted
<1>8. Exclusive'
  BY <1>1, <1>6 DEF Exclusive, Locked
<1>9. Alone' /\ AtIndex' /\ UnderMutex' /\ Unasked'
  BY <1>1, <1>2, <1>3, <1>6 DEF Alone, AtIndex, UnderMutex, Unasked
<1> QED
  BY <1>5, <1>7, <1>8, <1>9

LEMMA SpawnInv == Inv /\ Spawn => Inv'
<1> SUFFICES ASSUME Inv, Spawn PROVE Inv'
  OBVIOUS
<1> USE NAssumption DEF Inv
<1>1. /\ main = "looping" /\ mode # "sequential" /\ next <= N /\ wg' = wg + 1
      /\ pc' = [pc EXCEPT ![next] = "started"] /\ next' = next + 1
      /\ UNCHANGED <<mode, main, list, read, mu>>
  BY DEF Spawn
<1>2. next \in Users /\ next \in Nat
  BY <1>1 DEF TypeOK, Users
<1>3. pc[next] = "none"
  BY <1>1, <1>2 DEF Counted
<1>4. pc'[next] = "started" /\ \A u \in Users \ {next} : pc'[u] = pc[u]
  BY <1>1, <1>2 DEF TypeOK
<1>5. UnderWay' = UnderWay \cup {next} /\ next \notin UnderWay
  BY <1>2, <1>3, <1>4 DEF UnderWay
<1>6. wg' = Cardinality(UnderWay') /\ wg' \in 0..N
  <2>1. Cardinality(UnderWay') = Cardinality(UnderWay) + 1
    BY <1>5, UnderWayFinite, FS_AddElement
  <2>2. wg' = Cardinality(UnderWay')
    BY <1>1, <2>1 DEF Counted
  <2>3. UnderWay' \in SUBSET Users
    BY DEF UnderWay
  <2> QED
    BY <2>2, <2>3, UsersFinite, FS_Subset, FS_CardinalityType
<1>7. TypeOK'
  BY <1>1, <1>2, <1>6 DEF TypeOK
<1>8. Counted'
  <2>1. ASSUME NEW u \in Users
        PROVE  pc'[u] = "none" <=> mode' = "sequential" \/ next' <= u
    <3>1. CASE u = next
      BY <1>1, <1>2, <1>4, <3>1
    <3>2. CASE u # next
      <4>1. next <= u <=> next + 1 <= u
        BY <1>2, <3>2 DEF Users
      <4> QED BY <1>1, <1>4, <3>2, <4>1 DEF Counted
    <3> QED BY <3>1, <3>2
  <2> QED
    BY <1>1, <1>6, <2>1 DEF Counted
<1>9. Exclusive'
  BY <1>1, <1>3, <1>4 DEF Exclusive, Locked
<1>10. Alone' /\ Unasked'
  BY <1>1 DEF Alone, Unasked
<1>11. AtIndex'
  BY <1>1, <1>3, <1>4 DEF AtIndex
<1>12. UnderMutex'
  <2>1. \A u \in Users : pc'[u] \in {"appended", "stored", "done"}
                            <=> pc[u] \in {"appended", "stored", "done"}
    BY <1>3, <1>4
  <2> QED
    BY <1>1, <2>1 DEF UnderMutex
<1> QED
  BY <1>7, <1>8, <1>9, <1>10, <1>11, <1>12

LEMMA AppendAloneInv == Inv /\ AppendAlone => Inv'
<1> SUFFICES ASSUME Inv, AppendAlone PROVE Inv'
  OBVIOUS
<1> USE NAssumption DEF Inv
<1>1. /\ main = "looping" /\ mode = "sequential" /\ next <= N
      /\ list' = Append(list, next) /\ next' = next + 1
      /\ UNCHANGED <<mode, main, pc, read, mu, wg>>
  BY DEF AppendAlone
<1>2. next \in Users /\ next \in Nat
  BY <1>1 DEF TypeOK, Users
<1>3. /\ list' \in Seq(Users \union {Nil}) /\ Len(list') = Len(list) + 1 /\ Len(list) \in Nat
      /\ \A i \in 1..Len(list) : list'[i] = list[i]
      /\ list'[Len(list) + 1] = next
      /\ DOMAIN list = 1..Len(list) /\ DOMAIN list' = 1..(Len(list) + 1)
  BY <1>1, <1>2, AppendProperties DEF TypeOK
<1>4. UnderWay' = UnderWay
  BY <1>1 DEF UnderWay
<1>5. TypeOK'
  BY <1>1, <1>2, <1>3 DEF TypeOK
<1>6. Counted' /\ Unasked'
  BY <1>1, <1>4 DEF Counted, Unasked
<1>7. Alone'
  BY <1>1, <1>2, <1>3 DEF Alone
<1>8. Exclusive' /\ AtIndex' /\ UnderMutex'
  BY <1>1 DEF Exclusive, Locked, AtIndex, UnderMutex, Counted
<1> QED
  BY <1>5, <1>6, <1>7, <1>8

LEMMA ReturnInv == Inv /\ Return => Inv'
<1> SUFFICES ASSUME Inv, Return PROVE Inv'
  OBVIOUS
<1> USE NAssumption DEF Inv
<1>1. /\ main = "looping" /\ next > N /\ wg = 0 /\ main' = "returned"
      /\ UNCHANGED <<mode, next, pc, list, read, mu, wg>>
  BY DEF Return
<1>2. UnderWay' = UnderWay
  BY <1>1 DEF UnderWay
<1>3. TypeOK'
  BY <1>1 DEF TypeOK
<1>4. Counted'
  <2>1. next = N + 1
    BY <1>1 DEF TypeOK
  <2> QED BY <1>1, <1>2, <2>1 DEF Counted
<1>5. Exclusive' /\ Alone' /\ AtIndex' /\ UnderMutex' /\ Unasked'
  BY <1>1 DEF Exclusive, Locked, Alone, AtIndex, UnderMutex, Unasked
<1> QED
  BY <1>3, <1>4, <1>5

(***************************************************************************)
(* The goroutines' steps                                                   *)
(***************************************************************************)

\* A goroutine that stays under way.
LEMMA MoveCounted ==
    ASSUME Inv, NEW u \in Users, NEW from, NEW to, Goto(u, from, to),
           from \notin {"none", "done"}, to \notin {"none", "done"},
           UNCHANGED <<mode, main, next, wg>>
    PROVE  /\ Counted' /\ wg' \in 0..N
           /\ pc'[u] = to /\ \A v \in Users \ {u} : pc'[v] = pc[v]
<1>1. pc'[u] = to /\ \A v \in Users \ {u} : pc'[v] = pc[v]
  BY DEF Goto, Inv, TypeOK
<1>2. UnderWay' = UnderWay
  BY <1>1 DEF UnderWay, Goto
<1>3. ASSUME NEW v \in Users PROVE pc'[v] = "none" <=> pc[v] = "none"
  BY <1>1 DEF Goto
<1> QED
  BY <1>1, <1>2, <1>3, UnderWayFinite DEF Inv, TypeOK, Counted

\* A goroutine runs while the handler loops or waits, and only if there are any.
LEMMA Running ==
    ASSUME Inv, NEW u \in Users, pc[u] \notin {"none", "done"}
    PROVE  main = "looping" /\ mode # "sequential"
<1>1. u \in UnderWay /\ wg = Cardinality(UnderWay)
  BY DEF UnderWay, Inv, Counted
<1>2. wg # 0
  BY <1>1, UnderWayFinite, FS_EmptySet
<1>3. mode # "sequential" /\ ~(next <= u)
  BY DEF Inv, Counted
<1> QED
  BY <1>2, <1>3 DEF Inv, Counted, TypeOK, Users

LEMMA StoreInv == ASSUME Inv, NEW u \in Users, StoreAtIndex(u) PROVE Inv'
<1> USE NAssumption DEF Inv
<1>1. /\ mode = "indexed" /\ Goto(u, "started", "stored") /\ list' = [list EXCEPT ![u] = u]
      /\ UNCHANGED <<mode, main, next, read, mu, wg>>
  BY DEF StoreAtIndex
<1>2. /\ Counted' /\ wg' \in 0..N
      /\ pc[u] = "started"
      /\ pc'[u] = "stored" /\ \A v \in Users \ {u} : pc'[v] = pc[v]
  BY <1>1, MoveCounted DEF Goto
<1>3. main = "looping"
  BY <1>2, Running
<1>4. Len(list) = N /\ list \in Seq(Users \union {Nil}) /\ DOMAIN list = Users
  BY <1>1, <1>3 DEF AtIndex, TypeOK, Users
<1>5. /\ list' \in Seq(Users \union {Nil}) /\ Len(list') = N
      /\ list'[u] = u /\ \A v \in Users \ {u} : list'[v] = list[v]
  BY <1>1, <1>4
<1>6. TypeOK'
  BY <1>1, <1>2, <1>5 DEF TypeOK, Goto
<1>7. Exclusive'
  <2>1. mu = Nil
    BY <1>1 DEF Exclusive
  <2>2. \A v \in Users : ~Locked(v)
    BY <2>1, NAssumption DEF Exclusive, Users, Nil
  <2>3. ASSUME NEW v \in Users PROVE ~Locked(v)' /\ pc'[v] # "appending"
    BY <1>2, <2>2 DEF Locked
  <2> QED
    BY <1>1, <2>1, <2>3, NAssumption DEF Exclusive, Users, Nil
<1>8. AtIndex'
  BY <1>1, <1>2, <1>3, <1>5 DEF AtIndex
<1>9. Alone' /\ UnderMutex' /\ Unasked'
  BY <1>1, <1>3 DEF Alone, UnderMutex, Unasked
<1> QED
  BY <1>2, <1>6, <1>7, <1>8, <1>9

\* Locking, reading the slice and unlocking.
LEMMA HoldInv ==
    ASSUME Inv, NEW u \in Users, Lock(u) \/ ReadSlice(u) \/ Unlock(u)
    PROVE  Inv'
<1> USE NAssumption DEF Inv
<1>1. /\ UNCHANGED <<mode, main, next, list, wg>>
      /\ \/ Lock(u) /\ Goto(u, "started", "locked")
         \/ ReadSlice(u) /\ Goto(u, "locked", "appending")
         \/ Unlock(u) /\ Goto(u, "appended", "stored")
  BY DEF Lock, ReadSlice, Unlock
<1>2. /\ Counted' /\ wg' \in 0..N
      /\ pc' = [pc EXCEPT ![u] = pc'[u]]
      /\ pc'[u] \in {"locked", "appending", "stored"}
      /\ \A v \in Users \ {u} : pc'[v] = pc[v]
  BY <1>1, MoveCounted DEF Goto
<1>3. main = "looping" /\ mode = "mutex"
  BY <1>1, Running DEF Goto, Lock, Exclusive, Locked, Users, Nil
<1>4. mu' \in Users \union {Nil} /\ read' \in [Users -> Seq(Users)]
  <2>1. CASE ReadSlice(u)
    <3>1. list \in Seq(Users)
      BY <1>3 DEF UnderMutex, TypeOK
    <3> QED
      BY <2>1, <3>1 DEF ReadSlice, TypeOK
  <2> QED BY <1>1, <2>1 DEF Lock, Unlock, TypeOK
<1>5. TypeOK'
  BY <1>1, <1>2, <1>4 DEF TypeOK
<1>6. Exclusive'
  <2>1. CASE Lock(u)
    <3>1. mu = Nil /\ mu' = u /\ read' = read /\ pc'[u] = "locked"
      BY <1>1, <1>2, <2>1 DEF Lock, Goto, TypeOK
    <3>2. \A v \in Users : ~Locked(v)
      BY <3>1 DEF Exclusive, Users, Nil
    <3> QED
      BY <1>1, <1>2, <1>3, <3>1, <3>2 DEF Exclusive, Locked
  <2>2. CASE ReadSlice(u)
    <3>1. mu' = mu /\ read' = [read EXCEPT ![u] = list] /\ pc[u] = "locked" /\ pc'[u] = "appending"
      BY <1>1, <1>2, <2>2 DEF ReadSlice, Goto, TypeOK
    <3> QED
      BY <1>1, <1>2, <1>3, <3>1 DEF Exclusive, Locked, TypeOK
  <2>3. CASE Unlock(u)
    <3>1. mu' = Nil /\ read' = read /\ pc[u] = "appended" /\ pc'[u] = "stored"
      BY <1>1, <1>2, <2>3 DEF Unlock, Goto, TypeOK
    <3>2. \A v \in Users \ {u} : ~Locked(v)
      BY <3>1 DEF Exclusive, Locked
    <3> QED
      BY <1>1, <1>2, <1>3, <3>1, <3>2 DEF Exclusive, Locked, Users, Nil
  <2> QED BY <1>1, <2>1, <2>2, <2>3
<1>7. UnderMutex'
  <2>1. \A v \in Users : pc'[v] \in {"appended", "stored", "done"}
                            <=> pc[v] \in {"appended", "stored", "done"}
    BY <1>1, <1>2 DEF Goto, TypeOK
  <2> QED BY <1>1, <2>1 DEF UnderMutex
<1>8. Alone' /\ AtIndex' /\ Unasked'
  BY <1>1, <1>3 DEF Alone, AtIndex, Unasked
<1> QED
  BY <1>2, <1>5, <1>6, <1>7, <1>8

LEMMA WriteInv == ASSUME Inv, NEW u \in Users, WriteSlice(u) PROVE Inv'
<1> USE NAssumption DEF Inv
<1>1. /\ Goto(u, "appending", "appended") /\ list' = Append(read[u], u)
      /\ UNCHANGED <<mode, main, next, read, mu, wg>>
  BY DEF WriteSlice
<1>2. /\ Counted' /\ wg' \in 0..N
      /\ pc[u] = "appending"
      /\ pc'[u] = "appended" /\ \A v \in Users \ {u} : pc'[v] = pc[v]
  BY <1>1, MoveCounted DEF Goto
<1>3. main = "looping" /\ mode = "mutex" /\ mu = u /\ read[u] = list
  BY <1>2, Running DEF Exclusive, Locked, Users, Nil
<1>4. list \in Seq(Users)
  BY <1>3 DEF UnderMutex, TypeOK
<1>5. /\ list' \in Seq(Users) /\ Len(list') = Len(list) + 1 /\ Len(list) \in Nat
      /\ \A i \in DOMAIN list : list'[i] = list[i]
      /\ list'[Len(list) + 1] = u
      /\ DOMAIN list = 1..Len(list) /\ DOMAIN list' = DOMAIN list \cup {Len(list) + 1}
  BY <1>1, <1>3, <1>4, AppendProperties
<1>6. TypeOK'
  BY <1>1, <1>2, <1>5 DEF TypeOK, Goto
<1>7. Exclusive'
  <2>1. \A v \in Users \ {u} : ~Locked(v)
    BY <1>3 DEF Exclusive
  <2> QED
    BY <1>1, <1>2, <1>3, <2>1 DEF Exclusive, Locked
<1>8. UnderMutex'
  <2>1. \A i \in DOMAIN list : list[i] \in Users \ {u}
    BY <1>2, <1>3 DEF UnderMutex
  <2>2. \A i \in DOMAIN list' :
            list'[i] \in Users /\ pc'[list'[i]] \in {"appended", "stored", "done"}
    BY <1>2, <1>3, <1>5, <2>1 DEF UnderMutex
  <2>3. \A i, j \in DOMAIN list' : list'[i] = list'[j] => i = j
    BY <1>3, <1>5, <2>1 DEF UnderMutex
  <2>4. \A v \in Users : pc'[v] \in {"appended", "stored", "done"} =>
            \E i \in DOMAIN list' : list'[i] = v
    BY <1>2, <1>3, <1>5 DEF UnderMutex
  <2> QED BY <2>2, <2>3, <2>4 DEF UnderMutex
<1>9. Alone' /\ AtIndex' /\ Unasked'
  BY <1>1, <1>3 DEF Alone, AtIndex, Unasked
<1> QED
  BY <1>2, <1>6, <1>7, <1>8, <1>9

LEMMA DoneInv == ASSUME Inv, NEW u \in Users, Done(u) PROVE Inv'
<1> USE NAssumption DEF Inv
<1>1. /\ pc[u] = "stored" /\ pc' = [pc EXCEPT ![u] = "done"] /\ wg' = wg - 1
      /\ UNCHANGED <<mode, main, next, list, read, mu>>
  BY DEF Done, Goto
<1>2. pc'[u] = "done" /\ \A v \in Users \ {u} : pc'[v] = pc[v]
  BY <1>1 DEF TypeOK
<1>3. UnderWay' = UnderWay \ {u} /\ u \in UnderWay
  BY <1>1, <1>2 DEF UnderWay
<1>4. wg' = Cardinality(UnderWay') /\ wg' \in 0..N
  <2>1. wg' = Cardinality(UnderWay')
    BY <1>1, <1>3, UnderWayFinite, FS_RemoveElement DEF Counted
  <2>2. UnderWay' \in SUBSET Users
    BY DEF UnderWay
  <2> QED
    BY <2>1, <2>2, UsersFinite, FS_Subset, FS_CardinalityType
<1>5. TypeOK'
  BY <1>1, <1>4 DEF TypeOK
<1>6. main = "looping"
  BY <1>1, Running
<1>7. Counted'
  <2>1. \A v \in Users : pc'[v] = "none" <=> pc[v] = "none"
    BY <1>1, <1>2
  <2> QED
    BY <1>1, <1>4, <1>6, <2>1 DEF Counted
<1>8. Exclusive'
  BY <1>1, <1>2 DEF Exclusive, Locked
<1>9. Alone' /\ AtIndex' /\ Unasked'
  BY <1>1, <1>2 DEF Alone, AtIndex, Unasked
<1>10. UnderMutex'
  <2>1. \A v \in Users : pc'[v] \in {"appended", "stored", "done"}
                            <=> pc[v] \in {"appended", "stored", "done"}
    BY <1>1, <1>2
  <2> QED BY <1>1, <2>1 DEF UnderMutex
<1> QED
  BY <1>5, <1>7, <1>8, <1>9, <1>10

LEMMA NextInv == Inv /\ [Next]_vars => Inv'
<1> SUFFICES ASSUME Inv, [Next]_vars PROVE Inv'
  OBVIOUS
<1>1. CASE UNCHANGED vars
  BY <1>1 DEF vars, Inv, TypeOK, Counted, UnderWay, Exclusive, Locked, Alone, AtIndex,
     UnderMutex, Unasked
<1>2. CASE Handler
  BY <1>2, QueryInv, SpawnInv, AppendAloneInv, ReturnInv DEF Handler
<1>3. ASSUME NEW u \in Users, Goroutine(u) PROVE Inv'
  BY <1>3, StoreInv, HoldInv, WriteInv, DoneInv DEF Goroutine
<1> QED
  BY <1>1, <1>2, <1>3 DEF Next

(***************************************************************************)
(* The theorems                                                            *)
(***************************************************************************)

\* When the handler has returned, every goroutine is done.
LEMMA AllDone ==
    ASSUME Inv, main = "returned"
    PROVE  \A u \in Users : mode # "sequential" => pc[u] = "done"
<1>1. Cardinality(UnderWay) = 0
  BY DEF Inv, Counted
<1>2. UnderWay = {}
  BY <1>1, UnderWayFinite, FS_EmptySet
<1>3. \A u \in Users : mode # "sequential" => pc[u] # "none"
  BY NAssumption DEF Inv, Counted, Users
<1> QED
  BY <1>2, <1>3 DEF UnderWay

\* Every variable keeps its type; in particular the wait group never goes negative.
THEOREM TypeCorrect == Spec => []TypeOK
<1>1. Inv => TypeOK
  BY DEF Inv
<1> QED
  BY <1>1, InitInv, NextInv, PTL DEF Spec

\* The list that is returned has each user once, for any number of users and any
\* interleaving of their goroutines.
THEOREM ListCorrect == Spec => []ReturnsEachOnce
<1>1. Inv => ReturnsEachOnce
  <2> SUFFICES ASSUME Inv, main = "returned"
               PROVE  /\ Len(list) = N
                      /\ \A u \in Users : \E i \in DOMAIN list : list[i] = u
                      /\ mode # "mutex" => \A i \in DOMAIN list : list[i] = i
    BY DEF ReturnsEachOnce
  <2> USE NAssumption DEF Inv
  <2>1. Len(list) \in Nat /\ DOMAIN list = 1..Len(list)
    BY DEF TypeOK
  <2>2. CASE mode = "sequential"
    <3>1. Len(list) = N
      BY <2>2 DEF Alone, Counted
    <3> QED
      BY <2>1, <2>2, <3>1 DEF Alone, Users
  <2>3. CASE mode = "indexed"
    BY <2>1, <2>3, AllDone DEF AtIndex, Users
  <2>4. CASE mode = "mutex"
    <3>1. \A u \in Users : \E i \in DOMAIN list : list[i] = u
      BY <2>4, AllDone DEF UnderMutex
    <3>2. list \in Bijection(1..Len(list), Users)
      <4>1. list \in [1..Len(list) -> Users]
        BY <2>1, <2>4 DEF UnderMutex, TypeOK
      <4>2. list \in Injection(1..Len(list), Users)
        BY <2>1, <2>4, <4>1 DEF UnderMutex, Injection, IsInjective
      <4>3. list \in Surjection(1..Len(list), Users)
        BY <2>1, <3>1, <4>1 DEF Surjection
      <4> QED BY <4>2, <4>3 DEF Bijection
    <3>3. Len(list) = N
      <4>1. ExistsBijection(1..Len(list), Users)
        BY <3>2 DEF ExistsBijection
      <4>2. Cardinality(Users) = Cardinality(1..Len(list))
        BY <2>1, <4>1, FS_Interval, FS_Bijection
      <4>3. Cardinality(1..Len(list)) = Len(list)
        <5>1. \A n \in Nat : Cardinality(1..n) = n
          BY FS_Interval
        <5> QED BY <2>1, <5>1
      <4> QED BY <4>2, <4>3, UsersFinite
    <3> QED BY <2>4, <3>1, <3>3
  <2> QED BY <2>2, <2>3, <2>4 DEF TypeOK
<1> QED
  BY <1>1, InitInv, NextInv, PTL DEF Spec

\* After the handler has returned no goroutine writes to the list.
THEOREM NoneLate == Spec => NoLateWriter
<1>1. Inv /\ [Next]_vars => [main = "returned" => UNCHANGED list]_vars
  <2> SUFFICES ASSUME Inv, [Next]_vars, main = "returned" PROVE list' = list
    OBVIOUS
  <2>1. \A u \in Users : pc[u] \in {"none", "done"}
    BY AllDone DEF Inv, Counted
  <2> QED
    BY <2>1 DEF Next, Handler, Query, QueryFails, Spawn, AppendAlone, Return, Goroutine,
       StoreAtIndex, Lock, ReadSlice, WriteSlice, Unlock, Done, Goto, vars
<1> QED
  BY <1>1, InitInv, NextInv, PTL DEF Spec, NoLateWriter
===============================================================================
