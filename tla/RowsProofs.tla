------------------------------ MODULE RowsProofs ------------------------------
(***************************************************************************)
(* Theorems about the rows that the REST requests leave and the lists they *)
(* are read in, however many there are: every row is of its table and      *)
(* refers to rows that are there, each whiteboard has a drawn for every    *)
(* member, conversations are in the order of their last messages, and a    *)
(* client that reads a list page by page misses nothing.                   *)
(***************************************************************************)
EXTENDS RestProofs, SequenceTheorems

(***************************************************************************)
(* Types                                                                   *)
(***************************************************************************)

\* The rows of each table, the drawns and the sequences.
TableRows ==
    /\ DOMAIN rows = Table /\ ids \in [Table -> Nat]
    /\ clock \in Nat /\ shared \subseteq 0..clock
    /\ \A t \in Table : Ids(t) \subseteq Given(t)
    /\ IsFiniteSet(Ids("account"))
    /\ \A c \in Ids("conversation") : rows["conversation"][c] \in [users : Seq(User), at : 0..clock]
    /\ \A b \in Ids("whiteboard") : rows["whiteboard"][b] \in Ids("conversation")
    /\ \A m \in Ids("message") : rows["message"][m] \in [conv : Ids("conversation"), at : 0..clock]
    /\ drawns \in Seq([board : Nat, drawer : User])
    /\ \A i \in DOMAIN drawns : drawns[i].board \in Ids("whiteboard")

\* A transaction that has inserted a row and is still open.
Open(r) == pc[r] \in {"inserted", "stamped"}

\* What a request of Store, or one that saves a message, knows.
Transaction(r) ==
    LET t == Asked[r].kind
    IN  /\ pc[r] \in {"new", "missing", "numbered", "inserted", "stamped", "done"}
        /\ seen[r] \subseteq Ids(t)
        /\ res[r] \in Ids(t) \cup {0}
        /\ pc[r] = "numbered" => t = "account" /\ tx[r].id \in Given(t) /\ tx[r].at = 0
        /\ Open(r) => tx[r].id \in Given(t) \ Ids(t) /\ tx[r].at \in 0..clock
        /\ pc[r] = "stamped" => stamp[r] \in 0..clock /\ tx[r].at <= stamp[r]
        /\ t = "message" /\ Open(r) => Asked[r].conv \in Ids("conversation")
        /\ t = "whiteboard" /\ pc[r] \in {"missing", "inserted"} =>
              Asked[r].conv \in Ids("conversation")

\* What a request that reads a list knows.
Reader(r) ==
    LET row == Ids(Asked[r].of)
    IN  /\ pc[r] \in {"new", "found", "paged", "done"}
        /\ found[r] \subseteq row
        /\ \A h \in had[r] : h \in [id : row, at : 0..clock]
        /\ got[r] \in Seq([ids : SUBSET Nat, total : Nat])
        /\ \A p \in DOMAIN got[r] : got[r][p].ids \subseteq row

\* What every request was told by the clocks.
Clocks(r) ==
    /\ stamp[r] \in 0..clock
    /\ token[r].until \in 0..MaxSecond + Lifetime
    /\ ctx[r].at \in 0..second

\* Open transactions have ids of their own. (Those of registrations do because the
\* database makes one of them wait: OpenRegistrations of RestProofs.)
OwnRows ==
    \A r, s \in Req :
        r # s /\ Asked[r].kind = Asked[s].kind /\ Asked[r].kind \in Table \ {"account"}
        /\ Open(r) /\ Open(s)
        => tx[r].id # tx[s].id

ListShapes == DOMAIN stamp = Req /\ DOMAIN found = Req /\ DOMAIN had = Req /\ DOMAIN got = Req

RowsInv ==
    /\ TableRows /\ OwnRows /\ ListShapes
    /\ \A r \in Req : /\ Asked[r].kind \in Table => Transaction(r)
                      /\ Asked[r].kind = "list" => Reader(r)
                      /\ Clocks(r)
    /\ second \in 0..MaxSecond
    /\ back \subseteq Ids("conversation")

\* The ids that a table's rows may have.
LEMMA GivenIds ==
    ASSUME TableRows, NEW t \in Table
    PROVE  /\ ids[t] \in Nat /\ Ids(t) \subseteq Given(t) /\ Given(t) \subseteq Nat
           /\ t # "account" => Given(t) = 1..ids[t]
<1>1. \A r \in Registering : Asked[r].id \in Nat
  BY AskedAssumption DEF Registering, Table
<1> QED
  BY <1>1 DEF TableRows, Given

LEMMA GivenGrows ==
    ASSUME NEW t \in Table, ids[t] \in Nat, ids'[t] \in Nat, ids[t] <= ids'[t]
    PROVE  Given(t) \subseteq Given(t)'
BY DEF Given, Registering

\* A reading of the clock is later than all before, or the last of them again.
LEMMA ReadClockStep ==
    ASSUME clock \in Nat, shared \subseteq 0..clock, ReadClock
    PROVE  /\ clock' \in Nat /\ clock <= clock'
           /\ shared \subseteq shared' /\ shared' \subseteq 0..clock'
           /\ clock' = clock + 1 \/ clock' \in shared'
BY DEF ReadClock

\* Rows, ids and the clocks only grow.
Grown ==
    /\ TableRows'
    /\ clock <= clock' /\ second <= second' /\ second' <= MaxSecond
    /\ \A t \in Table : ids[t] <= ids'[t] /\ Ids(t) \subseteq Ids(t)'

\* Only r's knowledge of lists, times and tokens changes.
OthersToo(r) ==
    /\ Others(r) /\ ListShapes'
    /\ \A s \in Req \ {r} :
        /\ stamp'[s] = stamp[s] /\ found'[s] = found[s] /\ had'[s] = had[s] /\ got'[s] = got[s]
        /\ token'[s] = token[s] /\ ctx'[s] = ctx[s]

LEMMA TransactionKept ==
    ASSUME TableRows, Grown, NEW s \in Req, Asked[s].kind \in Table, Transaction(s),
           pc'[s] = pc[s], tx'[s] = tx[s], res'[s] = res[s], seen'[s] = seen[s], stamp'[s] = stamp[s],
           Open(s) => tx[s].id \notin Ids(Asked[s].kind)'
    PROVE  Transaction(s)'
<1> DEFINE t == Asked[s].kind
<1>1. /\ clock \in Nat /\ clock' \in Nat /\ clock <= clock'
      /\ ids[t] \in Nat /\ ids'[t] \in Nat /\ ids[t] <= ids'[t]
      /\ Ids(t) \subseteq Ids(t)' /\ Ids("conversation") \subseteq Ids("conversation")'
  BY DEF Grown, TableRows, Table
<1>2. (Open(s)' <=> Open(s)) /\ Given(t) \subseteq Given(t)'
  BY <1>1, GivenGrows DEF Open
<1>3. Open(s)' => tx'[s].id \in Given(t)' \ Ids(t)' /\ tx'[s].at \in 0..clock'
  BY <1>1, <1>2 DEF Transaction
<1>4. pc'[s] = "stamped" => stamp'[s] \in 0..clock' /\ tx'[s].at <= stamp'[s]
  BY <1>1 DEF Transaction
<1> QED
  BY <1>1, <1>2, <1>3, <1>4 DEF Transaction

LEMMA ReaderKept ==
    ASSUME TableRows, Grown, NEW s \in Req, Asked[s].kind = "list", Reader(s),
           pc'[s] = pc[s], found'[s] = found[s], had'[s] = had[s], got'[s] = got[s]
    PROVE  Reader(s)'
<1>1. Asked[s].of \in Table
  BY ListsAskedAssumption DEF Table
<1>2. /\ clock \in Nat /\ clock' \in Nat /\ clock <= clock'
      /\ Ids(Asked[s].of) \subseteq Ids(Asked[s].of)'
  BY <1>1 DEF Grown, TableRows
<1>3. \A h \in had'[s] : h \in [id : Ids(Asked[s].of)', at : 0..clock']
  BY <1>2 DEF Reader
<1> QED
  BY <1>2, <1>3 DEF Reader

LEMMA ClocksKept ==
    ASSUME TableRows, second \in Nat, second' \in Nat, Grown, NEW s \in Req, Clocks(s),
           stamp'[s] = stamp[s], token'[s] = token[s], ctx'[s] = ctx[s]
    PROVE  Clocks(s)'
BY DEF TableRows, Grown, Clocks

\* The row that a step of r may commit.
NewRows(r, t) == IF Asked[r].kind = t /\ Open(r) THEN {tx[r].id} ELSE {}

\* A step of r that adds rows, if any, that its transaction inserted.
LEMMA RowsStep ==
    ASSUME Inv, RowsInv, NEW r \in Req, OthersToo(r), Grown, second' \in Nat,
           \A t \in Table : Ids(t)' \subseteq Ids(t) \cup NewRows(r, t),
           back' \subseteq Ids("conversation")',
           Asked[r].kind \in Table => Transaction(r)',
           Asked[r].kind \in Table \ {"account"} /\ Open(r)' =>
               tx'[r].id > ids[Asked[r].kind] \/ (Open(r) /\ tx'[r] = tx[r]),
           Asked[r].kind = "list" => Reader(r)',
           Clocks(r)'
    PROVE  RowsInv'
<1> USE DEF RowsInv
<1>1. ASSUME NEW s \in Req, s # r
      PROVE  /\ pc'[s] = pc[s] /\ tx'[s] = tx[s] /\ res'[s] = res[s] /\ seen'[s] = seen[s]
             /\ stamp'[s] = stamp[s] /\ found'[s] = found[s] /\ had'[s] = had[s] /\ got'[s] = got[s]
             /\ token'[s] = token[s] /\ ctx'[s] = ctx[s]
  BY <1>1 DEF OthersToo, Others
<1>2. ASSUME NEW s \in Req, s # r, Asked[s].kind \in Table PROVE Transaction(s)'
  <2>1. ASSUME Open(s) PROVE tx[s].id \notin Ids(Asked[s].kind)'
    <3>1. tx[s].id \notin Ids(Asked[s].kind)
      BY <1>2, <2>1 DEF Transaction
    <3>2. tx[s].id \notin NewRows(r, Asked[s].kind)
      <4>1. CASE Asked[s].kind # "account"
        BY <1>2, <2>1, <4>1 DEF OwnRows, NewRows
      <4>2. CASE Asked[s].kind = "account" /\ Asked[r].kind = "account" /\ Open(r)
        <5>1. Pending(s) /\ Pending(r)
          BY <2>1, <4>2 DEF Pending, Open, Inv, Stages
        <5> QED BY <1>2, <5>1 DEF NewRows, Inv, OpenRegistrations
      <4> QED BY <4>1, <4>2 DEF NewRows
    <3> QED BY <1>2, <3>1, <3>2
  <2> QED BY <1>1, <1>2, <2>1, TransactionKept
<1>3. ASSUME NEW s \in Req, s # r, Asked[s].kind = "list" PROVE Reader(s)'
  BY <1>1, <1>3, ReaderKept
<1>4. ASSUME NEW s \in Req, s # r PROVE Clocks(s)'
  BY <1>1, <1>4, ClocksKept
<1>5. ASSUME NEW s \in Req, s # r, Asked[s].kind = Asked[r].kind,
             Asked[r].kind \in Table \ {"account"}, Open(s)', Open(r)'
      PROVE  tx'[s].id # tx'[r].id
  <2>1. tx'[s] = tx[s] /\ Open(s)
    BY <1>1, <1>5 DEF Open
  <2>2. tx[s].id \in 1..ids[Asked[r].kind] /\ ids[Asked[r].kind] \in Nat
    BY <1>5, <2>1, GivenIds DEF Transaction
  <2>3. CASE tx'[r].id > ids[Asked[r].kind]
    BY <2>1, <2>2, <2>3
  <2>4. CASE Open(r) /\ tx'[r] = tx[r]
    BY <1>5, <2>1, <2>4 DEF OwnRows
  <2> QED BY <1>5, <2>3, <2>4
<1>6. OwnRows'
  <2> SUFFICES ASSUME NEW a \in Req, NEW b \in Req, a # b, Asked[a].kind = Asked[b].kind,
                      Asked[a].kind \in Table \ {"account"}, Open(a)', Open(b)'
               PROVE  tx'[a].id # tx'[b].id
    BY DEF OwnRows
  <2>1. CASE a = r \/ b = r
    BY <1>5, <2>1
  <2>2. CASE a # r /\ b # r
    BY <1>1, <2>2 DEF OwnRows, Open
  <2> QED BY <2>1, <2>2
<1>7. TableRows' /\ ListShapes' /\ second' \in 0..MaxSecond
  BY LifetimeAssumption DEF Grown, OthersToo
<1> QED
  BY <1>2, <1>3, <1>4, <1>6, <1>7

(***************************************************************************)
(* Requests that look for a row and create it                              *)
(***************************************************************************)

\* The rows stay while the sequences and the clock go on.
LEMMA SameTables ==
    ASSUME TableRows, UNCHANGED <<rows, drawns>>, ids' \in [Table -> Nat], clock' \in Nat,
           clock <= clock', shared' \subseteq 0..clock', second <= second', second' <= MaxSecond,
           \A t \in Table : ids[t] <= ids'[t]
    PROVE  Grown /\ \A t \in Table : Ids(t)' = Ids(t)
<1>1. \A t : Ids(t)' = Ids(t)
  BY DEF Ids
<1>2. \A t \in Table : Ids(t) \subseteq Given(t)'
  BY GivenGrows DEF TableRows
<1>3. /\ \A c \in Ids("conversation") :
            rows["conversation"][c] \in [users : Seq(User), at : 0..clock']
      /\ \A m \in Ids("message") :
            rows["message"][m] \in [conv : Ids("conversation"), at : 0..clock']
  BY DEF TableRows
<1>4. TableRows'
  <2>1. IsFiniteSet(Ids("account")')
    BY <1>1 DEF TableRows
  <2> QED BY <1>1, <1>2, <1>3, <2>1 DEF TableRows
<1> QED
  BY <1>1, <1>4 DEF Grown

\* A step that leaves the tables, the clocks and the other requests alone.
Still(r) ==
    /\ UNCHANGED <<rows, drawns, ids, clock, shared, second, back>>
    /\ OthersToo(r)

LEMMA StillStep ==
    ASSUME Inv, RowsInv, NEW r \in Req, Still(r),
           Asked[r].kind \in Table => Transaction(r)',
           Asked[r].kind \in Table \ {"account"} /\ Open(r)' => Open(r) /\ tx'[r] = tx[r],
           Asked[r].kind = "list" => Reader(r)',
           Clocks(r)'
    PROVE  RowsInv'
<1>1. Grown /\ \A t \in Table : Ids(t)' = Ids(t)
  <2>1. second \in Nat /\ second <= MaxSecond
    BY LifetimeAssumption DEF RowsInv
  <2>2. ids \in [Table -> Nat] /\ clock \in Nat /\ shared \subseteq 0..clock
    BY DEF RowsInv, TableRows
  <2>3. (\A t \in Table : ids[t] <= ids'[t]) /\ shared' \subseteq 0..clock'
    BY <2>2 DEF Still
  <2> QED BY <2>1, <2>2, <2>3, SameTables DEF RowsInv, Still
<1>2. back' \subseteq Ids("conversation")' /\ second' \in Nat
  BY <1>1 DEF RowsInv, Still, Table
<1> QED
  BY <1>1, <1>2, RowsStep DEF Still

\* The lists, the times and the tokens of all requests stay.
LEMMA OthersTooAside ==
    ASSUME RowsInv, NEW r, Others(r), UNCHANGED <<stamp, found, got, had, token, ctx>>
    PROVE  OthersToo(r)
BY DEF OthersToo, RowsInv, ListShapes

LEMMA Domains ==
    ASSUME Inv
    PROVE  DOMAIN pc = Req /\ DOMAIN tx = Req /\ DOMAIN res = Req /\ DOMAIN seen = Req
BY DEF Inv, Shapes

\* A lookup answers with a row that is there; only a member may go on to create
\* a whiteboard.
LEMMA LookRows ==
    ASSUME Inv, RowsInv, NEW r \in Req, UNCHANGED <<accountVars, listVars>>,
           LookForConversation(r) \/ LookForWhiteboard(r) \/ LookForUser(r)
    PROVE  RowsInv'
<1> DEFINE t == Asked[r].kind
<1>1. /\ t \in {"conversation", "whiteboard", "account"} /\ pc[r] = "new"
      /\ UNCHANGED <<rows, drawns, ids, clock, shared, tx>>
      /\ seen' = [seen EXCEPT ![r] = Ids(t)]
  BY DEF LookForConversation, LookForWhiteboard, LookForUser, Look, database, times, Ids
<1>2. UNCHANGED <<second, token, ctx, stamp, found, got, had, back>>
  BY DEF accountVars, listVars
<1>3. \/ \E x \in Ids(t) \cup {0} : Answer(r, x)
      \/ FoundNothing(r) /\ (t = "whiteboard" => Asked[r].conv \in Ids("conversation"))
  <2>1. CASE LookForConversation(r)
    <3>1. t = "conversation" /\ \A c \in
             FindConversationBetweenTwoUsers(Asked[r].users[1], Asked[r].users[2]) : c \in Ids(t)
      BY <2>1 DEF LookForConversation, Look, FindConversationBetweenTwoUsers, Ids
    <3> QED BY <2>1, <3>1 DEF LookForConversation
  <2>2. CASE LookForWhiteboard(r)
    <3> DEFINE boards == FindConversationWhiteboard(Asked[r].conv)
    <3>1. t = "whiteboard" /\ boards \subseteq Ids(t)
      BY <2>2 DEF LookForWhiteboard, Look, FindConversationWhiteboard, Ids
    <3>2. ids[t] \in Nat /\ Ids(t) \subseteq 1..ids[t]
      BY <3>1, GivenIds DEF RowsInv, Table
    <3>3. \/ Answer(r, 0)
          \/ boards # {} /\ Answer(r, Max(boards))
          \/ FoundNothing(r) /\ Asked[r].conv \in Ids("conversation")
      BY <2>2 DEF LookForWhiteboard, CheckUserInConversation, Ids
    <3> HIDE DEF boards
    <3>4. boards # {} => Max(boards) \in Ids(t)
      BY <3>1, <3>2, MaxProperties
    <3> QED BY <3>3, <3>4
  <2>3. CASE LookForUser(r)
    <3>1. t = "account"
      BY <2>3 DEF LookForUser, Look
    <3> QED BY <2>3, <3>1 DEF LookForUser
  <2> QED BY <2>1, <2>2, <2>3
<1>4. Others(r) /\ seen'[r] = Ids(t) /\ tx'[r] = tx[r] /\ stamp'[r] = stamp[r]
  <2>1. CASE \E x \in Ids(t) \cup {0} : Answer(r, x)
    BY <1>1, <1>2, <2>1, Domains DEF Answer, Others
  <2>2. CASE FoundNothing(r)
    BY <1>1, <1>2, <2>2, Domains DEF FoundNothing, Others
  <2> QED BY <1>3, <2>1, <2>2
<1>5. /\ pc'[r] \in {"missing", "done"} /\ res'[r] \in Ids(t) \cup {0}
      /\ pc'[r] = "missing" /\ t = "whiteboard" => Asked[r].conv \in Ids("conversation")
  <2>1. res[r] \in Ids(t) \cup {0}
    BY <1>1 DEF RowsInv, Transaction, Table
  <2>2. CASE \E x \in Ids(t) \cup {0} : Answer(r, x)
    BY <1>1, <2>2, Domains DEF Answer
  <2>3. CASE FoundNothing(r) /\ (t = "whiteboard" => Asked[r].conv \in Ids("conversation"))
    BY <1>1, <2>1, <2>3, Domains DEF FoundNothing
  <2> QED BY <1>3, <2>2, <2>3
<1>6. Ids(t)' = Ids(t) /\ Ids("conversation")' = Ids("conversation")
  BY <1>1 DEF Ids
<1>7. Transaction(r)' /\ ~Open(r)'
  BY <1>1, <1>4, <1>5, <1>6 DEF Transaction, Open
<1>8. Clocks(r)'
  BY <1>1, <1>2 DEF RowsInv, Clocks
<1>9. Still(r)
  BY <1>1, <1>2, <1>4, OthersTooAside DEF Still
<1> QED
  BY <1>1, <1>7, <1>8, <1>9, StillStep

\* A request of Store or for a message that is answered with nothing.
LEMMA NothingRows ==
    ASSUME Inv, RowsInv, NEW r \in Req, UNCHANGED <<accountVars, listVars>>,
           Answer(r, 0), UNCHANGED <<database, tx, seen>>
    PROVE  RowsInv'
<1>1. UNCHANGED <<rows, drawns, ids, clock, shared, second, token, ctx, stamp, found, got, had, back, tx, seen>>
  BY DEF accountVars, listVars, database, times
<1>2. Others(r) /\ pc'[r] = "done" /\ res'[r] = 0
  BY <1>1, Domains DEF Answer, Others
<1>3. \A t : Ids(t)' = Ids(t)
  BY <1>1 DEF Ids
<1>4. Asked[r].kind \in Table => Transaction(r)'
  BY <1>1, <1>2, <1>3 DEF RowsInv, Transaction, Open
<1>5. Asked[r].kind = "list" => Reader(r)'
  BY <1>1, <1>2, <1>3 DEF RowsInv, Reader
<1>6. Clocks(r)' /\ ~Open(r)'
  BY <1>1, <1>2 DEF RowsInv, Clocks, Open
<1>7. Still(r)
  BY <1>1, <1>2, OthersTooAside DEF Still
<1> QED
  BY <1>4, <1>5, <1>6, <1>7, StillStep

\* An insertion takes the next id and the time.
LEMMA InsertRows ==
    ASSUME Inv, RowsInv, NEW r \in Req, UNCHANGED <<accountVars, listVars>>,
           NEW t \in Table \ {"account"}, Insert(r, t),
           t \in {"whiteboard", "message"} => Asked[r].conv \in Ids("conversation")
    PROVE  RowsInv'
<1>1. UNCHANGED <<rows, drawns, res, seen, second, token, ctx, stamp, found, got, had, back>>
  BY DEF Insert, accountVars, listVars
<1>2. /\ Asked[r].kind = t
      /\ ids' = [ids EXCEPT ![t] = ids[t] + 1]
      /\ tx' = [tx EXCEPT ![r] = [id |-> ids[t] + 1, at |-> clock']]
      /\ pc' = [pc EXCEPT ![r] = "inserted"]
  BY DEF Insert, TakeId, NextId
<1>a. ids \in [Table -> Nat] /\ clock \in Nat /\ second \in Nat /\ second <= MaxSecond
      /\ shared \subseteq 0..clock
  BY LifetimeAssumption DEF RowsInv, TableRows
<1>b. ReadClock \/ UNCHANGED <<clock, shared>>
  BY DEF Insert, times
<1>3. /\ ids \in [Table -> Nat] /\ clock \in Nat /\ second \in Nat /\ second <= MaxSecond
      /\ clock' \in Nat /\ clock <= clock' /\ shared' \subseteq 0..clock'
  <2>1. CASE ReadClock
    BY <1>a, <2>1, ReadClockStep
  <2>2. CASE UNCHANGED <<clock, shared>>
    BY <1>a, <2>2
  <2> QED BY <1>b, <2>1, <2>2
<1>4. /\ ids' \in [Table -> Nat] /\ ids'[t] = ids[t] + 1
      /\ \A u \in Table : ids[u] <= ids'[u]
  BY <1>2, <1>3
<1>5. Grown /\ \A u \in Table : Ids(u)' = Ids(u)
  BY <1>1, <1>2, <1>3, <1>4, SameTables DEF RowsInv
<1>6. OthersToo(r) /\ tx'[r].id = ids[t] + 1 /\ tx'[r].at = clock' /\ pc'[r] = "inserted"
  <2>1. Others(r)
    BY <1>1, <1>2, Domains DEF Others
  <2> QED BY <1>1, <1>2, <2>1, Domains, OthersTooAside
<1>7. Transaction(r)'
  <2>1. Ids(t) \subseteq 1..ids[t] /\ seen[r] \subseteq Ids(t) /\ res[r] \in Ids(t) \cup {0}
    BY <1>2, GivenIds DEF RowsInv, Transaction
  <2>2. tx'[r].id \in Given(t)' \ Ids(t) /\ tx'[r].at \in 0..clock'
    <3>1. tx'[r].id \in 1..ids'[t] \ Ids(t)
      BY <1>2, <1>3, <1>4, <1>6, <2>1
    <3> QED BY <1>3, <1>6, <3>1 DEF Given
  <2>3. Ids("conversation")' = Ids("conversation") /\ Ids(t)' = Ids(t)
    BY <1>5 DEF Table
  <2> QED BY <1>1, <1>2, <1>6, <2>1, <2>2, <2>3 DEF Transaction
<1>8. Clocks(r)'
  BY <1>1, <1>2, <1>3 DEF RowsInv, Clocks
<1>9. tx'[r].id > ids[t] /\ back' \subseteq Ids("conversation")' /\ second' \in Nat
  BY <1>1, <1>3, <1>4, <1>5, <1>6 DEF RowsInv, Table
<1> QED
  BY <1>2, <1>5, <1>6, <1>7, <1>8, <1>9, RowsStep DEF Table

\* A step that leaves the rows and the clocks, but for ids that a sequence gives.
LEMMA SequenceStep ==
    ASSUME Inv, RowsInv, NEW r \in Req, UNCHANGED <<accountVars, listVars>>,
           UNCHANGED <<rows, drawns, times>>, Others(r),
           ids' = ids \/ \E t \in Table : TakeId(t),
           Asked[r].kind \in Table, Transaction(r)',
           Asked[r].kind # "account" => ~Open(r)'
    PROVE  RowsInv'
<1>1. UNCHANGED <<clock, shared, second, token, ctx, stamp, found, got, had, back>>
  BY DEF accountVars, listVars, times
<1>2. ids \in [Table -> Nat] /\ clock \in Nat /\ second \in Nat /\ second <= MaxSecond
      /\ shared \subseteq 0..clock
  BY LifetimeAssumption DEF RowsInv, TableRows
<1>3. ids' \in [Table -> Nat] /\ \A u \in Table : ids[u] <= ids'[u]
  BY <1>2 DEF TakeId, NextId
<1>4. Grown /\ \A u \in Table : Ids(u)' = Ids(u)
  BY <1>1, <1>2, <1>3, SameTables DEF RowsInv
<1>5. OthersToo(r)
  BY <1>1, OthersTooAside
<1>6. Clocks(r)' /\ back' \subseteq Ids("conversation")'
  BY <1>1, <1>4 DEF RowsInv, Clocks, Table
<1> QED
  BY <1>1, <1>2, <1>4, <1>5, <1>6, RowsStep DEF Table

\* A registration takes an id: the next one, or that of its body.
LEMMA TakeUserIdRows ==
    ASSUME Inv, RowsInv, NEW r \in Req, UNCHANGED <<accountVars, listVars>>, TakeUserId(r)
    PROVE  RowsInv'
<1>1. /\ Asked[r].kind = "account" /\ "account" \in Table
      /\ UNCHANGED <<rows, drawns, times, res, seen>>
      /\ pc' = [pc EXCEPT ![r] = "numbered"] /\ \E row : tx' = [tx EXCEPT ![r] = row]
      /\ ids' = ids \/ TakeId("account")
  BY DEF TakeUserId, Table
<1>2. Others(r) /\ pc'[r] = "numbered"
  BY <1>1, Domains DEF Others
<1>3. ids["account"] \in Nat /\ DOMAIN ids = Table
  BY <1>1 DEF RowsInv, TableRows
<1>4. tx'[r].id \in Given("account")' /\ tx'[r].at = 0
  <2>1. CASE Asked[r].id = 0
    <3>1. /\ tx'[r].id = ids["account"] + 1 /\ ids'["account"] = ids["account"] + 1
          /\ tx'[r].at = 0
      BY <1>1, <1>3, <2>1, Domains DEF TakeUserId, TakeId, NextId
    <3> QED BY <1>3, <3>1 DEF Given
  <2>2. CASE Asked[r].id # 0
    <3>1. tx'[r].id = Asked[r].id /\ tx'[r].at = 0
      BY <2>2, Domains DEF TakeUserId
    <3> QED BY <1>1, <2>2, <3>1 DEF Given, Registering
  <2> QED BY <2>1, <2>2
<1>5. Transaction(r)'
  <2>1. seen'[r] \subseteq Ids("account") /\ res'[r] \in Ids("account") \cup {0}
    BY <1>1 DEF RowsInv, Transaction
  <2>2. Ids("account")' = Ids("account")
    BY <1>1 DEF Ids
  <2> QED BY <1>1, <1>2, <1>4, <2>1, <2>2 DEF Transaction, Open
<1> QED
  BY <1>1, <1>2, <1>5, SequenceStep

\* It inserts the row, unless another account has the email or the id.
LEMMA InsertUserRows ==
    ASSUME Inv, RowsInv, NEW r \in Req, UNCHANGED <<accountVars, listVars>>, InsertUser(r)
    PROVE  RowsInv'
<1>1. CASE Answer(r, 0)
  BY <1>1, NothingRows DEF InsertUser
<1>2. CASE /\ ~IdTaken(r) /\ pc' = [pc EXCEPT ![r] = "inserted"]
           /\ UNCHANGED <<database, tx, res, seen>>
  <2>1. /\ Asked[r].kind = "account" /\ "account" \in Table /\ pc[r] = "numbered"
        /\ UNCHANGED <<rows, drawns, ids, times>>
    BY <1>2 DEF InsertUser, Inv, Stages, Table, database
  <2>2. Others(r) /\ pc'[r] = "inserted"
    BY <1>2, Domains DEF Others
  <2>3. Ids("account")' = Ids("account") /\ Given("account")' = Given("account")
    BY <2>1 DEF Ids, Given, Registering
  <2>4. /\ seen[r] \subseteq Ids("account") /\ res[r] \in Ids("account") \cup {0}
        /\ tx[r].id \in Given("account") \ Ids("account")
    BY <1>2, <2>1 DEF RowsInv, Transaction, IdTaken, Ids
  <2>5. tx[r].at \in 0..clock'
    <3>1. tx[r].at = 0 /\ clock \in Nat /\ clock' = clock
      BY <2>1 DEF RowsInv, Transaction, TableRows, times
    <3> QED BY <3>1
  <2>6. Transaction(r)'
    BY <1>2, <2>1, <2>2, <2>3, <2>4, <2>5 DEF Transaction, Open
  <2> QED BY <2>1, <2>2, <2>6, SequenceStep
<1> QED
  BY <1>1, <1>2 DEF InsertUser

\* A commit adds the row that the transaction inserted.
LEMMA CommitRows ==
    ASSUME Inv, RowsInv, NEW r \in Req, UNCHANGED <<accountVars, listVars>>,
           NEW t \in {"conversation", "whiteboard", "account"}, NEW row, Commit(r, t, row),
           t = "conversation" => row \in [users : Seq(User), at : 0..clock],
           t = "whiteboard" => row \in Ids("conversation"),
           drawns' \in Seq([board : Nat, drawer : User]),
           \A i \in DOMAIN drawns' :
               drawns'[i].board \in Ids("whiteboard") \/ (t = "whiteboard" /\ drawns'[i].board = tx[r].id)
    PROVE  RowsInv'
<1>1. PICK new : new = tx[r].id
  OBVIOUS
<1>2. /\ Asked[r].kind = t /\ pc[r] = "inserted" /\ UNCHANGED <<ids, clock, shared, tx, seen>>
      /\ rows' = [rows EXCEPT ![t] = With(rows[t], new, row)]
      /\ \E x \in {0, new} : Answer(r, x)
      /\ UNCHANGED <<second, token, ctx, stamp, found, got, had, back>>
  BY <1>1 DEF Commit, accountVars, listVars, times
<1>3. t \in Table /\ Open(r) /\ DOMAIN rows = Table /\ second \in Nat /\ second <= MaxSecond
  BY <1>2, LifetimeAssumption DEF Table, Open, RowsInv, TableRows
<1>4. new \in Given(t) \ Ids(t) /\ \A u : Given(u)' = Given(u)
  BY <1>1, <1>2, <1>3 DEF RowsInv, Transaction, Given, Registering
<1>5. /\ rows'[t] = With(rows[t], new, row) /\ DOMAIN rows' = Table
      /\ \A u \in Table \ {t} : rows'[u] = rows[u]
  BY <1>2, <1>3
<1>6. /\ Ids(t)' = Ids(t) \cup {new} /\ rows'[t][new] = row
      /\ \A x \in Ids(t) : rows'[t][x] = rows[t][x]
      /\ \A u \in Table \ {t} : Ids(u)' = Ids(u)
  BY <1>4, <1>5 DEF With, Ids
<1>7. \A u \in Table : Ids(u) \subseteq Ids(u)' /\ Ids(u)' \subseteq Given(u)'
  BY <1>4, <1>6 DEF RowsInv, TableRows
<1>8. TableRows'
  <2>1. ASSUME NEW c \in Ids("conversation")'
        PROVE  rows'["conversation"][c] \in [users : Seq(User), at : 0..clock]
    <3>1. CASE c \in Ids("conversation")
      BY <1>5, <1>6, <3>1 DEF RowsInv, TableRows, Table
    <3>2. CASE t = "conversation" /\ c = new
      BY <1>6, <3>2
    <3> QED BY <1>3, <1>6, <2>1, <3>1, <3>2 DEF Table
  <2>2. ASSUME NEW b \in Ids("whiteboard")' PROVE rows'["whiteboard"][b] \in Ids("conversation")'
    <3>1. CASE b \in Ids("whiteboard")
      <4>1. rows'["whiteboard"][b] = rows["whiteboard"][b]
        BY <1>5, <1>6, <3>1 DEF Table
      <4>2. rows["whiteboard"][b] \in Ids("conversation")
        BY <3>1 DEF RowsInv, TableRows
      <4> QED BY <1>7, <4>1, <4>2 DEF Table
    <3>2. CASE t = "whiteboard" /\ b = new
      BY <1>6, <1>7, <3>2 DEF Table
    <3> QED BY <1>3, <1>6, <2>2, <3>1, <3>2 DEF Table
  <2>3. ASSUME NEW m \in Ids("message")'
        PROVE  rows'["message"][m] \in [conv : Ids("conversation")', at : 0..clock]
    <3>1. rows'["message"] = rows["message"] /\ Ids("message")' = Ids("message")
      BY <1>5, <1>6 DEF Table
    <3>2. rows["message"][m] \in [conv : Ids("conversation"), at : 0..clock]
      BY <2>3, <3>1 DEF RowsInv, TableRows
    <3>3. Ids("conversation") \subseteq Ids("conversation")'
      BY <1>7 DEF Table
    <3> QED BY <3>1, <3>2, <3>3
  <2>4. \A i \in DOMAIN drawns' : drawns'[i].board \in Ids("whiteboard")'
    BY <1>1, <1>6, <1>7 DEF Table
  <2>5. ids' \in [Table -> Nat] /\ clock' \in Nat /\ shared' \subseteq 0..clock'
    BY <1>2 DEF RowsInv, TableRows
  <2>6. IsFiniteSet(Ids("account")')
    <3>1. IsFiniteSet(Ids("account"))
      BY DEF RowsInv, TableRows
    <3>2. IsFiniteSet(Ids("account") \cup {new})
      BY <3>1, FS_AddElement
    <3> QED BY <1>6, <3>1, <3>2 DEF Table
  <2> QED BY <1>2, <1>5, <1>7, <2>1, <2>2, <2>3, <2>4, <2>5, <2>6 DEF TableRows
<1>9. Grown
  BY <1>2, <1>3, <1>7, <1>8 DEF Grown, RowsInv, TableRows
<1>10. OthersToo(r) /\ pc'[r] = "done" /\ res'[r] \in {0, new}
  <2>1. PICK x \in {0, new} : Answer(r, x)
    BY <1>2
  <2>2. Others(r) /\ pc'[r] = "done" /\ res'[r] = x
    BY <1>2, <2>1, Domains DEF Answer, Others
  <2> QED BY <1>2, <2>2, OthersTooAside
<1>11. Transaction(r)' /\ ~Open(r)'
  BY <1>2, <1>3, <1>6, <1>7, <1>10 DEF RowsInv, Transaction, Open
<1>12. Clocks(r)' /\ back' \subseteq Ids("conversation")'
  BY <1>2, <1>7 DEF RowsInv, Clocks, Table
<1>13. \A u \in Table : Ids(u)' \subseteq Ids(u) \cup NewRows(r, u)
  BY <1>1, <1>2, <1>3, <1>6 DEF NewRows
<1> QED
  BY <1>2, <1>3, <1>9, <1>10, <1>11, <1>12, <1>13, RowsStep

\* The drawns of a new whiteboard, one for each member of its conversation.
LEMMA DrawnsOfMembers ==
    ASSUME RowsInv, NEW new \in Nat, NEW members \in Seq(User),
           drawns' = drawns \o [i \in DOMAIN members |-> [board |-> new, drawer |-> members[i]]]
    PROVE  /\ drawns' \in Seq([board : Nat, drawer : User])
           /\ Len(drawns') = Len(drawns) + Len(members)
           /\ \A i \in 1..Len(drawns) : drawns'[i] = drawns[i]
           /\ \A i \in 1..Len(members) :
                drawns'[Len(drawns) + i] = [board |-> new, drawer |-> members[i]]
<1> DEFINE D == [board : Nat, drawer : User]
           more == [i \in DOMAIN members |-> [board |-> new, drawer |-> members[i]]]
<1>1. drawns \in Seq(D)
  BY DEF RowsInv, TableRows
<1>2. Len(members) \in Nat /\ DOMAIN members = 1..Len(members)
      /\ \A i \in 1..Len(members) : members[i] \in User
  BY LenProperties, ElementOfSeq
<1>3. more \in [1..Len(members) -> D]
  BY <1>2
<1>4. more \in Seq(D)
  BY <1>2, <1>3, SeqDef
<1>5. Len(more) = Len(members)
  BY <1>2, <1>3, <1>4
<1> HIDE DEF D
<1>6. /\ drawns' \in Seq(D)
      /\ Len(drawns') = Len(drawns) + Len(more)
      /\ \A i \in 1..Len(drawns) + Len(more) :
            drawns'[i] = IF i <= Len(drawns) THEN drawns[i] ELSE more[i - Len(drawns)]
  <2> HIDE DEF more
  <2> QED BY <1>1, <1>4, ConcatProperties DEF more
<1>7. Len(drawns) \in Nat
  BY <1>1, LenProperties
<1>8. \A i \in 1..Len(drawns) : drawns'[i] = drawns[i]
  BY <1>2, <1>5, <1>6, <1>7
<1>9. ASSUME NEW i \in 1..Len(members) PROVE drawns'[Len(drawns) + i] = more[i]
  <2> HIDE DEF more
  <2>1. PICK j \in 1..Len(drawns) + Len(more) : j = Len(drawns) + i
    BY <1>2, <1>5, <1>7
  <2>2. ~(j <= Len(drawns)) /\ j - Len(drawns) = i
    BY <1>2, <1>7, <2>1
  <2>3. drawns'[j] = more[j - Len(drawns)]
    BY <1>6, <2>2
  <2> QED BY <2>1, <2>2, <2>3
<1> QED
  BY <1>2, <1>5, <1>6, <1>8, <1>9 DEF D

LEMMA RequestRows ==
    ASSUME Inv, RowsInv, NEW r \in Req, Request(r), UNCHANGED <<accountVars, listVars>>
    PROVE  RowsInv'
<1>1. CASE LookForConversation(r) \/ LookForWhiteboard(r) \/ LookForUser(r)
  BY <1>1, LookRows
<1>2. drawns \in Seq([board : Nat, drawer : User]) /\ \A i \in DOMAIN drawns : drawns[i].board \in Ids("whiteboard")
  BY DEF RowsInv, TableRows
<1>3. CASE CreateConversation(r)
  <2>1. CASE Insert(r, "conversation")
    BY <2>1, InsertRows DEF Table
  <2>2. CASE /\ Commit(r, "conversation", [users |-> Asked[r].users, at |-> tx[r].at])
             /\ UNCHANGED drawns
    <3>1. tx[r].at \in 0..clock /\ Asked[r].kind = "conversation"
      BY <2>2 DEF Commit, RowsInv, Transaction, Open, Table
    <3>2. Asked[r].users \in Seq(User)
      BY <3>1, AskedAssumption DEF Table
    <3> QED BY <1>2, <2>2, <3>1, <3>2, CommitRows
  <2> QED BY <1>3, <2>1, <2>2 DEF CreateConversation
<1>4. CASE CreateNewWhiteboard(r)
  <2>1. pc[r] \in {"missing", "inserted"} /\ Asked[r].kind = "whiteboard"
    BY <1>4 DEF CreateNewWhiteboard, Insert, Commit
  <2>2. Asked[r].conv \in Ids("conversation")
    BY <2>1 DEF RowsInv, Transaction, Table
  <2>3. CASE Insert(r, "whiteboard")
    BY <2>2, <2>3, InsertRows DEF Table
  <2>4. CASE Commit(r, "whiteboard", Asked[r].conv)
    <3>1. PICK new : new = tx[r].id
      OBVIOUS
    <3>2. PICK members : members = rows["conversation"][Asked[r].conv].users
      OBVIOUS
    <3>3. new \in Nat /\ members \in Seq(User)
      <4>1. new \in Nat
        BY <2>1, <2>4, <3>1, GivenIds DEF Commit, RowsInv, Transaction, Open, Table
      <4> QED BY <2>2, <3>2, <4>1 DEF RowsInv, TableRows
    <3>4. drawns' = drawns \o [i \in DOMAIN members |-> [board |-> new, drawer |-> members[i]]]
      BY <1>4, <2>4, <3>1, <3>2 DEF CreateNewWhiteboard, Commit, Insert
    <3>5. /\ drawns' \in Seq([board : Nat, drawer : User])
          /\ Len(drawns') = Len(drawns) + Len(members)
          /\ \A i \in 1..Len(drawns) : drawns'[i] = drawns[i]
          /\ \A i \in 1..Len(members) :
                drawns'[Len(drawns) + i] = [board |-> new, drawer |-> members[i]]
      BY <3>3, <3>4, DrawnsOfMembers
    <3>6. ASSUME NEW i \in DOMAIN drawns'
          PROVE  drawns'[i].board \in Ids("whiteboard") \/ drawns'[i].board = new
      <4>1. /\ DOMAIN drawns' = 1..Len(drawns') /\ DOMAIN drawns = 1..Len(drawns)
            /\ Len(drawns) \in Nat /\ Len(members) \in Nat
        BY <1>2, <3>3, <3>5, LenProperties
      <4>2. CASE i <= Len(drawns)
        BY <1>2, <3>5, <3>6, <4>1, <4>2
      <4>3. CASE i > Len(drawns)
        <5>1. PICK j \in 1..Len(members) : i = Len(drawns) + j
          <6>1. i - Len(drawns) \in 1..Len(members) /\ Len(drawns) + (i - Len(drawns)) = i
            BY <3>5, <3>6, <4>1, <4>3
          <6> QED BY <6>1
        <5>2. drawns'[i] = [board |-> new, drawer |-> members[j]]
          BY <3>5, <5>1
        <5> QED BY <5>2
      <4> QED BY <3>6, <4>1, <4>2, <4>3
    <3> QED BY <2>2, <2>4, <3>1, <3>5, <3>6, CommitRows
  <2> QED BY <1>4, <2>3, <2>4 DEF CreateNewWhiteboard
<1>5. CASE CreateUser(r)
  <2>1. CASE Commit(r, "account", NewUser(r)) /\ UNCHANGED drawns
    BY <1>2, <2>1, CommitRows
  <2> QED BY <1>5, <2>1, TakeUserIdRows, InsertUserRows DEF CreateUser
<1>6. CASE Rollback(r)
  BY <1>6, NothingRows DEF Rollback
<1> QED
  BY <1>1, <1>3, <1>4, <1>5, <1>6 DEF Request

(***************************************************************************)
(* Requests about a user's own row, messages and lists                     *)
(***************************************************************************)

LEMMA AccountRows ==
    ASSUME Inv, RowsInv, NEW r \in Req, AccountRequest(r), UNCHANGED listVars
    PROVE  RowsInv'
<1>1. Asked[r].kind \in {"login", "photo", "names"}
  BY DEF AccountRequest, Login, UploadUserProfilePhoto, UploadFile, UpdateUserProfilePhoto,
     UpdateUser, AnswerProfile, Arrives, Inv, Stages
<1>2. UNCHANGED <<drawns, ids, clock, shared, second, tx, stamp, found, got, had, back>>
  BY DEF AccountRequest, Login, UploadUserProfilePhoto, UploadFile, UpdateUserProfilePhoto,
     UpdateUser, AnswerProfile, Arrives, Beside, times, listVars
<1>3. /\ DOMAIN rows' = Table /\ \A t \in Table \ {"account"} : rows'[t] = rows[t]
      /\ Ids("account")' = Ids("account")
  <2>1. \/ rows' = rows
        \/ \E a, k : rows' = [rows EXCEPT !["account"][a].photo = k]
        \/ \E a, n : rows' = [rows EXCEPT !["account"][a].name = n]
    BY DEF AccountRequest, Login, UploadUserProfilePhoto, UploadFile, UpdateUserProfilePhoto,
       UpdateUser, UpdateNames, WriteName, AnswerProfile, Reject
  <2> QED BY <2>1 DEF RowsInv, TableRows, Ids, Table
<1>4. Others(r)
  <2>1. /\ \E place : pc' = [pc EXCEPT ![r] = place]
        /\ res' = res \/ \E id : res' = [res EXCEPT ![r] = id]
        /\ seen' = seen \/ seen' = [seen EXCEPT ![r] = DOMAIN rows["account"]]
    BY DEF AccountRequest, Login, UploadUserProfilePhoto, UploadFile, UpdateUserProfilePhoto,
       UpdateUser, AnswerProfile, Arrives, Beside, Reject, Answer
  <2> QED BY <1>2, <2>1, Domains DEF Others
<1>5. \/ token' = token
      \/ \E a : token' = [token EXCEPT ![r] = CreateJwtToken(a)]
  BY DEF AccountRequest, Login, UploadUserProfilePhoto, UploadFile, UpdateUserProfilePhoto,
     UpdateUser, AnswerProfile, Reject
<1>6. \/ ctx' = ctx \/ Admit(r)
      \/ ctx' = [ctx EXCEPT ![r].name = ReadBack(r)]
  BY DEF AccountRequest, Login, UploadUserProfilePhoto, UploadFile, UpdateUserProfilePhoto,
     UpdateUser, AnswerProfile, Reject
<1>7. DOMAIN token = Req /\ DOMAIN ctx = Req
      /\ "at" \in DOMAIN ctx[r] /\ "name" \in DOMAIN ctx[r]
  BY DEF Inv, Shapes
<1>8. OthersToo(r)
  <2>1. \A s \in Req \ {r} : token'[s] = token[s]
    BY <1>5, <1>7
  <2>2. \A s \in Req \ {r} : ctx'[s] = ctx[s]
    BY <1>6, <1>7 DEF Admit
  <2> QED BY <1>2, <1>4, <2>1, <2>2 DEF OthersToo, RowsInv, ListShapes
<1>9. second \in Nat /\ second <= MaxSecond /\ MaxSecond \in Nat /\ Lifetime \in Nat
  BY LifetimeAssumption DEF RowsInv
<1>10. Clocks(r)'
  <2>1. Clocks(r)
    BY DEF RowsInv
  <2>2. token'[r].until \in 0..MaxSecond + Lifetime
    <3>1. CASE token' = token
      BY <2>1, <3>1 DEF Clocks
    <3>2. ASSUME NEW a, token' = [token EXCEPT ![r] = CreateJwtToken(a)]
          PROVE  token'[r].until \in 0..MaxSecond + Lifetime
      <4>1. token'[r].until = second + Lifetime
        BY <1>7, <3>2 DEF CreateJwtToken
      <4> QED BY <1>9, <4>1
    <3> QED BY <1>5, <3>1, <3>2
  <2>3. ctx'[r].at \in 0..second
    <3>1. CASE ctx' = ctx
      BY <2>1, <3>1 DEF Clocks
    <3>2. CASE Admit(r)
      <4>1. ctx'[r].at = second
        BY <1>7, <3>2, AdmitsAfter
      <4> QED BY <1>9, <4>1
    <3>3. CASE ctx' = [ctx EXCEPT ![r].name = ReadBack(r)]
      <4>1. ctx'[r].at = ctx[r].at
        BY <1>7, <3>3
      <4> QED BY <2>1, <4>1 DEF Clocks
    <3> QED BY <1>6, <3>1, <3>2, <3>3
  <2> QED BY <1>2, <2>1, <2>2, <2>3 DEF Clocks
<1>11. \A t \in Table : Ids(t)' = Ids(t)
  BY <1>3 DEF Ids
<1>12. Grown
  <2>1. /\ rows'["conversation"] = rows["conversation"] /\ rows'["message"] = rows["message"]
        /\ rows'["whiteboard"] = rows["whiteboard"]
        /\ Ids("conversation")' = Ids("conversation") /\ Ids("message")' = Ids("message")
        /\ Ids("whiteboard")' = Ids("whiteboard")
    BY <1>3, <1>11 DEF Table
  <2>2. TableRows'
    <3>1. \A t : Given(t)' = Given(t)
      BY <1>2 DEF Given, Registering
    <3>2. IsFiniteSet(Ids("account")')
      BY <1>3 DEF RowsInv, TableRows
    <3> QED BY <1>2, <1>3, <1>11, <2>1, <3>1, <3>2 DEF RowsInv, TableRows
  <2>3. ids \in [Table -> Nat] /\ clock \in Nat
    BY DEF RowsInv, TableRows
  <2> QED BY <1>2, <1>9, <1>11, <2>2, <2>3 DEF Grown
<1>13. back' \subseteq Ids("conversation")' /\ second' \in Nat
  BY <1>2, <1>9, <1>11 DEF RowsInv, Table
<1> QED
  BY <1>1, <1>8, <1>10, <1>11, <1>12, <1>13, RowsStep DEF Table

\* The wall clock goes on, or nothing happens.
LEMMA IdleRows ==
    ASSUME RowsInv, UNCHANGED <<vars, token, ctx, listVars>>, second' \in second..MaxSecond
    PROVE  RowsInv'
<1>1. UNCHANGED <<rows, drawns, ids, clock, shared, pc, tx, res, seen, stamp, found, got, had, back>>
  BY DEF vars, times, listVars
<1>2. second \in Nat /\ second' \in Nat /\ second <= second' /\ second' <= MaxSecond
  BY LifetimeAssumption DEF RowsInv
<1>3. Grown /\ \A t \in Table : Ids(t)' = Ids(t)
  <2>1. ids' \in [Table -> Nat] /\ clock' \in Nat /\ clock <= clock'
        /\ shared' \subseteq 0..clock' /\ \A t \in Table : ids[t] <= ids'[t]
    BY <1>1 DEF RowsInv, TableRows
  <2> QED BY <1>1, <1>2, <2>1, SameTables DEF RowsInv
<1>4. ASSUME NEW s \in Req PROVE /\ Asked[s].kind \in Table => Transaction(s)'
                                 /\ Asked[s].kind = "list" => Reader(s)'
                                 /\ Clocks(s)'
  <2>1. Asked[s].kind \in Table /\ Open(s) => tx[s].id \notin Ids(Asked[s].kind)'
    BY <1>3 DEF RowsInv, Transaction
  <2>2. Asked[s].kind \in Table => Transaction(s)'
    BY <1>1, <1>3, <2>1, TransactionKept DEF RowsInv
  <2>3. Asked[s].kind = "list" => Reader(s)'
    BY <1>1, <1>3, ReaderKept DEF RowsInv
  <2>4. Clocks(s)'
    BY <1>1, <1>2, <1>3, ClocksKept DEF RowsInv
  <2> QED BY <2>2, <2>3, <2>4
<1>5. OwnRows' /\ ListShapes'
  BY <1>1 DEF RowsInv, OwnRows, ListShapes, Open
<1>6. back' \subseteq Ids("conversation")' /\ TableRows' /\ second' \in 0..MaxSecond
  BY <1>1, <1>2, <1>3, LifetimeAssumption DEF RowsInv, Grown, Table
<1> QED
  BY <1>4, <1>5, <1>6 DEF RowsInv

LEMMA ReadTimeRows ==
    ASSUME Inv, RowsInv, NEW r \in Req, ReadTime(r), UNCHANGED accountVars
    PROVE  RowsInv'
<1>1. /\ pc[r] = "inserted" /\ Asked[r].kind = "message"
      /\ ReadClock /\ stamp' = [stamp EXCEPT ![r] = clock']
      /\ pc' = [pc EXCEPT ![r] = "stamped"]
      /\ UNCHANGED <<rows, drawns, ids, tx, res, seen, found, got, had, back, second, token, ctx>>
  BY DEF ReadTime, accountVars
<1>2. ids \in [Table -> Nat] /\ clock \in Nat /\ second \in Nat /\ second <= MaxSecond
      /\ shared \subseteq 0..clock
  BY LifetimeAssumption DEF RowsInv, TableRows
<1>3. /\ \A t \in Table : ids[t] <= ids'[t]
      /\ ids' \in [Table -> Nat]
      /\ clock' \in Nat /\ clock <= clock' /\ shared' \subseteq 0..clock'
  BY <1>1, <1>2, ReadClockStep
<1>4. Grown /\ \A t \in Table : Ids(t)' = Ids(t)
  BY <1>1, <1>2, <1>3, SameTables DEF RowsInv
<1>5. OthersToo(r) /\ pc'[r] = "stamped" /\ stamp'[r] = clock'
  <2>1. DOMAIN stamp = Req
    BY DEF RowsInv, ListShapes
  <2> QED BY <1>1, <2>1, Domains DEF OthersToo, Others, RowsInv, ListShapes
<1>6. Transaction(r)'
  <2>1. Transaction(r) /\ Open(r) /\ tx[r].at \in 0..clock
    BY <1>1 DEF RowsInv, Transaction, Open, Table
  <2>2. stamp'[r] \in 0..clock' /\ tx'[r].at <= stamp'[r] /\ tx'[r].at \in 0..clock'
    BY <1>1, <1>2, <1>3, <1>5, <2>1
  <2>3. /\ Ids(Asked[r].kind)' = Ids(Asked[r].kind)
        /\ Ids("conversation")' = Ids("conversation")
        /\ Given(Asked[r].kind)' = Given(Asked[r].kind)
    BY <1>1, <1>4 DEF Table, Given, Registering
  <2> QED BY <1>1, <1>5, <2>1, <2>2, <2>3 DEF Transaction, Open
<1>7. Clocks(r)'
  BY <1>1, <1>2, <1>3, <1>5 DEF RowsInv, Clocks
<1>8. back' \subseteq Ids("conversation")' /\ second' \in Nat /\ Open(r) /\ tx'[r] = tx[r]
  BY <1>1, <1>2, <1>4 DEF RowsInv, Table, Open
<1> QED
  BY <1>1, <1>4, <1>5, <1>6, <1>7, <1>8, RowsStep

\* The message comes with its conversation's new time.
LEMMA SaveMessageRows ==
    ASSUME Inv, RowsInv, NEW r \in Req, SaveMessage(r), UNCHANGED accountVars
    PROVE  RowsInv'
<1> DEFINE k == Asked[r].conv
<1>1. PICK new : new = tx[r].id
  OBVIOUS
<1>2. /\ pc[r] = "stamped" /\ Asked[r].kind = "message"
      /\ \E x \in {0, new} : Answer(r, x)
      /\ back' \subseteq back \cup {k}
      /\ UNCHANGED <<drawns, ids, clock, shared, tx, seen, stamp, found, got, had, second, token, ctx>>
  BY <1>1 DEF SaveMessage, accountVars, times, Inv, Stages
<1>3. "message" \in Table /\ Open(r) /\ DOMAIN rows = Table /\ second \in Nat /\ second <= MaxSecond
  BY <1>2, LifetimeAssumption DEF Table, Open, RowsInv, TableRows
<1>4. /\ new \in Given("message") \ Ids("message") /\ tx[r].at \in 0..clock
      /\ stamp[r] \in 0..clock /\ k \in Ids("conversation")
      /\ \A u : Given(u)' = Given(u)
  BY <1>1, <1>2, <1>3 DEF RowsInv, Transaction, Given, Registering
<1>5. /\ rows'["message"] = With(rows["message"], new, NewMessage(r)) /\ DOMAIN rows' = Table
      /\ rows'["conversation"] = [rows["conversation"] EXCEPT ![k].at = stamp[r]]
      /\ rows'["whiteboard"] = rows["whiteboard"] /\ rows'["account"] = rows["account"]
  BY <1>1, <1>3 DEF SaveMessage, MessageAndConversation, Table
<1>6. /\ Ids("message")' = Ids("message") \cup {new} /\ rows'["message"][new] = NewMessage(r)
      /\ \A m \in Ids("message") : rows'["message"][m] = rows["message"][m]
      /\ \A u \in Table \ {"message"} : Ids(u)' = Ids(u)
  BY <1>4, <1>5 DEF With, Ids, Table
<1>7. \A u \in Table : Ids(u) \subseteq Ids(u)' /\ Ids(u)' \subseteq Given(u)'
  BY <1>4, <1>6 DEF RowsInv, TableRows
<1>8. TableRows'
  <2>1. ASSUME NEW c \in Ids("conversation")
        PROVE  rows'["conversation"][c] \in [users : Seq(User), at : 0..clock]
    <3>1. rows["conversation"][c] \in [users : Seq(User), at : 0..clock]
      BY <2>1 DEF RowsInv, TableRows
    <3>2. CASE c = k
      BY <1>4, <1>5, <2>1, <3>1, <3>2 DEF Ids
    <3>3. CASE c # k
      BY <1>5, <2>1, <3>1, <3>3 DEF Ids
    <3> QED BY <3>2, <3>3
  <2>2. ASSUME NEW m \in Ids("message")'
        PROVE  rows'["message"][m] \in [conv : Ids("conversation"), at : 0..clock]
    <3>1. CASE m = new
      <4>1. NewMessage(r) \in [conv : Ids("conversation"), at : 0..clock]
        BY <1>4 DEF NewMessage
      <4> QED BY <1>6, <3>1, <4>1
    <3>2. CASE m \in Ids("message")
      BY <1>6, <3>2 DEF RowsInv, TableRows
    <3> QED BY <1>6, <2>2, <3>1, <3>2
  <2>3. Ids("conversation")' = Ids("conversation") /\ Ids("whiteboard")' = Ids("whiteboard")
    BY <1>6 DEF Table
  <2>4. /\ ids' \in [Table -> Nat] /\ clock' \in Nat /\ DOMAIN rows' = Table
        /\ shared' \subseteq 0..clock'
        /\ \A t \in Table : Ids(t)' \subseteq Given(t)'
    BY <1>2, <1>5, <1>7 DEF RowsInv, TableRows
  <2>7. IsFiniteSet(Ids("account")')
    BY <1>5 DEF RowsInv, TableRows, Ids
  <2>5. /\ \A b \in Ids("whiteboard")' : rows'["whiteboard"][b] \in Ids("conversation")'
        /\ drawns' \in Seq([board : Nat, drawer : User])
        /\ \A i \in DOMAIN drawns' : drawns'[i].board \in Ids("whiteboard")'
    BY <1>2, <1>5, <2>3 DEF RowsInv, TableRows
  <2>6. /\ \A c \in Ids("conversation")' :
               rows'["conversation"][c] \in [users : Seq(User), at : 0..clock']
        /\ \A m \in Ids("message")' :
               rows'["message"][m] \in [conv : Ids("conversation")', at : 0..clock']
    BY <1>2, <2>1, <2>2, <2>3
  <2> QED BY <2>4, <2>5, <2>6, <2>7 DEF TableRows
<1>9. Grown
  BY <1>2, <1>3, <1>7, <1>8 DEF Grown, RowsInv, TableRows
<1>10. OthersToo(r) /\ pc'[r] = "done" /\ res'[r] \in {0, new}
  <2>1. PICK x \in {0, new} : Answer(r, x)
    BY <1>2
  <2>2. Others(r) /\ pc'[r] = "done" /\ res'[r] = x
    BY <1>2, <2>1, Domains DEF Answer, Others
  <2> QED BY <1>2, <2>2, OthersTooAside
<1>11. Transaction(r)' /\ ~Open(r)'
  BY <1>2, <1>3, <1>6, <1>7, <1>10 DEF RowsInv, Transaction, Open
<1>12. Clocks(r)' /\ back' \subseteq Ids("conversation")'
  BY <1>2, <1>4, <1>7 DEF RowsInv, Clocks, Table
<1>13. \A u \in Table : Ids(u)' \subseteq Ids(u) \cup NewRows(r, u)
  BY <1>1, <1>2, <1>3, <1>6 DEF NewRows
<1> QED
  BY <1>2, <1>3, <1>9, <1>10, <1>11, <1>12, <1>13, RowsStep

\* The rows of a list, and its times, which the clock gave.
LEMMA ListedRows ==
    ASSUME RowsInv, NEW r \in Req, Asked[r].kind = "list"
    PROVE  /\ Asked[r].of \in Table
           /\ Listed(r) \subseteq Ids(Asked[r].of) /\ Ids(Asked[r].of) \subseteq Nat
           /\ IsFiniteSet(Listed(r))
           /\ \A x \in Listed(r) : Time(r, x) \in 0..clock
<1>1. Asked[r].of \in {"message", "account", "conversation"}
  BY ListsAskedAssumption
<1>2. Listed(r) \subseteq Ids(Asked[r].of)
  BY <1>1 DEF Listed, Ids
<1>3. Asked[r].of \in Table
  BY <1>1 DEF Table
<1>4. Ids(Asked[r].of) \subseteq Nat
  BY <1>3, GivenIds DEF RowsInv
<1>5. IsFiniteSet(Listed(r))
  <2>1. CASE Asked[r].of = "account"
    BY <1>2, <2>1, FS_Subset DEF RowsInv, TableRows
  <2>2. CASE Asked[r].of # "account"
    <3>1. ids[Asked[r].of] \in Nat /\ Ids(Asked[r].of) \subseteq 1..ids[Asked[r].of]
      BY <1>3, <2>2, GivenIds DEF RowsInv
    <3>2. \A x \in Listed(r) : x \in Nat /\ x <= ids[Asked[r].of]
      BY <1>2, <3>1
    <3> HIDE DEF Listed
    <3> QED BY <3>1, <3>2, FS_BoundedSetOfNaturals
  <2> QED BY <2>1, <2>2
<1>6. \A x \in Listed(r) : Time(r, x) \in 0..clock
  BY <1>1, <1>2 DEF RowsInv, TableRows, Time
<1> QED
  BY <1>2, <1>3, <1>4, <1>5, <1>6

LEMMA FindRows ==
    ASSUME Inv, RowsInv, NEW r \in Req, Find(r), UNCHANGED accountVars
    PROVE  RowsInv'
<1>1. /\ Asked[r].kind = "list" /\ Listed(r) \subseteq Ids(Asked[r].of)
      /\ \A x \in Listed(r) : Time(r, x) \in 0..clock
  BY ListedRows DEF Find
<1>2. /\ UNCHANGED <<rows, drawns, ids, clock, shared, tx, seen, stamp, back, got, second, token, ctx>>
      /\ had' = had \/ had' = [had EXCEPT ![r] = {[id |-> x, at |-> Time(r, x)] : x \in Listed(r)}]
  BY DEF Find, Unread, database, times, accountVars
<1>3. DOMAIN found = Req /\ DOMAIN had = Req
  BY DEF RowsInv, ListShapes
<1>4. /\ Others(r)
      /\ \/ pc'[r] = "found" /\ \E page \in Paginate(r) : found' = [found EXCEPT ![r] = page]
         \/ pc'[r] = "done" /\ found' = found
  BY <1>2, Domains DEF Find, Others, Answer
<1>5. found'[r] \subseteq Ids(Asked[r].of)
  <2>1. \A page \in Paginate(r) : page \subseteq Listed(r)
    BY DEF Paginate, Starts, kSubset
  <2>2. found[r] \subseteq Ids(Asked[r].of)
    BY <1>1 DEF RowsInv, Reader
  <2> QED BY <1>1, <1>3, <1>4, <2>1, <2>2
<1>6. \A h \in had'[r] : h \in [id : Ids(Asked[r].of), at : 0..clock]
  BY <1>1, <1>2, <1>3 DEF RowsInv, Reader
<1>7. Ids(Asked[r].of)' = Ids(Asked[r].of)
  BY <1>2 DEF Ids
<1>8. Reader(r)'
  <2>1. Reader(r)
    BY <1>1 DEF RowsInv
  <2> QED BY <1>2, <1>4, <1>5, <1>6, <1>7, <2>1 DEF Reader
<1>9. Clocks(r)'
  BY <1>2 DEF RowsInv, Clocks
<1>10. Still(r)
  <2>1. \A s \in Req \ {r} : found'[s] = found[s] /\ had'[s] = had[s]
    BY <1>2, <1>3, <1>4
  <2>2. DOMAIN found' = Req /\ DOMAIN had' = Req
    BY <1>2, <1>3, <1>4
  <2> QED BY <1>2, <1>4, <2>1, <2>2 DEF Still, OthersToo, RowsInv, ListShapes
<1> QED
  BY <1>1, <1>8, <1>9, <1>10, StillStep DEF Table

LEMMA CountRows ==
    ASSUME Inv, RowsInv, NEW r \in Req, Count(r), UNCHANGED accountVars
    PROVE  RowsInv'
<1> DEFINE page == [ids |-> found[r], total |-> Total(r)]
<1>1. /\ Asked[r].kind = "list" /\ pc[r] = "found"
      /\ UNCHANGED <<rows, drawns, ids, clock, shared, tx, seen, stamp, back, found, had, second, token, ctx>>
  BY DEF Count, Unread, database, times, accountVars, Inv, Stages
<1>2. IsFiniteSet(Listed(r)) /\ Ids(Asked[r].of) \subseteq Nat
  BY <1>1, ListedRows
<1>3. Reader(r) /\ DOMAIN got = Req
  BY <1>1 DEF RowsInv, ListShapes
<1>4. page \in [ids : SUBSET Nat, total : Nat] /\ page.ids \subseteq Ids(Asked[r].of)
  <2>1. Total(r) \in Nat
    BY <1>2, FS_CardinalityType DEF Total
  <2> QED BY <1>2, <1>3, <2>1 DEF Reader
<1>5. /\ Others(r) /\ pc'[r] \in {"paged", "done"}
      /\ got' = got \/ got' = [got EXCEPT ![r] = Append(got[r], page)]
  BY <1>1, Domains DEF Count, Others, Answer
<1> HIDE DEF page
<1>6. /\ got'[r] \in Seq([ids : SUBSET Nat, total : Nat])
      /\ \A p \in DOMAIN got'[r] : got'[r][p].ids \subseteq Ids(Asked[r].of)
      /\ \A s \in Req \ {r} : got'[s] = got[s]
      /\ DOMAIN got' = Req
  <2>1. /\ got[r] \in Seq([ids : SUBSET Nat, total : Nat])
        /\ \A p \in DOMAIN got[r] : got[r][p].ids \subseteq Ids(Asked[r].of)
    BY <1>3 DEF Reader
  <2>2. CASE got' = got
    BY <1>3, <2>1, <2>2
  <2>3. CASE got' = [got EXCEPT ![r] = Append(got[r], page)]
    <3>1. got'[r] = Append(got[r], page) /\ \A s \in Req \ {r} : got'[s] = got[s]
      BY <1>3, <2>3
    <3>2. /\ Append(got[r], page) \in Seq([ids : SUBSET Nat, total : Nat])
          /\ Len(Append(got[r], page)) = Len(got[r]) + 1
          /\ \A i \in 1..Len(got[r]) : Append(got[r], page)[i] = got[r][i]
          /\ Append(got[r], page)[Len(got[r]) + 1] = page
      BY <1>4, <2>1, AppendProperties
    <3>3. /\ DOMAIN Append(got[r], page) = 1..Len(got[r]) + 1
          /\ DOMAIN got[r] = 1..Len(got[r]) /\ Len(got[r]) \in Nat
      BY <2>1, <3>2, LenProperties
    <3>4. ASSUME NEW p \in DOMAIN Append(got[r], page)
          PROVE  Append(got[r], page)[p].ids \subseteq Ids(Asked[r].of)
      <4>1. CASE p \in 1..Len(got[r])
        BY <2>1, <3>2, <3>3, <4>1
      <4>2. CASE p = Len(got[r]) + 1
        BY <1>4, <3>2, <4>2
      <4> QED BY <3>3, <3>4, <4>1, <4>2
    <3> QED BY <1>3, <2>3, <3>1, <3>2, <3>4
  <2> QED BY <1>5, <2>2, <2>3
<1>7. Ids(Asked[r].of)' = Ids(Asked[r].of)
  BY <1>1 DEF Ids
<1>8. Reader(r)'
  BY <1>1, <1>3, <1>5, <1>6, <1>7 DEF Reader
<1>9. Clocks(r)'
  BY <1>1 DEF RowsInv, Clocks
<1>10. Still(r)
  BY <1>1, <1>5, <1>6 DEF Still, OthersToo, RowsInv, ListShapes
<1> QED
  BY <1>1, <1>8, <1>9, <1>10, StillStep DEF Table

LEMMA InsertMessageRows ==
    ASSUME Inv, RowsInv, NEW r \in Req, InsertMessage(r), UNCHANGED accountVars
    PROVE  RowsInv'
<1>1. UNCHANGED <<listVars, second, token, ctx>>
  BY DEF InsertMessage, accountVars
<1>2. CASE Asked[r].conv \in DOMAIN rows["conversation"] /\ Insert(r, "message")
  BY <1>1, <1>2, InsertRows DEF Ids, Table, InsertMessage
<1>3. CASE TakeId("message") /\ Answer(r, 0) /\ UNCHANGED <<rows, drawns, times, tx, seen>>
  <2>1. Asked[r].kind = "message" /\ "message" \in Table
    BY DEF InsertMessage, Table
  <2>2. Others(r) /\ pc'[r] = "done" /\ res'[r] = 0
    BY <1>3, Domains DEF Answer, Others
  <2>3. \A t : Ids(t)' = Ids(t)
    BY <1>3 DEF Ids
  <2>4. Transaction(r)' /\ ~Open(r)'
    BY <1>3, <2>1, <2>2, <2>3 DEF RowsInv, Transaction, Open
  <2> QED BY <1>1, <1>3, <2>1, <2>2, <2>4, SequenceStep
<1> QED
  BY <1>2, <1>3 DEF InsertMessage

LEMMA NextRows == Inv /\ RowsInv /\ [RestNext]_restVars => RowsInv'
<1> SUFFICES ASSUME Inv, RowsInv, [RestNext]_restVars PROVE RowsInv'
  OBVIOUS
<1>1. ASSUME NEW r \in Req, Request(r), UNCHANGED <<accountVars, listVars>> PROVE RowsInv'
  BY <1>1, RequestRows
<1>2. ASSUME NEW r \in Req, AccountRequest(r), UNCHANGED listVars PROVE RowsInv'
  BY <1>2, AccountRows
<1>3. ASSUME NEW r \in Req, ListRequest(r), UNCHANGED accountVars PROVE RowsInv'
  BY <1>3, InsertMessageRows, ReadTimeRows, SaveMessageRows, FindRows, CountRows DEF ListRequest
<1>4. second \in Nat /\ second <= MaxSecond
  BY LifetimeAssumption DEF RowsInv
<1>5. CASE Tick /\ UNCHANGED listVars
  BY <1>4, <1>5, LifetimeAssumption, IdleRows DEF Tick
<1>6. CASE UNCHANGED restVars
  BY <1>4, <1>6, LifetimeAssumption, IdleRows DEF restVars, accountVars
<1>7. CASE Answered /\ UNCHANGED <<accountVars, listVars>>
  BY <1>4, <1>7, LifetimeAssumption, IdleRows DEF Answered, accountVars
<1> QED
  BY <1>1, <1>2, <1>3, <1>5, <1>6, <1>7 DEF RestNext

LEMMA InitRows == RestInit => RowsInv
<1> SUFFICES ASSUME RestInit PROVE RowsInv
  OBVIOUS
<1>1. PICK load \in Loads :
        /\ rows = [t \in Table |-> CASE t = "conversation" ->
                                            [c \in DOMAIN load.conversations |->
                                                [users |-> load.conversations[c], at |-> c]]
                                     [] t = "account" -> load.accounts
                                     [] OTHER -> <<>>]
        /\ drawns = <<>>
        /\ ids = [t \in Table |-> CASE t = "conversation" -> Len(load.conversations)
                                    [] t = "account" -> Len(load.accounts)
                                    [] OTHER -> 0]
        /\ clock = Len(load.conversations) /\ shared = {}
        /\ pc = [r \in Req |-> IF r \in load.reqs THEN "new" ELSE "done"]
        /\ tx = [r \in Req |-> [id |-> 0, at |-> 0]]
        /\ res = [r \in Req |-> 0]
        /\ seen = [r \in Req |-> {}]
  BY DEF RestInit, Init
<1>2. /\ load.conversations \in Seq(Seq(User)) /\ load.accounts \in Seq(UserRow)
  BY LoadsAssumption
<1>3. /\ DOMAIN load.conversations = 1..Len(load.conversations) /\ Len(load.conversations) \in Nat
      /\ DOMAIN load.accounts = 1..Len(load.accounts) /\ Len(load.accounts) \in Nat
  BY <1>2, LenProperties
<1>4. /\ rows["conversation"] = [c \in DOMAIN load.conversations |->
                                  [users |-> load.conversations[c], at |-> c]]
      /\ rows["account"] = load.accounts
      /\ rows["whiteboard"] = <<>> /\ rows["message"] = <<>>
      /\ DOMAIN rows = Table
  BY <1>1 DEF Table
<1>5. /\ ids["conversation"] = Len(load.conversations)
      /\ ids["account"] = Len(load.accounts)
      /\ ids["whiteboard"] = 0 /\ ids["message"] = 0
      /\ ids \in [Table -> Nat]
  BY <1>1, <1>3 DEF Table
<1>6. /\ Ids("conversation") = 1..Len(load.conversations) /\ Ids("account") = 1..Len(load.accounts)
      /\ Ids("whiteboard") = {} /\ Ids("message") = {}
  <2>1. DOMAIN <<>> = {}
    OBVIOUS
  <2> QED BY <1>3, <1>4, <2>1 DEF Ids
<1>7. \A c \in Ids("conversation") : rows["conversation"][c] \in [users : Seq(User), at : 0..clock]
  <2> SUFFICES ASSUME NEW c \in Ids("conversation")
               PROVE  rows["conversation"][c] \in [users : Seq(User), at : 0..clock]
    OBVIOUS
  <2>1. c \in 0..clock /\ c \in DOMAIN load.conversations
    BY <1>1, <1>3, <1>6
  <2>2. load.conversations[c] \in Seq(User)
    BY <1>2, <1>3, <2>1, ElementOfSeq
  <2> QED BY <1>4, <2>1, <2>2
<1>8. TableRows
  <2>1. \A t \in Table : Ids(t) \subseteq Given(t)
    BY <1>5, <1>6 DEF Table, Given
  <2>3. IsFiniteSet(Ids("account"))
    BY <1>3, <1>6, FS_Interval
  <2>2. drawns \in Seq([board : Nat, drawer : User]) /\ DOMAIN drawns = {}
    BY <1>1
  <2> QED BY <1>1, <1>3, <1>4, <1>5, <1>6, <1>7, <2>1, <2>2, <2>3 DEF TableRows
<1>9. \A r \in Req : /\ pc[r] \in {"new", "done"} /\ tx[r] = [id |-> 0, at |-> 0]
                     /\ res[r] = 0 /\ seen[r] = {}
                     /\ stamp[r] = 0 /\ found[r] = {} /\ got[r] = <<>> /\ had[r] = {}
                     /\ token[r].until = 0 /\ ctx[r].at = 0
  BY <1>1 DEF RestInit, AccountsInit, ListsInit
<1>10. ListShapes /\ second = 0 /\ back = {}
  BY DEF RestInit, AccountsInit, ListsInit, ListShapes
<1>11. OwnRows
  BY <1>9 DEF OwnRows, Open
<1>12. ASSUME NEW r \in Req PROVE Transaction(r) /\ Reader(r) /\ Clocks(r)
  <2>1. Transaction(r)
    BY <1>9 DEF Transaction, Open
  <2>2. got[r] \in Seq([ids : SUBSET Nat, total : Nat]) /\ DOMAIN got[r] = {}
    <3>1. <<>> \in Seq([ids : SUBSET Nat, total : Nat])
      BY EmptySeq
    <3>2. got[r] = <<>> /\ DOMAIN <<>> = {}
      BY <1>9
    <3> QED BY <3>1, <3>2
  <2>3. Reader(r)
    <3>1. pc[r] \in {"new", "found", "paged", "done"} /\ found[r] = {} /\ had[r] = {}
      BY <1>9
    <3> QED BY <2>2, <3>1 DEF Reader
  <2>4. Clocks(r)
    <3>1. clock \in Nat /\ MaxSecond + Lifetime \in Nat
      BY <1>1, <1>3, LifetimeAssumption
    <3>2. 0 \in 0..clock /\ 0 \in 0..MaxSecond + Lifetime /\ 0 \in 0..second
      BY <1>10, <3>1
    <3> QED BY <1>9, <3>2 DEF Clocks
  <2> QED BY <2>1, <2>3, <2>4
<1> QED
  BY <1>8, <1>10, <1>11, <1>12, LifetimeAssumption DEF RowsInv

(***************************************************************************)
(* Theorems about rows                                                     *)
(***************************************************************************)

LEMMA SeqOfOthers ==
    ASSUME NEW S, NEW T, NEW s \in Seq(S), \A i \in 1..Len(s) : s[i] \in T
    PROVE  s \in Seq(T)
<1>1. Len(s) \in Nat /\ s \in [1..Len(s) -> S]
  BY LenProperties
<1>2. s \in [1..Len(s) -> T]
  BY <1>1
<1> QED
  BY <1>1, <1>2, SeqDef

\* Whoever asks, waits or fails in between, every row has an id its sequence gave, or
\* that the body of its registration brought, and refers to rows that are there; no
\* row has the id of an open transaction, no time is later than the clock, and tokens, requests under way, answers and pages speak of rows that are there.
THEOREM RestTypeCorrect == RestSpec => []RestTypeOK
<1>1. Inv /\ RowsInv => RestTypeOK
  <2> SUFFICES ASSUME Inv, RowsInv PROVE RestTypeOK
    OBVIOUS
  <2>1. TypeOK
    <3>1. drawns \in Seq([board : Ids("whiteboard"), drawer : User])
      <4>1. /\ drawns \in Seq([board : Nat, drawer : User])
            /\ \A i \in DOMAIN drawns : drawns[i].board \in Ids("whiteboard")
        BY DEF RowsInv, TableRows
      <4>2. ASSUME NEW i \in 1..Len(drawns)
            PROVE  drawns[i] \in [board : Ids("whiteboard"), drawer : User]
        <5>1. PICK d \in [board : Nat, drawer : User] : d = drawns[i]
          BY <4>1, ElementOfSeq
        <5>2. d.board \in Ids("whiteboard")
          BY <4>1, <5>1, LenProperties
        <5> QED BY <5>1, <5>2
      <4> QED BY <4>1, <4>2, SeqOfOthers
    <3>2. \A a \in Ids("account") : rows["account"][a] \in UserRow
      BY DEF Inv, Rows
    <3>3. ASSUME NEW r \in Req, Asked[r].kind \in Table
          PROVE  /\ pc[r] \in {"new", "missing", "numbered", "inserted", "stamped", "done"}
                 /\ seen[r] \subseteq Ids(Asked[r].kind)
                 /\ res[r] \in Ids(Asked[r].kind) \cup {0}
                 /\ pc[r] \in {"inserted", "stamped"} =>
                      tx[r].id \in Given(Asked[r].kind) \ Ids(Asked[r].kind) /\ tx[r].at \in 0..clock
                 /\ pc[r] = "numbered" =>
                      Asked[r].kind = "account" /\ tx[r].id \in Given(Asked[r].kind)
      BY <3>3 DEF RowsInv, Transaction, Open
    <3> QED BY <3>1, <3>2, <3>3 DEF TypeOK, RowsInv, TableRows
  <2>2. AccountsTypeOK
    <3>1. DOMAIN objects \subseteq Key /\ Range(objects) \subseteq Req
      BY DEF Inv, Uploaded, Range
    <3>2. ASSUME NEW r \in Req
          PROVE  /\ token[r].id \in Account \cup {0}
                 /\ token[r].until \in 0..MaxSecond + Lifetime
                 /\ ctx[r].user \in Account \cup {0} /\ ctx[r].at \in 0..second
                 /\ ctx[r].name \in Name \cup {Nil} /\ ctx[r].before \subseteq Req
                 /\ pc[r] \in {"named", "stored"} => Asked[r].kind = "photo" /\ ctx[r].user # 0
                 /\ pc[r] = "updated" => Asked[r].kind = "names" /\ ctx[r].user # 0
      <4>1. token[r].until \in 0..MaxSecond + Lifetime /\ ctx[r].at \in 0..second
        BY DEF RowsInv, Clocks
      <4>2. ctx[r].name \in Name \cup {Nil} /\ ctx[r].before \subseteq Req
        BY DEF Inv, Shapes
      <4> QED BY <4>1, <4>2 DEF Inv, Holders, Stages, Account, Ids
    <3> QED BY <3>1, <3>2 DEF AccountsTypeOK, RowsInv
  <2>3. ListsTypeOK
    <3>1. ASSUME NEW r \in Req, Asked[r].kind = "list"
          PROVE  /\ pc[r] \in {"new", "found", "paged", "done"}
                 /\ found[r] \subseteq Ids(Asked[r].of)
                 /\ had[r] \in SUBSET [id : Ids(Asked[r].of), at : 0..clock]
                 /\ \A p \in DOMAIN got[r] :
                        got[r][p] \in [ids : SUBSET Ids(Asked[r].of), total : Nat]
      <4>1. Reader(r)
        BY <3>1 DEF RowsInv
      <4>2. ASSUME NEW p \in DOMAIN got[r]
            PROVE  got[r][p] \in [ids : SUBSET Ids(Asked[r].of), total : Nat]
        <5>1. got[r] \in Seq([ids : SUBSET Nat, total : Nat]) /\ got[r][p].ids \subseteq Ids(Asked[r].of)
          BY <4>1 DEF Reader
        <5>2. got[r][p] \in [ids : SUBSET Nat, total : Nat]
          BY <4>2, <5>1, LenProperties, ElementOfSeq
        <5> QED BY <5>1, <5>2
      <4> QED BY <4>1, <4>2 DEF Reader
    <3>2. ASSUME NEW r \in Req
          PROVE  stamp[r] \in 0..clock /\ (pc[r] = "stamped" => Asked[r].conv \in Ids("conversation"))
      <4>1. pc[r] = "stamped" => Asked[r].kind = "message" /\ "message" \in Table /\ Open(r)
        BY DEF Inv, Stages, Open, Table
      <4> QED BY <4>1 DEF RowsInv, Clocks, Transaction
    <3> QED BY <3>1, <3>2 DEF ListsTypeOK, RowsInv, Ids
  <2> QED BY <2>1, <2>2, <2>3 DEF RestTypeOK
<1> QED BY <1>1, InitInv, NextInv, InitRows, NextRows, PTL DEF RestSpec

(***************************************************************************)
(* How the rows change                                                     *)
(***************************************************************************)

\* No conversation, whiteboard, drawn or message comes or changes.
ListsStay ==
    /\ \A t \in Table \ {"account"} : rows'[t] = rows[t]
    /\ UNCHANGED <<drawns, back>>

\* Only three steps change them.
LEMMA RowSteps ==
    ASSUME Inv, RowsInv, [RestNext]_restVars
    PROVE  \/ ListsStay
           \/ /\ UNCHANGED listVars
              /\ \E r \in Req : pc[r] = "inserted" /\ CreateConversation(r)
           \/ /\ UNCHANGED listVars
              /\ \E r \in Req : pc[r] = "inserted" /\ CreateNewWhiteboard(r)
           \/ \E r \in Req : SaveMessage(r)
<1>1. ASSUME UNCHANGED <<rows, drawns, back>> PROVE ListsStay
  BY <1>1 DEF ListsStay
<1>2. ASSUME NEW r \in Req, Request(r), UNCHANGED listVars,
             ~(pc[r] = "inserted" /\ CreateConversation(r)),
             ~(pc[r] = "inserted" /\ CreateNewWhiteboard(r))
      PROVE  ListsStay
  <2>1. UNCHANGED back
    BY <1>2 DEF listVars
  <2>2. CASE Commit(r, "account", NewUser(r)) /\ UNCHANGED drawns
    BY <2>1, <2>2 DEF ListsStay, Commit, RowsInv, TableRows, Table
  <2>3. CASE UNCHANGED <<rows, drawns>>
    BY <1>1, <2>1, <2>3
  <2> QED
    BY <1>2, <2>2, <2>3 DEF Request, LookForConversation, LookForWhiteboard, LookForUser, Look,
       CreateConversation, CreateNewWhiteboard, CreateUser, TakeUserId, InsertUser, Rollback,
       Insert, Commit, database
<1>3. ASSUME NEW r \in Req, AccountRequest(r), UNCHANGED listVars PROVE ListsStay
  <2>1. \/ rows' = rows
        \/ \E a, k : rows' = [rows EXCEPT !["account"][a].photo = k]
        \/ \E a, n : rows' = [rows EXCEPT !["account"][a].name = n]
    BY <1>3 DEF AccountRequest, Login, UploadUserProfilePhoto, UploadFile, UpdateUserProfilePhoto,
       UpdateUser, UpdateNames, WriteName, AnswerProfile, Reject
  <2>2. UNCHANGED <<drawns, back>>
    BY <1>3 DEF AccountRequest, Login, UploadUserProfilePhoto, UploadFile, UpdateUserProfilePhoto,
       UpdateUser, AnswerProfile, Arrives, Beside, listVars
  <2> QED BY <2>1, <2>2 DEF ListsStay, RowsInv, TableRows
<1>4. ASSUME NEW r \in Req, ListRequest(r), ~SaveMessage(r) PROVE ListsStay
  BY <1>1, <1>4 DEF ListRequest, InsertMessage, Insert, ReadTime, Find, Count, Unread, database, listVars
<1>5. CASE Tick /\ UNCHANGED listVars
  BY <1>1, <1>5 DEF Tick, vars, listVars
<1>6. CASE UNCHANGED restVars
  BY <1>1, <1>6 DEF restVars, vars, listVars
<1>7. CASE Answered /\ UNCHANGED <<accountVars, listVars>>
  BY <1>1, <1>7 DEF Answered, vars, listVars
<1> QED
  BY <1>2, <1>3, <1>4, <1>5, <1>6, <1>7 DEF RestNext

\* A commit adds the row that r inserted to its table, and leaves the other rows.
LEMMA Committed ==
    ASSUME Inv, RowsInv, NEW r \in Req, NEW t \in Table, NEW row, Commit(r, t, row)
    PROVE  /\ tx[r].id \in Nat \ Ids(t) /\ tx[r].at \in 0..clock
           /\ Ids(t)' = Ids(t) \cup {tx[r].id} /\ rows'[t][tx[r].id] = row
           /\ \A x \in Ids(t) : rows'[t][x] = rows[t][x]
           /\ \A u \in Table \ {t} : rows'[u] = rows[u]
<1>1. PICK new : new = tx[r].id
  OBVIOUS
<1>2. /\ Asked[r].kind = t /\ pc[r] = "inserted"
      /\ rows' = [rows EXCEPT ![t] = With(rows[t], new, row)] /\ DOMAIN rows = Table
  BY <1>1 DEF Commit, RowsInv, TableRows
<1>3. new \in Nat \ Ids(t) /\ tx[r].at \in 0..clock
  BY <1>1, <1>2, GivenIds DEF RowsInv, Transaction, Open
<1>4. rows'[t] = With(rows[t], new, row) /\ \A u \in Table \ {t} : rows'[u] = rows[u]
  BY <1>2
<1>5. /\ Ids(t)' = Ids(t) \cup {new} /\ rows'[t][new] = row
      /\ \A x \in Ids(t) : rows'[t][x] = rows[t][x]
  BY <1>3, <1>4 DEF With, Ids
<1> QED
  BY <1>1, <1>3, <1>4, <1>5

\* What the commits of a conversation and of a whiteboard change.
LEMMA ConversationCommitted ==
    ASSUME Inv, RowsInv, NEW r \in Req, pc[r] = "inserted", CreateConversation(r)
    PROVE  /\ Asked[r].kind = "conversation"
           /\ tx[r].id \in Nat \ Ids("conversation") /\ tx[r].at \in 0..clock
           /\ Ids("conversation")' = Ids("conversation") \cup {tx[r].id}
           /\ rows'["conversation"][tx[r].id] = [users |-> Asked[r].users, at |-> tx[r].at]
           /\ \A c \in Ids("conversation") : rows'["conversation"][c] = rows["conversation"][c]
           /\ rows'["whiteboard"] = rows["whiteboard"] /\ rows'["message"] = rows["message"]
           /\ drawns' = drawns
<1>1. /\ Commit(r, "conversation", [users |-> Asked[r].users, at |-> tx[r].at])
      /\ UNCHANGED drawns /\ Asked[r].kind = "conversation"
  BY DEF CreateConversation, Commit
<1> QED
  BY <1>1, Committed DEF Table

LEMMA WhiteboardCommitted ==
    ASSUME Inv, RowsInv, NEW r \in Req, pc[r] = "inserted", CreateNewWhiteboard(r)
    PROVE  /\ tx[r].id \in Nat \ Ids("whiteboard") /\ Asked[r].conv \in Ids("conversation")
           /\ Ids("whiteboard")' = Ids("whiteboard") \cup {tx[r].id}
           /\ rows'["whiteboard"][tx[r].id] = Asked[r].conv
           /\ \A b \in Ids("whiteboard") : rows'["whiteboard"][b] = rows["whiteboard"][b]
           /\ rows'["conversation"] = rows["conversation"] /\ rows'["message"] = rows["message"]
           /\ LET members == rows["conversation"][Asked[r].conv].users
              IN  drawns' = drawns \o
                      [i \in DOMAIN members |-> [board |-> tx[r].id, drawer |-> members[i]]]
<1>1. Commit(r, "whiteboard", Asked[r].conv) /\ Asked[r].kind = "whiteboard"
  BY DEF CreateNewWhiteboard, Commit
<1>2. Asked[r].conv \in Ids("conversation")
  BY <1>1 DEF RowsInv, Transaction, Table
<1>3. LET members == rows["conversation"][Asked[r].conv].users
      IN  drawns' = drawns \o
              [i \in DOMAIN members |-> [board |-> tx[r].id, drawer |-> members[i]]]
  BY DEF CreateNewWhiteboard, Insert
<1>4. /\ tx[r].id \in Nat \ Ids("whiteboard")
      /\ Ids("whiteboard")' = Ids("whiteboard") \cup {tx[r].id}
      /\ rows'["whiteboard"][tx[r].id] = Asked[r].conv
      /\ \A b \in Ids("whiteboard") : rows'["whiteboard"][b] = rows["whiteboard"][b]
      /\ rows'["conversation"] = rows["conversation"] /\ rows'["message"] = rows["message"]
  BY <1>1, Committed DEF Table
<1> QED
  BY <1>2, <1>3, <1>4

\* A saved message is added, and its conversation gets the time read for it.
LEMMA MessageSaved ==
    ASSUME Inv, RowsInv, NEW r \in Req, SaveMessage(r)
    PROVE  /\ Asked[r].kind = "message" /\ Open(r)
           /\ tx[r].id \in Nat \ Ids("message") /\ Asked[r].conv \in Ids("conversation")
           /\ tx[r].at \in 0..clock /\ stamp[r] \in 0..clock /\ tx[r].at <= stamp[r]
           /\ Ids("message")' = Ids("message") \cup {tx[r].id}
           /\ rows'["message"][tx[r].id] = [conv |-> Asked[r].conv, at |-> tx[r].at]
           /\ \A m \in Ids("message") : rows'["message"][m] = rows["message"][m]
           /\ Ids("conversation")' = Ids("conversation")
           /\ rows'["conversation"] = [rows["conversation"] EXCEPT ![Asked[r].conv].at = stamp[r]]
           /\ rows'["whiteboard"] = rows["whiteboard"] /\ drawns' = drawns
           /\ back' = IF stamp[r] < rows["conversation"][Asked[r].conv].at
                      THEN back \cup {Asked[r].conv} ELSE back
<1> DEFINE k == Asked[r].conv
<1>1. PICK new : new = tx[r].id
  OBVIOUS
<1>2. /\ pc[r] = "stamped" /\ Asked[r].kind = "message" /\ Open(r) /\ UNCHANGED drawns
      /\ "message" \in Table /\ DOMAIN rows = Table
  BY DEF SaveMessage, Inv, Stages, Table, Open, RowsInv, TableRows
<1>3. /\ new \in Nat \ Ids("message")
      /\ tx[r].at \in 0..clock /\ stamp[r] \in 0..clock /\ tx[r].at <= stamp[r]
      /\ k \in Ids("conversation")
  BY <1>1, <1>2, GivenIds DEF RowsInv, Transaction
<1>4. /\ rows'["message"] = With(rows["message"], new, NewMessage(r))
      /\ rows'["conversation"] = [rows["conversation"] EXCEPT ![k].at = stamp[r]]
      /\ rows'["whiteboard"] = rows["whiteboard"]
  BY <1>1, <1>2 DEF SaveMessage, MessageAndConversation, Table
<1>5. /\ Ids("message")' = Ids("message") \cup {new} /\ rows'["message"][new] = NewMessage(r)
      /\ \A m \in Ids("message") : rows'["message"][m] = rows["message"][m]
      /\ Ids("conversation")' = Ids("conversation")
  BY <1>3, <1>4 DEF With, Ids
<1>6. back' = IF stamp[r] < rows["conversation"][k].at THEN back \cup {k} ELSE back
  BY DEF SaveMessage
<1> QED
  BY <1>1, <1>2, <1>3, <1>4, <1>5, <1>6 DEF NewMessage

\* Conversations and messages stay as they are, but for the times of the
\* conversations, which grow unless the history says that one went back.
Forward ==
    /\ \A c \in Ids("conversation") :
        /\ c \in Ids("conversation")'
        /\ rows'["conversation"][c].users = rows["conversation"][c].users
        /\ c \in back' \/ rows["conversation"][c].at <= rows'["conversation"][c].at
    /\ \A m \in Ids("message") : m \in Ids("message")' /\ rows'["message"][m] = rows["message"][m]
    /\ back \subseteq back'

\* A time that was read twice stays one.
LEMMA TimesGoOn ==
    ASSUME [RestNext]_restVars
    PROVE  shared \subseteq shared'
<1>1. ReadClock => shared \subseteq shared'
  BY DEF ReadClock
<1>2. ASSUME NEW r \in Req, Request(r) PROVE shared \subseteq shared'
  BY <1>1, <1>2 DEF Request, LookForConversation, LookForWhiteboard, LookForUser, Look,
     CreateConversation, CreateNewWhiteboard, CreateUser, TakeUserId, InsertUser, Rollback,
     Insert, Commit, database, times
<1>3. ASSUME NEW r \in Req, AccountRequest(r) PROVE shared \subseteq shared'
  BY <1>3 DEF AccountRequest, Login, UploadUserProfilePhoto, UploadFile, UpdateUserProfilePhoto,
     UpdateUser, AnswerProfile, Arrives, Beside, times
<1>4. ASSUME NEW r \in Req, ListRequest(r) PROVE shared \subseteq shared'
  BY <1>1, <1>4 DEF ListRequest, InsertMessage, Insert, ReadTime, SaveMessage, Find, Count,
     Unread, database, times
<1> QED
  BY <1>2, <1>3, <1>4 DEF RestNext, restVars, vars, times, Tick, Answered

LEMMA RowsGoForward ==
    ASSUME Inv, RowsInv, [RestNext]_restVars
    PROVE  Forward
<1>1. \A c \in Ids("conversation") : rows["conversation"][c] \in [users : Seq(User), at : Nat]
  <2>1. \A c \in Ids("conversation") : rows["conversation"][c] \in [users : Seq(User), at : 0..clock]
    BY DEF RowsInv, TableRows
  <2> QED BY <2>1
<1>2. CASE ListsStay
  BY <1>1, <1>2 DEF ListsStay, Forward, Ids, Table
<1>3. ASSUME UNCHANGED listVars, NEW r \in Req, pc[r] = "inserted", CreateConversation(r)
      PROVE  Forward
  <2>1. back' = back /\ Ids("message")' = Ids("message") /\ rows'["message"] = rows["message"]
    BY <1>3, ConversationCommitted DEF listVars, Ids
  <2>2. \A c \in Ids("conversation") :
          c \in Ids("conversation")' /\ rows'["conversation"][c] = rows["conversation"][c]
    BY <1>3, ConversationCommitted
  <2> QED BY <1>1, <2>1, <2>2 DEF Forward
<1>4. ASSUME UNCHANGED listVars, NEW r \in Req, pc[r] = "inserted", CreateNewWhiteboard(r)
      PROVE  Forward
  <2>1. back' = back /\ rows'["message"] = rows["message"]
        /\ rows'["conversation"] = rows["conversation"]
    BY <1>4, WhiteboardCommitted DEF listVars
  <2> QED BY <1>1, <2>1 DEF Forward, Ids
<1>5. ASSUME NEW r \in Req, SaveMessage(r) PROVE Forward
  <2>1. PICK k \in Ids("conversation") : k = Asked[r].conv
    BY <1>5, MessageSaved
  <2>2. /\ Ids("conversation")' = Ids("conversation") /\ stamp[r] \in Nat
        /\ rows'["conversation"] = [rows["conversation"] EXCEPT ![k].at = stamp[r]]
        /\ back' = IF stamp[r] < rows["conversation"][k].at THEN back \cup {k} ELSE back
    <3>1. /\ Ids("conversation")' = Ids("conversation") /\ stamp[r] \in 0..clock
          /\ rows'["conversation"] = [rows["conversation"] EXCEPT ![Asked[r].conv].at = stamp[r]]
          /\ back' = IF stamp[r] < rows["conversation"][Asked[r].conv].at
                     THEN back \cup {Asked[r].conv} ELSE back
      BY <1>5, MessageSaved
    <3> QED BY <2>1, <3>1
  <2>3. \A m \in Ids("message") : m \in Ids("message")' /\ rows'["message"][m] = rows["message"][m]
    BY <1>5, MessageSaved
  <2>4. ASSUME NEW c \in Ids("conversation")
        PROVE  /\ rows'["conversation"][c].users = rows["conversation"][c].users
               /\ c \in back' \/ rows["conversation"][c].at <= rows'["conversation"][c].at
    <3>1. CASE c = k
      <4>1. rows'["conversation"][k] = [rows["conversation"][k] EXCEPT !.at = stamp[r]]
        BY <2>1, <2>2 DEF Ids
      <4>2. rows["conversation"][k].at \in Nat
        BY <1>1, <2>1
      <4> QED BY <1>1, <2>1, <2>2, <3>1, <4>1, <4>2
    <3>2. CASE c # k
      BY <1>1, <2>2, <3>2 DEF Ids
    <3> QED BY <3>1, <3>2
  <2> QED BY <2>2, <2>3, <2>4 DEF Forward
<1> QED
  BY <1>2, <1>3, <1>4, <1>5, RowSteps

(***************************************************************************)
(* Conversations in the order of their messages                            *)
(***************************************************************************)

LEMMA NextAfter ==
    Inv /\ RowsInv /\ ConversationAfterItsMessages /\ [RestNext]_restVars
    => ConversationAfterItsMessages'
<1> SUFFICES ASSUME Inv, RowsInv, ConversationAfterItsMessages, [RestNext]_restVars,
                    NEW m \in Ids("message")'
             PROVE  \/ rows'["message"][m].conv \in back'
                    \/ rows'["message"][m].at <= rows'["conversation"][rows'["message"][m].conv].at
  BY DEF ConversationAfterItsMessages, Ids
<1>1. Forward
  BY RowsGoForward
<1>2. ASSUME m \in Ids("message")
      PROVE  \/ rows'["message"][m].conv \in back'
             \/ rows'["message"][m].at <= rows'["conversation"][rows'["message"][m].conv].at
  <2>1. PICK c \in Ids("conversation") : c = rows["message"][m].conv
    BY <1>2 DEF RowsInv, TableRows
  <2>2. rows'["message"][m] = rows["message"][m]
    BY <1>1, <1>2 DEF Forward
  <2>3. c \in back \/ rows["message"][m].at <= rows["conversation"][c].at
    BY <1>2, <2>1 DEF ConversationAfterItsMessages, Ids
  <2>4. c \in back' \/ rows["conversation"][c].at <= rows'["conversation"][c].at
    BY <1>1 DEF Forward
  <2>5. rows["message"][m].at \in Nat /\ rows["conversation"][c].at \in Nat
    BY <1>2 DEF RowsInv, TableRows
  <2>6. c \in Ids("conversation")' /\ (c \in back => c \in back')
    BY <1>1 DEF Forward
  <2>7. rows'["conversation"][c].at \in Nat
    <3>1. RowsInv'
      BY NextRows
    <3>2. \A d \in Ids("conversation")' : rows'["conversation"][d].at \in 0..clock'
      BY <3>1 DEF RowsInv, TableRows
    <3> QED BY <2>6, <3>2
  <2> QED BY <2>1, <2>2, <2>3, <2>4, <2>5, <2>6, <2>7
<1>3. ASSUME NEW r \in Req, SaveMessage(r), m = tx[r].id
      PROVE  \/ rows'["message"][m].conv \in back'
             \/ rows'["message"][m].at <= rows'["conversation"][rows'["message"][m].conv].at
  <2>1. /\ Asked[r].conv \in Ids("conversation") /\ tx[r].at <= stamp[r]
        /\ rows'["message"][tx[r].id] = [conv |-> Asked[r].conv, at |-> tx[r].at]
        /\ rows'["conversation"] = [rows["conversation"] EXCEPT ![Asked[r].conv].at = stamp[r]]
    BY <1>3, MessageSaved
  <2>2. PICK k \in Ids("conversation") : k = Asked[r].conv
    BY <2>1
  <2>3. rows'["message"][m].conv = k /\ rows'["message"][m].at = tx[r].at
    BY <1>3, <2>1, <2>2
  <2>4. rows'["conversation"][k].at = stamp[r]
    <3>1. rows["conversation"][k] \in [users : Seq(User), at : 0..clock]
      BY DEF RowsInv, TableRows
    <3> QED BY <2>1, <2>2, <3>1 DEF Ids
  <2> QED BY <2>1, <2>3, <2>4
<1>4. m \in Ids("message") \/ \E r \in Req : SaveMessage(r) /\ m = tx[r].id
  <2>1. CASE rows'["message"] = rows["message"]
    <3>1. Ids("message")' = Ids("message")
      BY <2>1 DEF Ids
    <3> QED BY <3>1
  <2>2. ASSUME NEW r \in Req, SaveMessage(r) PROVE m \in Ids("message") \/ m = tx[r].id
    <3>1. Ids("message")' = Ids("message") \cup {tx[r].id}
      BY <2>2, MessageSaved
    <3> QED BY <3>1
  <2>3. ListsStay => rows'["message"] = rows["message"]
    BY DEF ListsStay, Table
  <2> QED BY <2>1, <2>2, <2>3, RowSteps, ConversationCommitted, WhiteboardCommitted
<1> QED
  BY <1>2, <1>3, <1>4

\* However saves of messages overlap, no message is later than the updated_at of its
\* conversation, unless a save that read the time earlier wrote it later.
THEOREM OrderCorrect == RestSpec => []ConversationAfterItsMessages
<1>1. RestInit => ConversationAfterItsMessages
  <2>1. RestInit => Ids("message") = {}
    BY DEF RestInit, Init, Ids, Table
  <2> QED BY <2>1 DEF ConversationAfterItsMessages, Ids
<1> QED
  BY <1>1, InitInv, NextInv, InitRows, NextRows, NextAfter, PTL DEF RestSpec

(***************************************************************************)
(* Drawns of the members                                                   *)
(***************************************************************************)

Own(b) == {i \in DOMAIN drawns : drawns[i].board = b}
DrawersOf(b) == rows["conversation"][rows["whiteboard"][b]].users

Drawn(b) ==
    Cardinality(Own(b)) = Len(DrawersOf(b)) /\ {drawns[i].drawer : i \in Own(b)} = Range(DrawersOf(b))

\* Steps that leave the whiteboards and the drawns alone.
LEMMA DrawnKept ==
    ASSUME RowsInv, EveryMemberHasADrawn, Forward,
           rows'["whiteboard"] = rows["whiteboard"], drawns' = drawns
    PROVE  EveryMemberHasADrawn'
<1>1. ASSUME NEW b \in Ids("whiteboard") PROVE DrawersOf(b)' = DrawersOf(b) /\ Own(b)' = Own(b)
  <2>1. rows["whiteboard"][b] \in Ids("conversation")
    BY DEF RowsInv, TableRows
  <2> QED BY <2>1 DEF Forward, DrawersOf, Own
<1>2. Ids("whiteboard")' = Ids("whiteboard")
  BY DEF Ids
<1>3. \A b \in Ids("whiteboard") : Drawn(b)
  BY DEF EveryMemberHasADrawn, Drawn, Own, DrawersOf
<1>4. \A b \in Ids("whiteboard") : Drawn(b)'
  BY <1>1, <1>3 DEF Drawn
<1> QED
  BY <1>2, <1>4 DEF EveryMemberHasADrawn, Drawn, Own, DrawersOf

\* The drawns of the other whiteboards stay when those of a new one are appended.
LEMMA OwnAfterAppending ==
    ASSUME RowsInv, NEW new \in Nat \ Ids("whiteboard"), NEW members \in Seq(User),
           drawns' = drawns \o [i \in DOMAIN members |-> [board |-> new, drawer |-> members[i]]]
    PROVE  /\ \A b \in Ids("whiteboard") :
                Own(b)' = Own(b) /\ \A i \in Own(b) : drawns'[i] = drawns[i]
           /\ Own(new)' = Len(drawns) + 1..Len(drawns) + Len(members)
           /\ Cardinality(Own(new)') = Len(members)
           /\ {drawns'[i].drawer : i \in Own(new)'} = Range(members)
<1>1. /\ drawns \in Seq([board : Nat, drawer : User])
      /\ \A i \in DOMAIN drawns : drawns[i].board \in Ids("whiteboard")
  BY DEF RowsInv, TableRows
<1>2. /\ drawns' \in Seq([board : Nat, drawer : User])
      /\ Len(drawns') = Len(drawns) + Len(members)
      /\ \A i \in 1..Len(drawns) : drawns'[i] = drawns[i]
      /\ \A i \in 1..Len(members) :
           drawns'[Len(drawns) + i] = [board |-> new, drawer |-> members[i]]
  BY DrawnsOfMembers
<1>3. /\ DOMAIN drawns = 1..Len(drawns) /\ DOMAIN drawns' = 1..Len(drawns')
      /\ DOMAIN members = 1..Len(members) /\ Len(drawns) \in Nat /\ Len(members) \in Nat
  BY <1>1, <1>2, LenProperties
<1>4. PICK n \in Nat, m \in Nat : n = Len(drawns) /\ m = Len(members)
  BY <1>3
<1>5. ASSUME NEW i \in n + 1..n + m
      PROVE  \E j \in 1..m : i = n + j /\ drawns'[i].board = new /\ drawns'[i].drawer = members[j]
  <2>1. i - n \in 1..m /\ i = n + (i - n)
    BY <1>4
  <2>2. PICK j \in 1..m : i = n + j
    BY <2>1
  <2>3. drawns'[i] = [board |-> new, drawer |-> members[j]]
    BY <1>2, <1>4, <2>2
  <2>4. PICK d : d = drawns'[i]
    OBVIOUS
  <2>5. d = [board |-> new, drawer |-> members[j]]
    BY <2>3, <2>4
  <2>6. d.board = new /\ d.drawer = members[j]
    BY <2>5
  <2> QED BY <2>2, <2>4, <2>6
<1>6. ASSUME NEW i \in DOMAIN drawns' PROVE i \in DOMAIN drawns \/ i \in n + 1..n + m
  BY <1>2, <1>3, <1>4
<1>7. \A i \in n + 1..n + m : drawns'[i].board = new /\ i \in DOMAIN drawns'
  <2>1. \A i \in n + 1..n + m : drawns'[i].board = new
    BY <1>5
  <2>2. \A i \in n + 1..n + m : i \in 1..n + m
    BY <1>4
  <2> QED BY <1>2, <1>3, <1>4, <2>1, <2>2
<1>8. \A i \in DOMAIN drawns : i \in DOMAIN drawns' /\ drawns'[i] = drawns[i]
  BY <1>2, <1>3, <1>4
<1>9. \A b \in Ids("whiteboard") : Own(b)' = Own(b)
  BY <1>6, <1>7, <1>8 DEF Own
<1>10. Own(new)' = n + 1..n + m
  BY <1>1, <1>6, <1>7, <1>8 DEF Own
<1>11. Cardinality(n + 1..n + m) = m
  <2>1. Cardinality(n + 1..n + m) = IF n + 1 > n + m THEN 0 ELSE n + m - (n + 1) + 1
    <3>1. n + 1 \in Int /\ n + m \in Int
      BY <1>4
    <3> HIDE <1>4
    <3> QED BY <3>1, FS_Interval
  <2>2. CASE m = 0
    BY <1>4, <2>1, <2>2
  <2>3. CASE m > 0
    BY <1>4, <2>1, <2>3
  <2> QED BY <1>4, <2>2, <2>3
<1>12. {drawns'[i].drawer : i \in n + 1..n + m} = Range(members)
  <2>1. \A i \in n + 1..n + m : drawns'[i].drawer \in Range(members)
    <3> SUFFICES ASSUME NEW i \in n + 1..n + m PROVE drawns'[i].drawer \in Range(members)
      OBVIOUS
    <3>1. PICK j \in 1..m : drawns'[i].drawer = members[j]
      BY <1>5
    <3> QED BY <1>3, <1>4, <3>1 DEF Range
  <2>2. ASSUME NEW u \in Range(members) PROVE \E i \in n + 1..n + m : drawns'[i].drawer = u
    <3>1. PICK j \in 1..m : u = members[j]
      BY <1>3, <1>4, <2>2 DEF Range
    <3>2. PICK i \in n + 1..n + m : i = n + j
      <4>1. n + j \in n + 1..n + m
        BY <1>4, <3>1
      <4> QED BY <4>1
    <3>3. PICK k \in 1..m : i = n + k /\ drawns'[i].drawer = members[k]
      BY <1>5
    <3>4. j = k
      BY <1>4, <3>2, <3>3
    <3> QED BY <3>1, <3>3, <3>4
  <2> QED BY <2>1, <2>2
<1> QED
  BY <1>4, <1>8, <1>9, <1>10, <1>11, <1>12 DEF Own

LEMMA DrawnAdded ==
    ASSUME Inv, RowsInv, EveryMemberHasADrawn, NEW r \in Req, pc[r] = "inserted", CreateNewWhiteboard(r)
    PROVE  EveryMemberHasADrawn'
<1>1. PICK new, c, members : /\ new = tx[r].id /\ c = Asked[r].conv
                             /\ members = rows["conversation"][c].users
  OBVIOUS
<1>2. /\ new \in Nat \ Ids("whiteboard") /\ c \in Ids("conversation")
      /\ Ids("whiteboard")' = Ids("whiteboard") \cup {new}
      /\ rows'["whiteboard"][new] = c
      /\ \A b \in Ids("whiteboard") : rows'["whiteboard"][b] = rows["whiteboard"][b]
      /\ rows'["conversation"] = rows["conversation"]
      /\ drawns' = drawns \o [i \in DOMAIN members |-> [board |-> new, drawer |-> members[i]]]
  BY <1>1, WhiteboardCommitted
<1>3. members \in Seq(User)
  BY <1>1, <1>2 DEF RowsInv, TableRows
<1>4. /\ \A b \in Ids("whiteboard") :
           Own(b)' = Own(b) /\ \A i \in Own(b) : drawns'[i] = drawns[i]
      /\ Cardinality(Own(new)') = Len(members)
      /\ {drawns'[i].drawer : i \in Own(new)'} = Range(members)
  BY <1>2, <1>3, OwnAfterAppending
<1>5. \A b \in Ids("whiteboard") : Drawn(b)
  BY DEF EveryMemberHasADrawn, Drawn, Own, DrawersOf
<1>6. ASSUME NEW b \in Ids("whiteboard") PROVE Drawn(b)'
  <2>1. DrawersOf(b)' = DrawersOf(b)
    BY <1>2 DEF DrawersOf
  <2>2. {drawns'[i].drawer : i \in Own(b)} = {drawns[i].drawer : i \in Own(b)}
    BY <1>4
  <2> QED BY <1>4, <1>5, <2>1, <2>2 DEF Drawn
<1>7. Drawn(new)'
  <2>1. DrawersOf(new)' = members
    BY <1>1, <1>2 DEF DrawersOf
  <2> QED BY <1>4, <2>1 DEF Drawn
<1>8. \A b \in Ids("whiteboard")' : Drawn(b)'
  BY <1>2, <1>6, <1>7
<1> QED
  BY <1>8 DEF EveryMemberHasADrawn, Drawn, Own, DrawersOf

LEMMA NextDrawn ==
    Inv /\ RowsInv /\ EveryMemberHasADrawn /\ [RestNext]_restVars => EveryMemberHasADrawn'
<1> SUFFICES ASSUME Inv, RowsInv, EveryMemberHasADrawn, [RestNext]_restVars
             PROVE  EveryMemberHasADrawn'
  OBVIOUS
<1>1. Forward
  BY RowsGoForward
<1>2. CASE ListsStay
  BY <1>1, <1>2, DrawnKept DEF ListsStay, Table
<1>3. ASSUME NEW r \in Req, pc[r] = "inserted", CreateConversation(r) PROVE EveryMemberHasADrawn'
  BY <1>1, <1>3, ConversationCommitted, DrawnKept
<1>4. ASSUME NEW r \in Req, SaveMessage(r) PROVE EveryMemberHasADrawn'
  BY <1>1, <1>4, MessageSaved, DrawnKept
<1> QED
  BY <1>2, <1>3, <1>4, DrawnAdded, RowSteps

\* Whatever fails, races or is rolled back, each whiteboard that is committed has
\* one drawn for each member of its conversation, and none for anybody else.
THEOREM DrawnsCorrect == RestSpec => []EveryMemberHasADrawn
<1>1. RestInit => EveryMemberHasADrawn
  <2>1. RestInit => Ids("whiteboard") = {}
    BY DEF RestInit, Init, Ids, Table
  <2> QED BY <2>1 DEF EveryMemberHasADrawn
<1> QED
  BY <1>1, InitInv, NextInv, InitRows, NextRows, NextDrawn, PTL DEF RestSpec


(***************************************************************************)
(* Times of the rows                                                       *)
(***************************************************************************)

At(c) == rows["conversation"][c].at
SentAt(m) == rows["message"][m].at

\* A request whose transaction will give a conversation a time, and that time.
WillTouch(r) == pc[r] = "stamped" \/ (Asked[r].kind = "conversation" /\ pc[r] = "inserted")
TouchTime(r) == IF pc[r] = "stamped" THEN stamp[r] ELSE tx[r].at

\* A request whose transaction will add a message.
WillSend(r) == Asked[r].kind = "message" /\ Open(r)

\* No time that was read once is that of two conversations or of two messages.
TouchTimes ==
    /\ \A c, d \in Ids("conversation") : At(c) = At(d) => c = d \/ At(c) \in shared
    /\ \A r \in Req : WillTouch(r) /\ TouchTime(r) \notin shared =>
        /\ \A c \in Ids("conversation") : At(c) # TouchTime(r)
        /\ \A s \in Req : WillTouch(s) /\ TouchTime(s) = TouchTime(r) => s = r

SendTimes ==
    /\ \A m, n \in Ids("message") : SentAt(m) = SentAt(n) => m = n \/ SentAt(m) \in shared
    /\ \A r \in Req : WillSend(r) /\ tx[r].at \notin shared =>
        /\ \A m \in Ids("message") : SentAt(m) # tx[r].at
        /\ \A s \in Req : WillSend(s) /\ tx[s].at = tx[r].at => s = r

\* A time that was just read: a new one, or one that is shared now.
JustRead(at) == at = clock + 1 \/ at \in shared'

\* The other requests are where they were.
Alone(r) ==
    \A s \in Req \ {r} :
        /\ pc'[s] = pc[s] /\ tx'[s] = tx[s] /\ stamp'[s] = stamp[s]
        /\ found'[s] = found[s] /\ got'[s] = got[s] /\ had'[s] = had[s]

\* What was read from the clock is past.
LEMMA Past ==
    ASSUME Inv, RowsInv
    PROVE  /\ clock \in Nat
           /\ \A c \in Ids("conversation") : At(c) \in 0..clock
           /\ \A m \in Ids("message") : SentAt(m) \in 0..clock
           /\ \A s \in Req : WillTouch(s) => TouchTime(s) \in 0..clock
           /\ \A s \in Req : WillSend(s) => tx[s].at \in 0..clock
<1>1. clock \in Nat /\ (\A c \in Ids("conversation") : At(c) \in 0..clock)
      /\ \A m \in Ids("message") : SentAt(m) \in 0..clock
  BY DEF RowsInv, TableRows, At, SentAt
<1>2. ASSUME NEW s \in Req, WillTouch(s) PROVE TouchTime(s) \in 0..clock
  <2>1. Asked[s].kind \in Table /\ Open(s)
    BY <1>2 DEF WillTouch, Open, Inv, Stages, Table
  <2> QED BY <1>2, <2>1 DEF RowsInv, Transaction, TouchTime, WillTouch
<1>3. ASSUME NEW s \in Req, WillSend(s) PROVE tx[s].at \in 0..clock
  BY <1>3 DEF WillSend, RowsInv, Transaction, Table
<1> QED
  BY <1>1, <1>2, <1>3

\* A step of r gives no conversation but those of C a time, and C has one at most;
\* and it may read the clock.
Touches(r, C) ==
    /\ \A c, d \in C : c = d
    /\ \A c \in Ids("conversation")' :
        c \in C \/ (c \in Ids("conversation") /\ rows'["conversation"][c].at = At(c))
    /\ \A c \in C : WillTouch(r) /\ rows'["conversation"][c].at = TouchTime(r)
    /\ WillTouch(r)' => \/ JustRead(TouchTime(r)')
                        \/ C = {} /\ WillTouch(r) /\ TouchTime(r)' = TouchTime(r)

LEMMA TouchStep ==
    ASSUME Inv, RowsInv, TouchTimes, NEW r \in Req, Alone(r), NEW C, Touches(r, C),
           shared \subseteq shared'
    PROVE  TouchTimes'
<1> USE DEF Touches
<1> DEFINE T(c) == rows'["conversation"][c].at
<1>1. clock \in Nat /\ \A c \in Ids("conversation") : At(c) \in 0..clock
  BY Past
<1>2. \A s \in Req : WillTouch(s) => TouchTime(s) \in 0..clock
  BY Past
<1>3. \A s \in Req \ {r} : (WillTouch(s)' <=> WillTouch(s)) /\ TouchTime(s)' = TouchTime(s)
  BY DEF Alone, WillTouch, TouchTime
<1>4. ASSUME NEW c \in Ids("conversation")', NEW d \in Ids("conversation")', T(c) = T(d),
             T(c) \notin shared'
      PROVE  c = d
  BY <1>4 DEF TouchTimes
<1>5. ASSUME NEW c \in Ids("conversation")' PROVE T(c) # clock + 1
  <2>1. T(c) \in 0..clock
    BY <1>1, <1>2
  <2> QED BY <1>1, <2>1
<1>6. ASSUME NEW s \in Req \ {r}, WillTouch(s), TouchTime(s) \notin shared',
             NEW c \in Ids("conversation")'
      PROVE  T(c) # TouchTime(s)
  BY <1>6 DEF TouchTimes
<1>7. ASSUME WillTouch(r)', TouchTime(r)' \notin shared', NEW c \in Ids("conversation")'
      PROVE  T(c) # TouchTime(r)'
  <2>1. CASE TouchTime(r)' = clock + 1
    BY <1>5, <2>1
  <2>2. CASE C = {} /\ WillTouch(r) /\ TouchTime(r)' = TouchTime(r)
    BY <1>7, <2>2 DEF TouchTimes
  <2> QED BY <1>7, <2>1, <2>2 DEF JustRead
<1>8. ASSUME WillTouch(r)', TouchTime(r)' \notin shared', NEW s \in Req \ {r}, WillTouch(s)
      PROVE  TouchTime(s) # TouchTime(r)'
  <2>1. CASE TouchTime(r)' = clock + 1
    BY <1>1, <1>2, <1>8, <2>1
  <2>2. CASE WillTouch(r) /\ TouchTime(r)' = TouchTime(r)
    BY <1>8, <2>2 DEF TouchTimes
  <2> QED BY <1>8, <2>1, <2>2 DEF JustRead
<1>9. ASSUME NEW s \in Req, WillTouch(s)', TouchTime(s)' \notin shared'
      PROVE  /\ \A c \in Ids("conversation")' : T(c) # TouchTime(s)'
             /\ \A q \in Req : WillTouch(q)' /\ TouchTime(q)' = TouchTime(s)' => q = s
  <2>1. CASE s = r
    BY <1>3, <1>7, <1>8, <1>9, <2>1
  <2>2. CASE s # r
    <3>1. WillTouch(s) /\ TouchTime(s)' = TouchTime(s)
      BY <1>3, <1>9, <2>2
    <3>2. ASSUME NEW q \in Req, WillTouch(q)', TouchTime(q)' = TouchTime(s)' PROVE q = s
      <4>1. CASE q = r
        BY <1>8, <1>9, <2>2, <3>1, <3>2, <4>1
      <4>2. CASE q # r
        BY <1>3, <1>9, <3>1, <3>2, <4>2 DEF TouchTimes
      <4> QED BY <4>1, <4>2
    <3> QED BY <1>6, <1>9, <2>2, <3>1, <3>2
  <2> QED BY <2>1, <2>2
<1> QED
  BY <1>4, <1>9 DEF TouchTimes, At

\* The same for messages.
Sends(r, M) ==
    /\ \A m, n \in M : m = n
    /\ \A m \in Ids("message")' :
        m \in M \/ (m \in Ids("message") /\ rows'["message"][m].at = SentAt(m))
    /\ \A m \in M : WillSend(r) /\ rows'["message"][m].at = tx[r].at
    /\ WillSend(r)' => \/ JustRead(tx'[r].at)
                       \/ M = {} /\ WillSend(r) /\ tx'[r].at = tx[r].at

LEMMA SendStep ==
    ASSUME Inv, RowsInv, SendTimes, NEW r \in Req, Alone(r), NEW M, Sends(r, M),
           shared \subseteq shared'
    PROVE  SendTimes'
<1> USE DEF Sends
<1> DEFINE T(m) == rows'["message"][m].at
<1>1. clock \in Nat /\ \A m \in Ids("message") : SentAt(m) \in 0..clock
  BY Past
<1>2. \A s \in Req : WillSend(s) => tx[s].at \in 0..clock
  BY Past
<1>3. \A s \in Req \ {r} : (WillSend(s)' <=> WillSend(s)) /\ tx'[s] = tx[s]
  BY DEF Alone, WillSend, Open
<1>4. ASSUME NEW m \in Ids("message")', NEW n \in Ids("message")', T(m) = T(n),
             T(m) \notin shared'
      PROVE  m = n
  BY <1>4 DEF SendTimes
<1>5. ASSUME NEW m \in Ids("message")' PROVE T(m) # clock + 1
  <2>1. T(m) \in 0..clock
    BY <1>1, <1>2
  <2> QED BY <1>1, <2>1
<1>6. ASSUME NEW s \in Req \ {r}, WillSend(s), tx[s].at \notin shared', NEW m \in Ids("message")'
      PROVE  T(m) # tx[s].at
  BY <1>6 DEF SendTimes
<1>7. ASSUME WillSend(r)', tx'[r].at \notin shared', NEW m \in Ids("message")'
      PROVE  T(m) # tx'[r].at
  <2>1. CASE tx'[r].at = clock + 1
    BY <1>5, <2>1
  <2>2. CASE M = {} /\ WillSend(r) /\ tx'[r].at = tx[r].at
    BY <1>7, <2>2 DEF SendTimes
  <2> QED BY <1>7, <2>1, <2>2 DEF JustRead
<1>8. ASSUME WillSend(r)', tx'[r].at \notin shared', NEW s \in Req \ {r}, WillSend(s)
      PROVE  tx[s].at # tx'[r].at
  <2>1. CASE tx'[r].at = clock + 1
    BY <1>1, <1>2, <1>8, <2>1
  <2>2. CASE WillSend(r) /\ tx'[r].at = tx[r].at
    BY <1>8, <2>2 DEF SendTimes
  <2> QED BY <1>8, <2>1, <2>2 DEF JustRead
<1>9. ASSUME NEW s \in Req, WillSend(s)', tx'[s].at \notin shared'
      PROVE  /\ \A m \in Ids("message")' : T(m) # tx'[s].at
             /\ \A q \in Req : WillSend(q)' /\ tx'[q].at = tx'[s].at => q = s
  <2>1. CASE s = r
    BY <1>3, <1>7, <1>8, <1>9, <2>1
  <2>2. CASE s # r
    <3>1. WillSend(s) /\ tx'[s].at = tx[s].at
      BY <1>3, <1>9, <2>2
    <3>2. ASSUME NEW q \in Req, WillSend(q)', tx'[q].at = tx'[s].at PROVE q = s
      <4>1. CASE q = r
        BY <1>8, <1>9, <2>2, <3>1, <3>2, <4>1
      <4>2. CASE q # r
        BY <1>3, <1>9, <3>1, <3>2, <4>2 DEF SendTimes
      <4> QED BY <4>1, <4>2
    <3> QED BY <1>6, <1>9, <2>2, <3>1, <3>2
  <2> QED BY <2>1, <2>2
<1> QED
  BY <1>4, <1>9 DEF SendTimes, SentAt

\* A step of request r.
StepOf(r) ==
    \/ Request(r) /\ UNCHANGED <<accountVars, listVars>>
    \/ AccountRequest(r) /\ UNCHANGED listVars
    \/ ListRequest(r) /\ UNCHANGED accountVars

\* No step of a request, but perhaps of a clock that nothing here depends on.
Idle == UNCHANGED <<rows, pc, tx, stamp, found, got, had, back>>

LEMMA SomeStep ==
    ASSUME [RestNext]_restVars
    PROVE  Idle \/ \E r \in Req : StepOf(r)
BY DEF RestNext, restVars, vars, listVars, Tick, Answered, StepOf, Idle

LEMMA AloneStep ==
    ASSUME Inv, RowsInv, NEW r \in Req, StepOf(r)
    PROVE  Alone(r)
<1>1. /\ \E place : pc' = [pc EXCEPT ![r] = place]
      /\ tx' = tx \/ \E row : tx' = [tx EXCEPT ![r] = row]
      /\ stamp' = stamp \/ \E time : stamp' = [stamp EXCEPT ![r] = time]
      /\ found' = found \/ \E page : found' = [found EXCEPT ![r] = page]
      /\ got' = got \/ \E pages : got' = [got EXCEPT ![r] = pages]
      /\ had' = had \/ \E list : had' = [had EXCEPT ![r] = list]
  <2>1. CASE Request(r) /\ UNCHANGED listVars
    <3>1. \E place : pc' = [pc EXCEPT ![r] = place]
      BY <2>1 DEF Request, LookForConversation, LookForWhiteboard, LookForUser, FoundNothing,
         CreateConversation, CreateNewWhiteboard, CreateUser, TakeUserId, InsertUser, Rollback,
         Insert, Commit, Answer
    <3>2. tx' = tx \/ \E row : tx' = [tx EXCEPT ![r] = row]
      BY <2>1 DEF Request, LookForConversation, LookForWhiteboard, LookForUser, Look,
         CreateConversation, CreateNewWhiteboard, CreateUser, TakeUserId, InsertUser, Rollback,
         Insert, Commit
    <3> QED BY <2>1, <3>1, <3>2 DEF listVars
  <2>2. CASE AccountRequest(r) /\ UNCHANGED listVars
    <3>1. \E place : pc' = [pc EXCEPT ![r] = place]
      BY <2>2 DEF AccountRequest, Login, UploadUserProfilePhoto, UploadFile,
         UpdateUserProfilePhoto, UpdateUser, AnswerProfile, Arrives, Reject, Answer
    <3>2. tx' = tx
      BY <2>2 DEF AccountRequest, Login, UploadUserProfilePhoto, UploadFile,
         UpdateUserProfilePhoto, UpdateUser, AnswerProfile, Arrives, Beside
    <3> QED BY <2>2, <3>1, <3>2 DEF listVars
  <2>3. CASE ListRequest(r)
    <3>1. CASE InsertMessage(r)
      BY <3>1 DEF InsertMessage, Insert, Answer, listVars
    <3>2. CASE ReadTime(r)
      BY <3>2 DEF ReadTime
    <3>3. CASE SaveMessage(r)
      BY <3>3 DEF SaveMessage, Answer
    <3>4. CASE Find(r)
      BY <3>4 DEF Find, Answer, Unread
    <3>5. CASE Count(r)
      BY <3>5 DEF Count, Answer, Unread
    <3> QED BY <2>3, <3>1, <3>2, <3>3, <3>4, <3>5 DEF ListRequest
  <2> QED BY <2>1, <2>2, <2>3 DEF StepOf
<1> QED
  BY <1>1, Domains DEF Alone, RowsInv, ListShapes

\* The steps that are about times; the others leave the rows that have times, and
\* what they leave r to do is no write of a time.
Quiet(r) ==
    /\ rows'["conversation"] = rows["conversation"] /\ rows'["message"] = rows["message"]
    /\ pc'[r] # "stamped"
    /\ Asked[r].kind \in {"conversation", "message"} => pc'[r] # "inserted"

LEMMA StepKinds ==
    ASSUME Inv, RowsInv, NEW r \in Req, StepOf(r)
    PROVE  \/ \E t \in Table : Insert(r, t)
           \/ ReadTime(r)
           \/ pc[r] = "inserted" /\ CreateConversation(r)
           \/ SaveMessage(r)
           \/ Quiet(r)
<1> SUFFICES ASSUME ~\E t \in Table : Insert(r, t), ~ReadTime(r),
                    ~(pc[r] = "inserted" /\ CreateConversation(r)), ~SaveMessage(r)
             PROVE  Quiet(r)
  OBVIOUS
<1>1. DOMAIN pc = Req /\ DOMAIN rows = Table
  BY DEF Inv, Shapes, RowsInv, TableRows
<1>2. ASSUME UNCHANGED rows, pc'[r] \in {"missing", "numbered", "done", "found", "paged"}
      PROVE  Quiet(r)
  BY <1>2 DEF Quiet
<1>3. CASE Request(r)
  <2>1. CASE LookForConversation(r) \/ LookForWhiteboard(r) \/ LookForUser(r)
    BY <1>1, <1>2, <2>1 DEF LookForConversation, LookForWhiteboard, LookForUser, Look,
       FoundNothing, Answer, database
  <2>2. CASE CreateConversation(r)
    BY <2>2 DEF CreateConversation, Commit, Table
  <2>3. CASE CreateNewWhiteboard(r)
    <3>1. Commit(r, "whiteboard", Asked[r].conv)
      BY <2>3 DEF CreateNewWhiteboard, Table
    <3> QED BY <1>1, <3>1 DEF Commit, Answer, Quiet, Table
  <2>4. CASE CreateUser(r)
    <3>1. CASE TakeUserId(r)
      BY <1>1, <1>2, <3>1 DEF TakeUserId
    <3>3. CASE InsertUser(r)
      <4>1. UNCHANGED rows /\ Asked[r].kind = "account"
        BY <3>3 DEF InsertUser, database, Inv, Stages
      <4>2. pc'[r] \in {"done", "inserted"}
        BY <1>1, <3>3 DEF InsertUser, Answer
      <4> QED BY <4>1, <4>2 DEF Quiet
    <3>2. CASE Commit(r, "account", NewUser(r))
      BY <1>1, <3>2 DEF Commit, Answer, Quiet, Table
    <3> QED BY <2>4, <3>1, <3>2, <3>3 DEF CreateUser
  <2>5. CASE Rollback(r)
    BY <1>1, <1>2, <2>5 DEF Rollback, Answer, database
  <2> QED BY <1>3, <2>1, <2>2, <2>3, <2>4, <2>5 DEF Request
<1>4. CASE AccountRequest(r)
  <2>1. Asked[r].kind \in {"login", "photo", "names"}
    BY <1>4 DEF AccountRequest, Login, UploadUserProfilePhoto, UploadFile, UpdateUserProfilePhoto,
       UpdateUser, AnswerProfile, Arrives, Inv, Stages
  <2>2. rows'["conversation"] = rows["conversation"] /\ rows'["message"] = rows["message"]
    <3>1. \/ rows' = rows
          \/ \E a, k : rows' = [rows EXCEPT !["account"][a].photo = k]
          \/ \E a, n : rows' = [rows EXCEPT !["account"][a].name = n]
      BY <1>4 DEF AccountRequest, Login, UploadUserProfilePhoto, UploadFile, UpdateUserProfilePhoto,
         UpdateUser, UpdateNames, WriteName, AnswerProfile, Reject
    <3> QED BY <1>1, <3>1 DEF Table
  <2>3. pc'[r] # "stamped"
    BY <1>1, <1>4 DEF AccountRequest, Login, UploadUserProfilePhoto, UploadFile,
       UpdateUserProfilePhoto, UpdateUser, AnswerProfile, Arrives, Reject, Answer
  <2> QED BY <2>1, <2>2, <2>3 DEF Quiet
<1>5. CASE ListRequest(r)
  <2>1. CASE InsertMessage(r)
    BY <1>1, <1>2, <2>1 DEF InsertMessage, Answer, database, Table
  <2>2. CASE Find(r)
    BY <1>1, <1>2, <2>2 DEF Find, Answer, Unread, database
  <2>3. CASE Count(r)
    BY <1>1, <1>2, <2>3 DEF Count, Answer, Unread, database
  <2> QED BY <1>5, <2>1, <2>2, <2>3 DEF ListRequest
<1> QED
  BY <1>3, <1>4, <1>5 DEF StepOf

LEMMA NextTimes ==
    ASSUME Inv, RowsInv, TouchTimes, SendTimes, [RestNext]_restVars
    PROVE  TouchTimes' /\ SendTimes'
<1>0. shared \subseteq shared'
  BY TimesGoOn
<1>1. CASE Idle
  BY <1>1, <1>0 DEF Idle, TouchTimes, SendTimes, At, SentAt, Ids, WillTouch, TouchTime, WillSend, Open
<1>2. ASSUME NEW r \in Req, StepOf(r) PROVE TouchTimes' /\ SendTimes'
  <2>1. Alone(r) /\ DOMAIN pc = Req /\ DOMAIN tx = Req /\ DOMAIN stamp = Req
    BY <1>2, AloneStep DEF Inv, Shapes, RowsInv, ListShapes
  <2>2. ASSUME rows'["conversation"] = rows["conversation"],
               rows'["message"] = rows["message"],
               WillTouch(r)' => \/ JustRead(TouchTime(r)')
                                \/ WillTouch(r) /\ TouchTime(r)' = TouchTime(r),
               WillSend(r)' => \/ JustRead(tx'[r].at)
                               \/ WillSend(r) /\ tx'[r].at = tx[r].at
        PROVE  TouchTimes' /\ SendTimes'
    <3>1. /\ \A c \in Ids("conversation")' :
               c \in Ids("conversation") /\ rows'["conversation"][c].at = At(c)
          /\ \A m \in Ids("message")' :
               m \in Ids("message") /\ rows'["message"][m].at = SentAt(m)
      BY <2>2 DEF Ids, At, SentAt
    <3>2. Touches(r, {}) /\ Sends(r, {})
      BY <2>2, <3>1 DEF Touches, Sends
    <3> QED BY <1>0, <2>1, <3>2, TouchStep, SendStep
  <2>3. ASSUME NEW t \in Table, Insert(r, t) PROVE TouchTimes' /\ SendTimes'
    <3>1. UNCHANGED rows /\ pc'[r] = "inserted" /\ tx'[r].at = clock' /\ Asked[r].kind = t
      BY <2>1, <2>3 DEF Insert
    <3>2. t \in {"conversation", "message"} => JustRead(clock')
      <4>1. t \in {"conversation", "message"} => ReadClock
        BY <2>3 DEF Insert
      <4>2. clock \in Nat /\ shared \subseteq 0..clock
        BY DEF RowsInv, TableRows
      <4> QED BY <4>1, <4>2, ReadClockStep DEF JustRead
    <3> QED BY <2>2, <3>1, <3>2 DEF TouchTime, WillTouch, WillSend
  <2>4. CASE ReadTime(r)
    <3>1. /\ UNCHANGED <<rows, tx>> /\ pc'[r] = "stamped" /\ stamp'[r] = clock'
          /\ pc[r] = "inserted" /\ Asked[r].kind = "message" /\ ReadClock
      BY <2>1, <2>4 DEF ReadTime
    <3>2. JustRead(clock')
      <4>1. clock \in Nat /\ shared \subseteq 0..clock
        BY DEF RowsInv, TableRows
      <4> QED BY <3>1, <4>1, ReadClockStep DEF JustRead
    <3> QED BY <2>2, <3>1, <3>2 DEF TouchTime, WillSend, Open
  <2>5. CASE pc[r] = "inserted" /\ CreateConversation(r)
    <3>1. PICK new, at : new = tx[r].id /\ at = tx[r].at
      OBVIOUS
    <3>2. /\ Asked[r].kind = "conversation"
          /\ Ids("conversation")' = Ids("conversation") \cup {new}
          /\ rows'["conversation"][new].at = at
          /\ \A c \in Ids("conversation") : rows'["conversation"][c] = rows["conversation"][c]
          /\ rows'["message"] = rows["message"]
      <4>1. /\ Asked[r].kind = "conversation"
            /\ Ids("conversation")' = Ids("conversation") \cup {tx[r].id}
            /\ rows'["conversation"][tx[r].id] = [users |-> Asked[r].users, at |-> tx[r].at]
            /\ \A c \in Ids("conversation") : rows'["conversation"][c] = rows["conversation"][c]
            /\ rows'["message"] = rows["message"]
        BY <2>5, ConversationCommitted
      <4> QED BY <3>1, <4>1
    <3>3. WillTouch(r) /\ TouchTime(r) = at
      BY <2>5, <3>1, <3>2 DEF WillTouch, TouchTime
    <3>4. ~WillTouch(r)' /\ ~WillSend(r)'
      <4>1. pc'[r] = "done"
        BY <2>1, <2>5 DEF CreateConversation, Insert, Commit, Answer
      <4> QED BY <4>1 DEF WillTouch, WillSend, Open
    <3>5. TouchTimes'
      <4>1. \A c \in Ids("conversation")' :
              c \in {new} \/ (c \in Ids("conversation") /\ rows'["conversation"][c].at = At(c))
        BY <3>2 DEF At
      <4>2. \A c \in {new} : WillTouch(r) /\ rows'["conversation"][c].at = TouchTime(r)
        BY <3>2, <3>3
      <4>3. Touches(r, {new})
        BY <3>4, <4>1, <4>2 DEF Touches
      <4> QED BY <1>0, <2>1, <4>3, TouchStep
    <3>6. SendTimes'
      <4>1. \A m \in Ids("message")' :
              m \in Ids("message") /\ rows'["message"][m].at = SentAt(m)
        BY <3>2 DEF Ids, SentAt
      <4>2. Sends(r, {})
        BY <3>4, <4>1 DEF Sends
      <4> QED BY <1>0, <2>1, <4>2, SendStep
    <3> QED BY <3>5, <3>6
  <2>6. CASE SaveMessage(r)
    <3>1. PICK new, at, k : new = tx[r].id /\ at = tx[r].at /\ k = Asked[r].conv
      OBVIOUS
    <3>2. /\ Asked[r].kind = "message" /\ Open(r) /\ k \in Ids("conversation")
          /\ Ids("message")' = Ids("message") \cup {new}
          /\ rows'["message"][new].at = at
          /\ \A m \in Ids("message") : rows'["message"][m] = rows["message"][m]
          /\ Ids("conversation")' = Ids("conversation")
      <4>1. /\ Asked[r].kind = "message" /\ Open(r) /\ Asked[r].conv \in Ids("conversation")
            /\ Ids("message")' = Ids("message") \cup {tx[r].id}
            /\ rows'["message"][tx[r].id] = [conv |-> Asked[r].conv, at |-> tx[r].at]
            /\ \A m \in Ids("message") : rows'["message"][m] = rows["message"][m]
            /\ Ids("conversation")' = Ids("conversation")
        BY <2>6, MessageSaved
      <4> QED BY <3>1, <4>1
    <3>3. rows'["conversation"] = [rows["conversation"] EXCEPT ![k].at = stamp[r]]
      <4>1. rows'["conversation"] = [rows["conversation"] EXCEPT ![Asked[r].conv].at = stamp[r]]
        BY <2>6, MessageSaved
      <4> QED BY <3>1, <4>1
    <3>4. /\ rows'["conversation"][k].at = stamp[r]
          /\ \A c \in Ids("conversation") \ {k} : rows'["conversation"][c].at = At(c)
      <4>1. rows["conversation"][k] \in [users : Seq(User), at : 0..clock]
        BY <3>2 DEF RowsInv, TableRows
      <4> QED BY <3>2, <3>3, <4>1 DEF Ids, At
    <3>5. WillTouch(r) /\ TouchTime(r) = stamp[r] /\ WillSend(r) /\ tx[r].at = at
      BY <2>6, <3>1, <3>2 DEF WillTouch, TouchTime, WillSend, SaveMessage
    <3>6. ~WillTouch(r)' /\ ~WillSend(r)'
      <4>1. pc'[r] = "done"
        BY <2>1, <2>6 DEF SaveMessage, Answer
      <4> QED BY <4>1 DEF WillTouch, WillSend, Open
    <3>7. TouchTimes'
      <4>1. \A c \in Ids("conversation")' :
              c \in {k} \/ (c \in Ids("conversation") /\ rows'["conversation"][c].at = At(c))
        BY <3>2, <3>4
      <4>2. \A c \in {k} : WillTouch(r) /\ rows'["conversation"][c].at = TouchTime(r)
        BY <3>4, <3>5
      <4>3. Touches(r, {k})
        BY <3>6, <4>1, <4>2 DEF Touches
      <4> QED BY <1>0, <2>1, <4>3, TouchStep
    <3>8. SendTimes'
      <4>1. \A m \in Ids("message")' :
              m \in {new} \/ (m \in Ids("message") /\ rows'["message"][m].at = SentAt(m))
        BY <3>2 DEF SentAt
      <4>2. \A m \in {new} : WillSend(r) /\ rows'["message"][m].at = tx[r].at
        BY <3>2, <3>5
      <4>3. Sends(r, {new})
        BY <3>6, <4>1, <4>2 DEF Sends
      <4> QED BY <1>0, <2>1, <4>3, SendStep
    <3> QED BY <3>7, <3>8
  <2>7. CASE Quiet(r)
    <3>1. ~WillTouch(r)' /\ ~WillSend(r)'
      BY <2>7 DEF Quiet, WillTouch, WillSend, Open
    <3> QED BY <2>2, <2>7, <3>1 DEF Quiet
  <2> QED BY <1>2, <2>3, <2>4, <2>5, <2>6, <2>7, StepKinds
<1> QED
  BY <1>1, <1>2, SomeStep

LEMMA InitTimes == RestInit => TouchTimes /\ SendTimes
<1> SUFFICES ASSUME RestInit PROVE TouchTimes /\ SendTimes
  OBVIOUS
<1>1. \A r \in Req : pc[r] \in {"new", "done"}
  BY DEF RestInit, Init
<1>2. Ids("message") = {}
  BY DEF RestInit, Init, Ids, Table
<1>3. \A c \in Ids("conversation") : At(c) = c
  BY DEF RestInit, Init, Ids, Table, At
<1> QED
  BY <1>1, <1>2, <1>3 DEF TouchTimes, SendTimes, WillTouch, WillSend, Open

(***************************************************************************)
(* A list read page by page                                                *)
(***************************************************************************)

\* Clients whose pages are within the limit and of a list that has an order.
Ordered(r) ==
    /\ Asked[r].kind = "list" /\ Asked[r].of \in {"message", "conversation"}
    /\ Asked[r].size <= MaxSize
    /\ Asked[r].of = "conversation" => back = {}

Newer(r, t) == {x \in Listed(r) : Time(r, x) > t}

\* The rows of the first page's list that have not moved, have a time of their own and
\* are still to come, and the number of pages that are behind a client once it has
\* the next ones.
Missed(r) ==
    {h \in had[r] : h.id \notin Received(r) /\ Time(r, h.id) = h.at /\ h.at \notin shared}
Behind(r, h) == IF pc[r] = "found" /\ h.id \notin found[r] THEN Len(got[r]) + 1 ELSE Len(got[r])

\* A client between two pages will find the rows that it still has to get behind
\* the pages it has: as many rows are newer. A client with all pages missed none.
Paged(r) ==
    /\ pc[r] = "new" => got[r] = <<>>
    /\ \A h \in had[r] : h.id \in Listed(r) /\ h.at <= Time(r, h.id)
    /\ pc[r] \in {"found", "paged"} =>
        \A h \in Missed(r) : Cardinality(Newer(r, h.at)) >= Behind(r, h) * Asked[r].size
    /\ pc[r] \in {"found", "paged"} /\ got[r] # <<>> => Len(got[r]) * Asked[r].size < Last(got[r]).total
    /\ Complete(r) => Missed(r) = {}

Pages == \A r \in Req : Ordered(r) => Paged(r)

\* The rows that a list may start with are the first n, or all.
LEMMA FirstRows ==
    ASSUME NEW r \in Req, NEW n \in Nat, IsFiniteSet(Listed(r)), NEW a \in Starts(r, n)
    PROVE  /\ a \subseteq Listed(r) /\ IsFiniteSet(a) /\ Cardinality(a) \in Nat
           /\ Cardinality(a) <= n /\ (a = Listed(r) \/ Cardinality(a) = n)
           /\ \A x \in a, y \in Listed(r) \ a : Time(r, x) >= Time(r, y)
<1> DEFINE all == Cardinality(Listed(r))
<1>1. all \in Nat
  BY FS_CardinalityType
<1>2. Min({n, all}) = IF n <= all THEN n ELSE all
  <2>1. CASE n <= all
    <3>1. n \in {n, all} /\ \A y \in {n, all} : n =< y
      BY <1>1, <2>1
    <3>2. \A x \in {n, all} : (\A y \in {n, all} : x =< y) => x = n
      BY <1>1, <2>1
    <3> QED BY <2>1, <3>1, <3>2 DEF Min
  <2>2. CASE ~(n <= all)
    <3>1. all \in {n, all} /\ \A y \in {n, all} : all =< y
      BY <1>1, <2>2
    <3>2. \A x \in {n, all} : (\A y \in {n, all} : x =< y) => x = all
      BY <1>1, <2>2
    <3> QED BY <2>2, <3>1, <3>2 DEF Min
  <2> QED BY <2>1, <2>2
<1>3. /\ a \in SUBSET Listed(r) /\ Cardinality(a) = Min({n, all})
      /\ InOrder(r, a, Listed(r) \ a)
  BY DEF Starts, kSubset
<1>4. IsFiniteSet(a) /\ (all = Cardinality(a) => Listed(r) = a)
  BY <1>3, FS_Subset
<1>5. Cardinality(a) \in Nat /\ Cardinality(a) <= n /\ (Cardinality(a) = n \/ Cardinality(a) = all)
  BY <1>1, <1>2, <1>3
<1> QED
  BY <1>3, <1>4, <1>5 DEF InOrder

\* Rows of an ordered list have times of their own, unless those are shared.
LEMMA OwnTime ==
    ASSUME RowsInv, TouchTimes, SendTimes, NEW r \in Req, Ordered(r),
           NEW x \in Listed(r), NEW y \in Listed(r), Time(r, x) = Time(r, y),
           Time(r, x) \notin shared
    PROVE  x = y
BY DEF Ordered, Listed, Time, TouchTimes, SendTimes, At, SentAt, Ids

\* A list and the rows of it that are newer than one.
LEMMA NewerRows ==
    ASSUME RowsInv, NEW r \in Req, Asked[r].kind = "list", NEW t
    PROVE  /\ IsFiniteSet(Listed(r)) /\ IsFiniteSet(Newer(r, t))
           /\ Cardinality(Listed(r)) \in Nat /\ Cardinality(Newer(r, t)) \in Nat
           /\ \A x \in Listed(r) : Time(r, x) \in Nat
<1>1. IsFiniteSet(Listed(r)) /\ \A x \in Listed(r) : Time(r, x) \in 0..clock
  BY ListedRows
<1>2. Newer(r, t) \in SUBSET Listed(r)
  BY DEF Newer
<1>3. IsFiniteSet(Newer(r, t))
  BY <1>1, <1>2, FS_Subset
<1> QED
  BY <1>1, <1>3, FS_CardinalityType

\* Now and after a step.
ListsFinite ==
    \A r \in Req : Asked[r].kind = "list" =>
        IsFiniteSet(Listed(r)) /\ \A x \in Listed(r) : Time(r, x) \in Nat

LEMMA ListsAreFinite == RowsInv => ListsFinite
BY NewerRows DEF ListsFinite

LEMMA ListsStayFinite == RowsInv' => ListsFinite'
BY ListsAreFinite, PTL

\* A row that a page passes over is behind that page, if it was behind the pages
\* before.
LEMMA BehindThePage ==
    ASSUME RowsInv, TouchTimes, SendTimes, NEW r \in Req, Ordered(r),
           NEW n \in Nat, NEW z \in Nat, NEW a \in Starts(r, n), NEW b \in Starts(r, n + z),
           NEW x \in Listed(r), x \notin b \ a,
           NEW t, t = Time(r, x), t \notin shared, Cardinality(Newer(r, t)) >= n
    PROVE  Cardinality(Newer(r, t)) >= n + z
<1> DEFINE K == Newer(r, t)
<1>1. Asked[r].kind = "list"
  BY DEF Ordered
<1>2. /\ IsFiniteSet(Listed(r)) /\ IsFiniteSet(K) /\ Cardinality(K) \in Nat
      /\ \A y \in Listed(r) : Time(r, y) \in Nat
  BY <1>1, NewerRows
<1>3. n + z \in Nat
  OBVIOUS
<1>4. /\ a \subseteq Listed(r) /\ IsFiniteSet(a) /\ Cardinality(a) \in Nat /\ Cardinality(a) <= n
      /\ \A u \in a, y \in Listed(r) \ a : Time(r, u) >= Time(r, y)
  BY <1>2, FirstRows
<1>5. /\ b \subseteq Listed(r) /\ IsFiniteSet(b) /\ (b = Listed(r) \/ Cardinality(b) = n + z)
      /\ \A u \in b, y \in Listed(r) \ b : Time(r, u) >= Time(r, y)
  BY <1>2, <1>3, FirstRows
<1>6. x \notin a
  <2> SUFFICES ASSUME x \in a PROVE FALSE
    OBVIOUS
  <2>1. K \subseteq a \ {x}
    <3> SUFFICES ASSUME NEW y \in K PROVE y \in a \ {x}
      OBVIOUS
    <3>1. y \in Listed(r) /\ Time(r, y) > t
      BY DEF Newer
    <3>2. y # x
      BY <1>2, <3>1
    <3>3. y \in a
      BY <1>2, <1>4, <3>1
    <3> QED BY <3>2, <3>3
  <2>2. IsFiniteSet(a \ {x}) /\ Cardinality(a \ {x}) = Cardinality(a) - 1
    BY <1>4, FS_RemoveElement
  <2>3. Cardinality(K) <= Cardinality(a \ {x})
    BY <2>1, <2>2, FS_Subset
  <2> QED BY <1>2, <1>4, <2>2, <2>3
<1>7. x \notin b
  BY <1>6
<1>8. b \subseteq K
  <2> SUFFICES ASSUME NEW y \in b PROVE y \in K
    OBVIOUS
  <2>1. y \in Listed(r) /\ Time(r, y) >= t
    BY <1>5, <1>7
  <2>2. Time(r, y) # t
    BY <1>7, <2>1, OwnTime
  <2>3. Time(r, y) > t
    BY <1>2, <2>1, <2>2
  <2> QED BY <2>1, <2>3 DEF Newer
<1>9. Cardinality(b) = n + z
  BY <1>5, <1>7
<1>10. Cardinality(b) <= Cardinality(K)
  BY <1>2, <1>8, FS_Subset
<1> QED
  BY <1>2, <1>9, <1>10

\* Rows that are saved or moved meanwhile only add to what is newer.
LEMMA ListsGrow ==
    ASSUME RowsInv, Forward, NEW r \in Req, Ordered(r)'
    PROVE  /\ Ordered(r)
           /\ Listed(r) \subseteq Listed(r)'
           /\ \A x \in Listed(r) : Time(r, x) <= Time(r, x)'
<1>1. Ordered(r)
  BY DEF Ordered, Forward
<1>2. CASE Asked[r].of = "message"
  <2>1. \A x \in Listed(r) : x \in Ids("message") /\ Time(r, x) = SentAt(x) /\ SentAt(x) \in Nat
    BY <1>2 DEF Listed, Time, Ids, SentAt, RowsInv, TableRows
  <2>2. ASSUME NEW x \in Listed(r) PROVE x \in Listed(r)' /\ Time(r, x)' = SentAt(x)
    <3>1. x \in Ids("message")' /\ rows'["message"][x] = rows["message"][x]
      BY <2>1 DEF Forward
    <3> QED BY <1>2, <3>1 DEF Listed, Time, Ids, SentAt
  <2> QED BY <1>1, <2>1, <2>2
<1>3. CASE Asked[r].of = "conversation"
  <2>1. \A x \in Listed(r) : x \in Ids("conversation") /\ Time(r, x) = At(x)
    BY <1>3 DEF Listed, Time, Ids, At
  <2>2. back' = {}
    BY <1>3 DEF Ordered
  <2>3. ASSUME NEW x \in Listed(r) PROVE x \in Listed(r)' /\ Time(r, x) <= Time(r, x)'
    <3>1. /\ x \in Ids("conversation")'
          /\ rows'["conversation"][x].users = rows["conversation"][x].users
          /\ rows["conversation"][x].at <= rows'["conversation"][x].at
      BY <2>1, <2>2 DEF Forward
    <3> QED BY <1>3, <2>1, <3>1 DEF Listed, Time, Ids, At
  <2> QED BY <1>1, <2>3
<1> QED
  BY <1>1, <1>2, <1>3 DEF Ordered

\* Steps of others.
LEMMA PagedKept ==
    ASSUME RowsInv, RowsInv', Forward, shared \subseteq shared', NEW r \in Req, Ordered(r)', Paged(r),
           pc'[r] = pc[r], found'[r] = found[r], got'[r] = got[r], had'[r] = had[r]
    PROVE  Paged(r)'
<1>1. /\ Ordered(r) /\ Listed(r) \subseteq Listed(r)'
      /\ \A x \in Listed(r) : Time(r, x) <= Time(r, x)'
  BY ListsGrow
<1>2. Asked[r].kind = "list" /\ Asked[r].size \in Nat
  BY <1>1, ListsAskedAssumption DEF Ordered
<1>3. \A x \in Listed(r) : Time(r, x) \in Nat /\ Time(r, x)' \in Nat
  <2>1. \A x \in Listed(r) : Time(r, x) \in Nat
    BY <1>2, NewerRows
  <2>2. \A x \in Listed(r)' : Time(r, x)' \in Nat
    BY <1>2, ListsStayFinite DEF ListsFinite
  <2> QED BY <1>1, <2>1, <2>2
<1>4. \A h \in had[r] : h.id \in Listed(r) /\ h.at \in Nat /\ h.at <= Time(r, h.id)
  BY <1>2 DEF Paged, RowsInv, Reader
<1>5. \A h \in had[r] : h.id \in Listed(r)' /\ h.at <= Time(r, h.id)'
  BY <1>1, <1>3, <1>4
<1>6. Received(r)' = Received(r) /\ (Complete(r)' <=> Complete(r))
  BY DEF Received, Complete
<1>7. Missed(r)' \subseteq Missed(r)
  <2> SUFFICES ASSUME NEW h \in had[r], h.id \notin Received(r), Time(r, h.id)' = h.at,
                      h.at \notin shared'
               PROVE  Time(r, h.id) = h.at /\ h.at \notin shared
    BY <1>6 DEF Missed
  <2> QED BY <1>1, <1>3, <1>4
<1>8. ASSUME NEW h \in had[r] PROVE Cardinality(Newer(r, h.at)) <= Cardinality(Newer(r, h.at)')
  <2>1. Newer(r, h.at) \subseteq Newer(r, h.at)'
    <3> SUFFICES ASSUME NEW x \in Listed(r), Time(r, x) > h.at
                 PROVE  x \in Listed(r)' /\ Time(r, x)' > h.at
      BY DEF Newer
    <3> QED BY <1>1, <1>3, <1>4
  <2>2. IsFiniteSet(Newer(r, h.at)')
    <3>1. IsFiniteSet(Listed(r)')
      BY <1>2, ListsStayFinite DEF ListsFinite
    <3>2. Newer(r, h.at)' \in SUBSET Listed(r)'
      BY DEF Newer
    <3> QED BY <3>1, <3>2, FS_Subset
  <2> QED BY <2>1, <2>2, FS_Subset
<1>9. ASSUME pc'[r] \in {"found", "paged"}, NEW h \in Missed(r)'
      PROVE  Cardinality(Newer(r, h.at)') >= Behind(r, h)' * Asked[r].size
  <2>1. h \in had[r] /\ h \in Missed(r)
    BY <1>7, <1>9 DEF Missed
  <2>2. Cardinality(Newer(r, h.at)) >= Behind(r, h) * Asked[r].size
    BY <1>9, <2>1 DEF Paged
  <2>3. Behind(r, h)' = Behind(r, h)
    BY DEF Behind
  <2>4. Behind(r, h) \in Nat
    <3>1. Len(got[r]) \in Nat
      BY <1>2, LenProperties DEF RowsInv, Reader
    <3> QED BY <3>1 DEF Behind
  <2>5. PICK m \in Nat : m = Behind(r, h) * Asked[r].size
    BY <1>2, <2>4
  <2>6. Cardinality(Newer(r, h.at)) \in Nat /\ Cardinality(Newer(r, h.at)') \in Nat
    <3>1. Cardinality(Newer(r, h.at)) \in Nat
      BY <1>2, NewerRows
    <3>2. IsFiniteSet(Listed(r)') /\ Newer(r, h.at)' \in SUBSET Listed(r)'
      BY <1>2, ListsStayFinite DEF ListsFinite, Newer
    <3>3. IsFiniteSet(Newer(r, h.at)')
      BY <3>2, FS_Subset
    <3> QED BY <3>1, <3>3, FS_CardinalityType
  <2> QED BY <1>8, <2>1, <2>2, <2>3, <2>5, <2>6
<1>10. /\ pc'[r] = "new" => got'[r] = <<>>
       /\ pc'[r] \in {"found", "paged"} /\ got'[r] # <<>> =>
              Len(got'[r]) * Asked[r].size < Last(got'[r]).total
       /\ Complete(r)' => Missed(r)' = {}
  BY <1>6, <1>7 DEF Paged
<1> QED
  BY <1>5, <1>9, <1>10 DEF Paged

\* The reader's own steps.
LEMMA Multiples ==
    ASSUME NEW n \in Nat, NEW z \in Nat
    PROVE  /\ n * z \in Nat /\ (n + 1) * z = n * z + z
           /\ (n + 1 - 1) * z = n * z
OBVIOUS

LEMMA PagesOfTheLimit ==
    ASSUME NEW r \in Req, Ordered(r)
    PROVE  /\ Asked[r].kind = "list" /\ Asked[r].size \in Nat
           /\ PageSize(Asked[r].size) = Asked[r].size
<1>1. Asked[r].kind = "list" /\ Asked[r].size \in Nat /\ Asked[r].size <= MaxSize /\ MaxSize \in Nat
  BY ListsAskedAssumption DEF Ordered
<1> QED
  BY <1>1 DEF PageSize

LEMMA FindPaged ==
    ASSUME Inv, RowsInv, TouchTimes, SendTimes, NEW r \in Req, Ordered(r)', Paged(r), Find(r)
    PROVE  Paged(r)'
<1>1. /\ UNCHANGED <<rows, shared, got, back>>
      /\ pc[r] \in {"new", "paged"}
      /\ had' = IF pc[r] = "new"
                THEN [had EXCEPT ![r] = {[id |-> x, at |-> Time(r, x)] : x \in Listed(r)}]
                ELSE had
  BY DEF Find, Unread, database, times
<1>2. Ordered(r)
  BY <1>1 DEF Ordered
<1>3. PICK n \in Nat, z \in Nat : n = Len(got[r]) /\ z = Asked[r].size
  <2>1. got[r] \in Seq([ids : SUBSET Nat, total : Nat])
    BY <1>2, PagesOfTheLimit DEF RowsInv, Reader
  <2> QED BY <1>2, <2>1, PagesOfTheLimit, LenProperties
<1>4. /\ Listed(r)' = Listed(r) /\ Received(r)' = Received(r)
      /\ \A x : Time(r, x)' = Time(r, x)
      /\ \A t : Newer(r, t)' = Newer(r, t)
  BY <1>1 DEF Listed, Time, Newer, Received
<1>5. \A x \in Listed(r) : Time(r, x) \in Nat
  BY <1>2, PagesOfTheLimit, NewerRows
<1>6. DOMAIN pc = Req /\ DOMAIN found = Req /\ DOMAIN had = Req
  BY DEF Inv, Shapes, RowsInv, ListShapes
<1>7. \A h \in had'[r] : h.id \in Listed(r) /\ h.at <= Time(r, h.id)
  <2>1. CASE pc[r] = "new"
    <3>1. had'[r] = {[id |-> x, at |-> Time(r, x)] : x \in Listed(r)}
      BY <1>1, <1>6, <2>1
    <3> QED BY <1>5, <3>1
  <2>2. CASE pc[r] # "new"
    BY <1>1, <2>2 DEF Paged
  <2> QED BY <2>1, <2>2
<1>8. got[r] # <<>> => pc[r] = "paged" /\ n * z < Last(got[r]).total
  BY <1>1, <1>3 DEF Paged
<1>9. CASE pc'[r] = "done"
  <2>1. ~Complete(r)'
    <3> SUFFICES ASSUME got[r] # <<>>, n * z >= Last(got[r]).total PROVE FALSE
      BY <1>1, <1>3 DEF Complete
    <3>1. Last(got[r]).total \in Nat /\ n * z \in Nat
      <4>1. got[r] \in Seq([ids : SUBSET Nat, total : Nat])
        BY <1>2, PagesOfTheLimit DEF RowsInv, Reader
      <4>2. n \in 1..Len(got[r])
        BY <1>3, <4>1, EmptySeq
      <4>3. got[r][n] \in [ids : SUBSET Nat, total : Nat]
        BY <4>1, <4>2, ElementOfSeq
      <4> QED BY <1>3, <4>3, Multiples DEF Last
    <3>2. PICK v \in Nat, w \in Nat : v = n * z /\ w = Last(got[r]).total
      BY <3>1
    <3> QED BY <1>8, <3>2
  <2> QED BY <1>4, <1>7, <1>9, <2>1 DEF Paged
<1>10. ASSUME NEW page \in Paginate(r), pc'[r] = "found", found'[r] = page PROVE Paged(r)'
  <2>1. PICK a \in Starts(r, n * z), b \in Starts(r, n * z + z) : page = b \ a
    <3>1. /\ Offset(Len(got[r]) + 1, Asked[r].size) = n * z
          /\ PageSize(Asked[r].size) = z
      BY <1>2, <1>3, PagesOfTheLimit, Multiples DEF Offset
    <3> QED BY <1>3, <1>10, <3>1 DEF Paginate
  <2>2. ASSUME NEW h \in Missed(r)'
        PROVE  Cardinality(Newer(r, h.at)) >= Behind(r, h)' * z
    <3>1. /\ h \in had'[r] /\ h.id \notin Received(r)
          /\ h.id \in Listed(r) /\ h.at = Time(r, h.id) /\ h.at \notin shared
      BY <1>1, <1>4, <1>7, <2>2 DEF Missed
    <3>2. /\ Cardinality(Newer(r, h.at)) \in Nat /\ n * z \in Nat
          /\ (n + 1) * z = n * z + z
      BY <1>2, <1>3, PagesOfTheLimit, NewerRows, Multiples
    <3>3. Cardinality(Newer(r, h.at)) >= n * z
      <4>1. CASE pc[r] = "new"
        <5>1. got[r] = <<>>
          BY <4>1 DEF Paged
        <5>2. n = 0
          BY <1>3, <5>1
        <5> QED BY <3>2, <5>2
      <4>2. CASE pc[r] = "paged"
        <5>1. h \in Missed(r) /\ Behind(r, h) = n
          BY <1>1, <1>3, <3>1, <4>2 DEF Missed, Behind
        <5> QED BY <1>3, <4>2, <5>1 DEF Paged
      <4> QED BY <1>1, <4>1, <4>2
    <3>4. CASE h.id \in page
      <4>1. Behind(r, h)' = n
        BY <1>1, <1>3, <1>10, <3>4 DEF Behind
      <4> QED BY <3>3, <4>1
    <3>5. CASE h.id \notin page
      <4>1. Behind(r, h)' = n + 1
        BY <1>1, <1>3, <1>10, <3>5 DEF Behind
      <4>2. PICK m \in Nat : m = n * z
        BY <3>2
      <4>3. PICK t : t = h.at
        OBVIOUS
      <4>4. /\ a \in Starts(r, m) /\ b \in Starts(r, m + z)
            /\ Cardinality(Newer(r, t)) >= m /\ t = Time(r, h.id) /\ h.id \notin b \ a
            /\ t \notin shared
        BY <2>1, <3>1, <3>3, <3>5, <4>2, <4>3
      <4>5. Cardinality(Newer(r, t)) >= m + z
        BY <1>2, <1>3, <3>1, <4>4, BehindThePage
      <4> QED BY <3>2, <4>1, <4>2, <4>3, <4>5
    <3> QED BY <3>4, <3>5
  <2>3. \A h \in Missed(r)' : Cardinality(Newer(r, h.at)') >= Behind(r, h)' * Asked[r].size
    BY <1>3, <1>4, <2>2
  <2>4. ~Complete(r)' /\ pc'[r] # "new"
    BY <1>10 DEF Complete
  <2>5. got'[r] # <<>> => Len(got'[r]) * Asked[r].size < Last(got'[r]).total
    BY <1>1, <1>3, <1>8
  <2> QED BY <1>4, <1>7, <2>3, <2>4, <2>5 DEF Paged
<1>11. pc'[r] = "done" \/ \E page \in Paginate(r) : pc'[r] = "found" /\ found'[r] = page
  BY <1>6 DEF Find, Answer
<1> QED
  BY <1>9, <1>10, <1>11

LEMMA CountPaged ==
    ASSUME Inv, RowsInv, NEW r \in Req, Ordered(r)', Paged(r), Count(r)
    PROVE  Paged(r)'
<1>1. UNCHANGED <<rows, shared, found, had, back>> /\ pc[r] = "found"
  BY DEF Count, Unread, database, times
<1>2. Ordered(r)
  BY <1>1 DEF Ordered
<1>3. /\ Asked[r].kind = "list" /\ got[r] \in Seq([ids : SUBSET Nat, total : Nat])
      /\ DOMAIN pc = Req /\ DOMAIN got = Req
  BY <1>2, PagesOfTheLimit DEF RowsInv, Reader, Inv, Shapes, ListShapes
<1>4. PICK n \in Nat, z \in Nat : n = Len(got[r]) /\ z = Asked[r].size
  BY <1>2, <1>3, PagesOfTheLimit, LenProperties
<1>5. PICK all \in Nat : all = Cardinality(Listed(r))
  BY <1>3, NewerRows
<1>6. /\ Listed(r)' = Listed(r)
      /\ \A x : Time(r, x)' = Time(r, x)
      /\ \A t : Newer(r, t)' = Newer(r, t)
  BY <1>1 DEF Listed, Time, Newer
<1>7. \A h \in had'[r] : h.id \in Listed(r) /\ h.at <= Time(r, h.id)
  BY <1>1 DEF Paged
<1>8. /\ n * z \in Nat /\ (n + 1) * z = n * z + z
  BY Multiples
<1>9. CASE got' = got /\ pc'[r] = "done"
  <2>1. ~Complete(r)'
    <3> SUFFICES ASSUME got[r] # <<>>, n * z >= Last(got[r]).total PROVE FALSE
      BY <1>4, <1>9 DEF Complete
    <3>1. n \in 1..Len(got[r])
      BY <1>3, <1>4, EmptySeq
    <3>2. got[r][n] \in [ids : SUBSET Nat, total : Nat]
      BY <1>3, <3>1, ElementOfSeq
    <3>3. Last(got[r]).total \in Nat
      BY <1>4, <3>2 DEF Last
    <3>4. PICK v \in Nat, w \in Nat : v = n * z /\ w = Last(got[r]).total
      BY <1>8, <3>3
    <3>5. v < w
      BY <1>1, <1>4, <3>4 DEF Paged
    <3> QED BY <3>4, <3>5
  <2> QED BY <1>6, <1>7, <1>9, <2>1 DEF Paged
<1>10. ASSUME got' = [got EXCEPT ![r] = Append(got[r], [ids |-> found[r], total |-> all])],
              pc'[r] = IF (n + 1) * z < all THEN "paged" ELSE "done"
       PROVE  Paged(r)'
  <2>1. PICK page : page = [ids |-> found[r], total |-> all]
    OBVIOUS
  <2>2. page \in [ids : SUBSET Nat, total : Nat] /\ page.ids = found[r] /\ page.total = all
    <3>1. found[r] \subseteq Nat
      BY <1>3, ListedRows DEF RowsInv, Reader
    <3> QED BY <2>1, <3>1
  <2>3. got'[r] = Append(got[r], page)
    BY <1>3, <1>10, <2>1
  <2>4. /\ got'[r] \in Seq([ids : SUBSET Nat, total : Nat])
        /\ Len(got'[r]) = n + 1 /\ DOMAIN got'[r] = 1..n + 1
        /\ \A i \in 1..n : got'[r][i] = got[r][i]
        /\ got'[r][n + 1] = page /\ got'[r] # <<>>
    <3>1. /\ Append(got[r], page) \in Seq([ids : SUBSET Nat, total : Nat])
          /\ Len(Append(got[r], page)) = Len(got[r]) + 1
          /\ \A i \in 1..Len(got[r]) : Append(got[r], page)[i] = got[r][i]
          /\ Append(got[r], page)[Len(got[r]) + 1] = page
      BY <1>3, <2>2, AppendProperties
    <3>2. DOMAIN Append(got[r], page) = 1..n + 1
      BY <1>4, <3>1, LenProperties
    <3>3. Append(got[r], page) # <<>>
      BY <1>4, <3>1, EmptySeq
    <3> QED BY <1>4, <2>3, <3>1, <3>2, <3>3
  <2>5. Last(got'[r]).total = all
    BY <2>2, <2>4 DEF Last
  <2>6. Received(r)' = Received(r) \cup found[r]
    <3>1. DOMAIN got[r] = 1..n
      BY <1>3, <1>4, LenProperties
    <3>2. \A i \in 1..n + 1 : i \in 1..n \/ i = n + 1
      OBVIOUS
    <3>3. \A i \in 1..n : i \in 1..n + 1
      OBVIOUS
    <3>4. n + 1 \in 1..n + 1
      OBVIOUS
    <3>5. ASSUME NEW x \in Received(r)' PROVE x \in Received(r) \cup found[r]
      <4>1. PICK i \in 1..n + 1 : x \in got'[r][i].ids
        BY <2>4, <3>5 DEF Received
      <4> QED BY <2>2, <2>4, <3>1, <3>2, <4>1 DEF Received
    <3>6. ASSUME NEW x \in Received(r) \cup found[r] PROVE x \in Received(r)'
      <4>1. CASE x \in found[r]
        BY <2>2, <2>4, <3>4, <4>1 DEF Received
      <4>2. CASE x \in Received(r)
        <5>1. PICK i \in 1..n : x \in got[r][i].ids
          BY <3>1, <4>2 DEF Received
        <5>2. i \in DOMAIN got'[r] /\ x \in got'[r][i].ids
          BY <2>4, <3>3, <5>1
        <5> QED BY <5>2 DEF Received
      <4> QED BY <3>6, <4>1, <4>2
    <3> QED BY <3>5, <3>6
  <2>7. ASSUME NEW h \in Missed(r)'
        PROVE  Cardinality(Newer(r, h.at)) \in Nat /\ Cardinality(Newer(r, h.at)) >= (n + 1) * z
    <3>1. h \in Missed(r) /\ h.id \notin found[r]
      BY <1>1, <1>6, <2>6, <2>7 DEF Missed
    <3>2. Behind(r, h) = n + 1
      BY <1>1, <1>4, <3>1 DEF Behind
    <3> QED BY <1>1, <1>3, <1>4, <3>1, <3>2, NewerRows DEF Paged
  <2>8. CASE pc'[r] = "paged"
    <3>1. (n + 1) * z < all
      BY <1>10, <2>8
    <3>2. \A h \in Missed(r)' : Behind(r, h)' = n + 1
      BY <2>4, <2>8 DEF Behind
    <3>3. \A h \in Missed(r)' : Cardinality(Newer(r, h.at)') >= Behind(r, h)' * Asked[r].size
      BY <1>4, <1>6, <2>7, <3>2
    <3>4. Len(got'[r]) * Asked[r].size < Last(got'[r]).total
      BY <1>4, <2>4, <2>5, <3>1
    <3>5. ~Complete(r)'
      BY <2>8 DEF Complete
    <3> QED BY <1>6, <1>7, <2>8, <3>3, <3>4, <3>5 DEF Paged
  <2>9. CASE pc'[r] = "done"
    <3>1. (n + 1) * z >= all
      <4>1. PICK m \in Nat : m = (n + 1) * z
        BY <1>8
      <4>2. ~(m < all)
        BY <1>10, <2>9, <4>1
      <4> QED BY <4>1, <4>2
    <3>2. ASSUME NEW h \in Missed(r)' PROVE FALSE
      <4>1. h.id \in Listed(r) /\ Time(r, h.id) = h.at /\ Time(r, h.id) \in Nat
        BY <1>3, <1>6, <1>7, <3>2, NewerRows DEF Missed
      <4>2. h.id \notin Newer(r, h.at) /\ Newer(r, h.at) \subseteq Listed(r)
        BY <4>1 DEF Newer
      <4>3. Newer(r, h.at) \in SUBSET (Listed(r) \ {h.id})
        BY <4>2
      <4>4. IsFiniteSet(Listed(r) \ {h.id}) /\ Cardinality(Listed(r) \ {h.id}) = all - 1
        BY <1>3, <1>5, <4>1, NewerRows, FS_RemoveElement
      <4>5. Cardinality(Newer(r, h.at)) <= all - 1
        BY <4>3, <4>4, FS_Subset
      <4>6. PICK m \in Nat : m = (n + 1) * z
        BY <1>8
      <4>7. PICK c \in Nat : c = Cardinality(Newer(r, h.at)) /\ c >= m
        BY <2>7, <4>6
      <4> QED BY <3>1, <4>5, <4>6, <4>7
    <3> QED BY <1>6, <1>7, <2>9, <3>2 DEF Paged
  <2> QED BY <1>10, <2>8, <2>9
<1>11. \/ got' = got /\ pc'[r] = "done"
       \/ /\ got' = [got EXCEPT ![r] = Append(got[r], [ids |-> found[r], total |-> all])]
          /\ pc'[r] = IF (n + 1) * z < all THEN "paged" ELSE "done"
  BY <1>3, <1>4, <1>5 DEF Count, Answer, Total, More
<1> QED
  BY <1>9, <1>10, <1>11

\* A client that reads a list does nothing else.
LEMMA ReaderSteps ==
    ASSUME Inv, RowsInv, NEW r \in Req, Asked[r].kind = "list", StepOf(r)
    PROVE  Find(r) \/ Count(r)
<1>1. pc[r] \in {"new", "found", "paged", "done"}
  BY DEF RowsInv, Reader
<1>2. ~Request(r)
  BY <1>1 DEF Request, LookForConversation, LookForWhiteboard, LookForUser, Look,
     CreateConversation, CreateNewWhiteboard, CreateUser, TakeUserId, InsertUser, Rollback,
     Insert, Commit
<1>3. ~AccountRequest(r)
  BY DEF AccountRequest, Login, UploadUserProfilePhoto, UploadFile, UpdateUserProfilePhoto,
     UpdateUser, AnswerProfile, Arrives, Inv, Stages
<1>4. ~InsertMessage(r) /\ ~ReadTime(r) /\ ~SaveMessage(r)
  BY <1>1 DEF InsertMessage, ReadTime, SaveMessage
<1> QED
  BY <1>2, <1>3, <1>4 DEF StepOf, ListRequest

LEMMA NextPages ==
    ASSUME Inv, RowsInv, RowsInv', TouchTimes, SendTimes, Pages, [RestNext]_restVars
    PROVE  Pages'
<1> SUFFICES ASSUME NEW s \in Req, Ordered(s)' PROVE Paged(s)'
  BY DEF Pages
<1>1. Forward
  BY RowsGoForward
<1>2. Ordered(s) /\ Asked[s].kind = "list"
  BY <1>1, ListsGrow DEF Ordered
<1>3. Paged(s)
  BY <1>2 DEF Pages
<1>4. ASSUME pc'[s] = pc[s], found'[s] = found[s], got'[s] = got[s], had'[s] = had[s]
      PROVE  Paged(s)'
  BY <1>1, <1>3, <1>4, TimesGoOn, PagedKept
<1>5. CASE Idle
  BY <1>4, <1>5 DEF Idle
<1>6. ASSUME NEW r \in Req \ {s}, StepOf(r) PROVE Paged(s)'
  BY <1>4, <1>6, AloneStep DEF Alone
<1>7. CASE StepOf(s)
  BY <1>2, <1>3, <1>7, ReaderSteps, FindPaged, CountPaged
<1> QED
  BY <1>5, <1>6, <1>7, SomeStep

LEMMA InitPages == RestInit => Pages
<1> SUFFICES ASSUME RestInit, NEW r \in Req PROVE Paged(r)
  BY DEF Pages
<1>1. pc[r] \in {"new", "done"} /\ got[r] = <<>> /\ had[r] = {}
  BY DEF RestInit, Init, ListsInit
<1> QED
  BY <1>1 DEF Paged, Complete

\* A client that pages through a list of messages or conversations to its end, while
\* others save messages and create conversations, gets every row that was there at
\* its first page, but conversations that moved to the front meanwhile, and rows whose
\* time was read more than once; unless some conversation's updated_at went back.
THEOREM PagesCorrect == RestSpec => []PagesMissNothing
<1> DEFINE All == Inv /\ RowsInv /\ TouchTimes /\ SendTimes /\ Pages
<1>1. RestInit => All
  BY InitInv, InitRows, InitTimes, InitPages
<1>2. All /\ [RestNext]_restVars => All'
  BY NextInv, NextRows, NextTimes, NextPages
<1>3. All => PagesMissNothing
  <2> SUFFICES ASSUME Pages, NEW r \in Req, Complete(r), ~(Asked[r].of = "account"),
                      ~(Asked[r].of = "conversation" /\ back # {}), NEW h \in had[r],
                      h.at \notin shared
               PROVE  h.id \in Received(r) \/ Time(r, h.id) # h.at
    BY DEF PagesMissNothing
  <2>1. Asked[r].of \in {"message", "account", "conversation"} /\ Asked[r].size <= MaxSize
    BY ListsAskedAssumption DEF Complete
  <2>2. Ordered(r)
    BY <2>1 DEF Ordered, Complete
  <2> QED BY <2>2 DEF Pages, Paged, Missed
<1> HIDE DEF All
<1> QED
  BY <1>1, <1>2, <1>3, PTL DEF RestSpec
=============================================================================
