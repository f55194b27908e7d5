-------------------------------- MODULE Store --------------------------------
(***************************************************************************)
(* The database of the REST requests, and the requests that look for a row *)
(* and create it when they find none (rest_handler.go with the services    *)
(* and repositories under it): a conversation for some users, a            *)
(* conversation's whiteboard, an account.                                  *)
(* Each request is a goroutine of the HTTP server; between its lookup, its *)
(* insertion and its commit the others run. A query reads what is          *)
(* committed (PostgreSQL's default); an insertion takes the next id of the *)
(* table's sequence at once, its row is seen once it commits, and the id   *)
(* of a row that is refused or rolled back is lost. The routes delete none *)
(* of these rows, but the body of a registration is bound to the model of  *)
(* the row: it may bring an id, a photo, and a time of deletion.           *)
(***************************************************************************)
EXTENDS Integers, SequencesExt

CONSTANTS
    User,       \* user ids
    Email,      \* email addresses
    Password,   \* passwords; a hash stands for its password
    Name,       \* first and last names
    Ext,        \* file name extensions of photos
    Nil,        \* no photo, or no name
    Req,        \* requests
    Asked,      \* what each request asks for
    Faulty,     \* the requests whose queries may meet an error
    Loads,      \* requests that come in together, and the rows they find
    Repeatable  \* the times that several readings of the clock may give: in the
                \* code any, for TLC a bound

Table == {"conversation", "whiteboard", "account", "message"}
Registering == {r \in Req : Asked[r].kind = "account"}

\* A photo's object is named by its user's id, the second and the extension.
Key == [user : Nat, at : Nat, ext : Ext]
UserRow == [email : Email, password : Password, name : Name, photo : Key \cup {Nil},
            deleted : BOOLEAN]

ASSUME AskedAssumption ==
    \A r \in Req : Asked[r].kind \in Table =>
        \/ Asked[r] \in [kind : {"whiteboard"}, user : User, conv : Nat]
        \/ Asked[r] \in [kind : {"account"}, email : Email, password : Password,
                         name : Name, valid : BOOLEAN, id : Nat, photo : Key \cup {Nil},
                         deleted : BOOLEAN]
        \/ Asked[r] \in [kind : {"message"}, conv : Nat]
        \/ /\ Asked[r] \in [kind : {"conversation"}, users : Seq(User)]
           /\ Len(Asked[r].users) >= 2
           /\ IsInjective(Asked[r].users)
ASSUME FaultyAssumption == Faulty \subseteq Req
ASSUME LoadsAssumption ==
    \A load \in Loads :
        /\ load.reqs \subseteq Req
        /\ load.conversations \in Seq(Seq(User))
        /\ load.accounts \in Seq(UserRow)
        /\ \A a, b \in DOMAIN load.accounts :
            load.accounts[a].email = load.accounts[b].email => a = b

VARIABLES
    rows,       \* the committed rows of each table, by id
    drawns,     \* the committed drawns: whiteboard and drawer
    ids,        \* the last id each table's sequence gave
    clock,      \* the last time that was read; the next reading may be the same
    shared,     \* history: the times that were read more than once
    pc,         \* where each request is: "new", "missing", "inserted", ..., "done"
    tx,         \* the row a request's open transaction inserts: its id and time
    res,        \* the id of the row a request was answered with; 0 for none
    seen        \* history: the ids that were committed when it looked

times == <<clock, shared>>
vars == <<rows, drawns, ids, times, pc, tx, res, seen>>
database == <<rows, drawns, ids, times>>

Init ==
    \E load \in Loads :
        /\ rows = [t \in Table |-> CASE t = "conversation" ->
                                            [c \in DOMAIN load.conversations |->
                                                [users |-> load.conversations[c], at |-> c]]
                                     [] t = "account" -> load.accounts
                                     [] OTHER -> <<>>]
        /\ drawns = <<>>
        /\ ids = [t \in Table |-> CASE t = "conversation" -> Len(load.conversations)
                                    [] t = "account" -> Len(load.accounts)
                                    [] OTHER -> 0]
        /\ clock = Len(load.conversations)
        /\ shared = {}
        /\ pc = [r \in Req |-> IF r \in load.reqs THEN "new" ELSE "done"]
        /\ tx = [r \in Req |-> [id |-> 0, at |-> 0]]
        /\ res = [r \in Req |-> 0]
        /\ seen = [r \in Req |-> {}]

\* f with y at x.
With(f, x, y) == [z \in DOMAIN f \cup {x} |-> IF z = x THEN y ELSE f[z]]

Answer(r, id) ==
    /\ pc' = [pc EXCEPT ![r] = "done"]
    /\ res' = [res EXCEPT ![r] = id]

(***************************************************************************)
(* Lookups                                                                 *)
(***************************************************************************)
Look(r, table) ==
    /\ pc[r] = "new"
    /\ Asked[r].kind = table
    /\ seen' = [seen EXCEPT ![r] = DOMAIN rows[table]]
    /\ UNCHANGED <<database, tx>>

FoundNothing(r) == pc' = [pc EXCEPT ![r] = "missing"] /\ UNCHANGED res

\* Mutant: the two users are looked for in the order given.
FindConversationInOrder(u, v) ==
    {c \in DOMAIN rows["conversation"] :
        LET members == rows["conversation"][c].users
        IN  \E i, j \in DOMAIN members : i < j /\ members[i] = u /\ members[j] = v}

\* Mutant: one of the two users is enough.
FindConversationOfEither(u, v) ==
    {c \in DOMAIN rows["conversation"] : {u, v} \cap Range(rows["conversation"][c].users) # {}}

\* The conversations with both of two users among their members.
FindConversationBetweenTwoUsers(u, v) ==
    {c \in DOMAIN rows["conversation"] : {u, v} \subseteq Range(rows["conversation"][c].users)}

\* The self-join names no order, so the row scanned last is any of them.
LookForConversation(r) ==
    /\ Look(r, "conversation")
    /\ LET found == FindConversationBetweenTwoUsers(Asked[r].users[1], Asked[r].users[2])
       IN  \/ \E c \in found : Answer(r, c)
           \/ found = {} /\ FoundNothing(r)
           \/ r \in Faulty /\ Answer(r, 0)

CheckUserInConversation(u, k) ==
    k \in DOMAIN rows["conversation"] /\ u \in Range(rows["conversation"][k].users)

FindConversationWhiteboard(k) ==
    {b \in DOMAIN rows["whiteboard"] : rows["whiteboard"][b] = k}

\* A failed member check counts no row; a failed lookup reads as "no whiteboard".
LookForWhiteboard(r) ==
    /\ Look(r, "whiteboard")
    /\ LET boards == FindConversationWhiteboard(Asked[r].conv)
           member == CheckUserInConversation(Asked[r].user, Asked[r].conv)
       IN  \/ (~member \/ r \in Faulty) /\ Answer(r, 0)
           \/ member /\ boards # {} /\ Answer(r, Max(boards))
           \/ member /\ (boards = {} \/ r \in Faulty) /\ FoundNothing(r)

\* The accounts with an email that are not deleted, as gorm adds to every query;
\* First takes the one with the least id.
CheckIfUserExists(e) ==
    {a \in DOMAIN rows["account"] : rows["account"][a].email = e /\ ~rows["account"][a].deleted}

\* A failed lookup reads as "no such user"; validation comes after it.
LookForUser(r) ==
    /\ Look(r, "account")
    /\ LET free == CheckIfUserExists(Asked[r].email) = {}
       IN  \/ (~free \/ ~Asked[r].valid) /\ Answer(r, 0)
           \/ (free \/ r \in Faulty) /\ Asked[r].valid /\ FoundNothing(r)

(***************************************************************************)
(* Transactions                                                            *)
(***************************************************************************)
NextId(table) == ids[table] + 1
TakeId(table) == ids' = [ids EXCEPT ![table] = NextId(table)]

\* A column holds the wall clock's microseconds: two readings may be equal.
ReadClock ==
    /\ clock' \in {clock + 1} \cup ({clock} \cap Repeatable)
    /\ shared' = IF clock' = clock THEN shared \cup {clock} ELSE shared

\* gorm reads the time for created_at and updated_at when it creates a row. (The
\* times of whiteboards and accounts are read by no query and left out.)
Insert(r, table) ==
    /\ Asked[r].kind = table
    /\ TakeId(table)
    /\ IF table \in {"conversation", "message"} THEN ReadClock ELSE UNCHANGED times
    /\ tx' = [tx EXCEPT ![r] = [id |-> NextId(table), at |-> clock']]
    /\ pc' = [pc EXCEPT ![r] = "inserted"]
    /\ UNCHANGED <<rows, drawns, res, seen>>

\* The commit's answer, or reading the new row back, may fail after the fact.
Commit(r, table, row) ==
    /\ pc[r] = "inserted"
    /\ Asked[r].kind = table
    /\ rows' = [rows EXCEPT ![table] = With(@, tx[r].id, row)]
    /\ Answer(r, tx[r].id) \/ (r \in Faulty /\ Answer(r, 0))
    /\ UNCHANGED <<ids, times, tx, seen>>

\* Mutant: the answer names the row that was rolled back.
RollbackAnswered(r) ==
    /\ pc[r] \in {"missing", "numbered", "inserted", "stamped"}
    /\ r \in Faulty
    /\ Answer(r, tx[r].id)
    /\ UNCHANGED <<database, tx, seen>>

\* Any statement of the transaction fails.
Rollback(r) ==
    /\ pc[r] \in {"missing", "numbered", "inserted", "stamped"}
    /\ r \in Faulty
    /\ Answer(r, 0)
    /\ UNCHANGED <<database, tx, seen>>

CreateConversation(r) ==
    \/ pc[r] = "missing" /\ Insert(r, "conversation")
    \/ /\ Commit(r, "conversation", [users |-> Asked[r].users, at |-> tx[r].at])
       /\ UNCHANGED drawns

\* Mutant: only the user who asked gets a drawn.
CreateDrawnOfCreator(r) ==
    \/ pc[r] = "missing" /\ Insert(r, "whiteboard")
    \/ /\ Commit(r, "whiteboard", Asked[r].conv)
       /\ drawns' = Append(drawns, [board |-> tx[r].id, drawer |-> Asked[r].user])

\* The whiteboard's transaction also creates a drawn for each member.
CreateNewWhiteboard(r) ==
    \/ pc[r] = "missing" /\ Insert(r, "whiteboard")
    \/ /\ Commit(r, "whiteboard", Asked[r].conv)
       /\ LET members == rows["conversation"][Asked[r].conv].users
              Drawn(u) == [board |-> tx[r].id, drawer |-> u]
          IN  drawns' = drawns \o [i \in DOMAIN members |-> Drawn(members[i])]

\* A body with an id leaves the sequence alone.
TakeUserId(r) ==
    /\ pc[r] = "missing"
    /\ Asked[r].kind = "account"
    /\ pc' = [pc EXCEPT ![r] = "numbered"]
    /\ \/ /\ Asked[r].id = 0
          /\ TakeId("account")
          /\ tx' = [tx EXCEPT ![r] = [id |-> NextId("account"), at |-> 0]]
       \/ /\ Asked[r].id # 0
          /\ UNCHANGED ids
          /\ tx' = [tx EXCEPT ![r] = [id |-> Asked[r].id, at |-> 0]]
    /\ UNCHANGED <<rows, drawns, times, res, seen>>

\* Mutant: the email column is not unique.
EmailNotUnique(r) == FALSE

\* Ids and emails are unique, those of deleted accounts too: an insertion waits
\* for another's open transaction on the same one, and is refused once that is
\* committed.
EmailTaken(r) == \E a \in DOMAIN rows["account"] : rows["account"][a].email = Asked[r].email
IdTaken(r) == tx[r].id \in DOMAIN rows["account"]

AccountPending(r) ==
    \E s \in Registering : /\ pc[s] = "inserted"
                           /\ Asked[s].email = Asked[r].email \/ tx[s].id = tx[r].id

NewUser(r) == [email |-> Asked[r].email, password |-> Asked[r].password,
               name |-> Asked[r].name, photo |-> Asked[r].photo, deleted |-> Asked[r].deleted]

InsertUser(r) ==
    /\ pc[r] = "numbered"
    /\ \/ (EmailTaken(r) \/ IdTaken(r)) /\ Answer(r, 0)
       \/ /\ ~(EmailTaken(r) \/ IdTaken(r) \/ AccountPending(r))
          /\ pc' = [pc EXCEPT ![r] = "inserted"]
          /\ UNCHANGED res
    /\ UNCHANGED <<database, tx, seen>>

CreateUser(r) ==
    \/ TakeUserId(r)
    \/ InsertUser(r)
    \/ /\ Commit(r, "account", NewUser(r))
       /\ UNCHANGED drawns

Request(r) ==
    \/ LookForConversation(r)
    \/ LookForWhiteboard(r)
    \/ LookForUser(r)
    \/ CreateConversation(r)
    \/ CreateNewWhiteboard(r)
    \/ CreateUser(r)
    \/ Rollback(r)

\* Every request has been answered.
Answered == (\A r \in Req : pc[r] = "done") /\ UNCHANGED vars

Next == (\E r \in Req : Request(r)) \/ Answered

Spec == Init /\ [][Next]_vars
=============================================================================
