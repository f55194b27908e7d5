------------------------------ MODULE RestProofs ------------------------------
(***************************************************************************)
(* Theorems about the REST requests, however many they are and whatever    *)
(* they ask for: an email has one account, whoever was told that the       *)
(* registration succeeded logs in with its password, the photo that a      *)
(* user's row names is in the bucket and changes with the row, what was    *)
(* found is what was asked for and is not created again, and photos and    *)
(* names that are written at once are not lost, nor answered as they were. *)
(***************************************************************************)
EXTENDS RestProperties, FiniteSetTheorems, TLAPS

(***************************************************************************)
(* The invariant                                                           *)
(***************************************************************************)

\* Who is where: the steps after the first are taken by requests of one kind.
Stages ==
    \A r \in Req :
        /\ pc[r] \in {"named", "stored"} => Asked[r].kind = "photo"
        /\ pc[r] = "updated" => Asked[r].kind = "names"
        /\ pc[r] = "stamped" => Asked[r].kind = "message"
        /\ pc[r] \in {"found", "paged"} => Asked[r].kind = "list"
        /\ pc[r] = "numbered" => Asked[r].kind = "account" /\ tx[r].id \in Nat \ {0}

Shapes ==
    /\ DOMAIN pc = Req /\ DOMAIN tx = Req /\ DOMAIN res = Req /\ DOMAIN seen = Req
    /\ second \in Nat
    /\ token \in [Req -> [id : Nat, name : Name \cup {Nil}, until : Nat]]
    /\ ctx \in [Req -> [user : Nat, at : Nat, name : Name \cup {Nil}, before : SUBSET Req]]

\* The accounts have an email each, and a password that opens them, unless they
\* are deleted.
EmailOf(a) == rows["account"][a].email
OpenTo(a) == IF rows["account"][a].deleted THEN {} ELSE {rows["account"][a].password}
NameOf(a) == rows["account"][a].name

Rows ==
    /\ DOMAIN rows = Table /\ DOMAIN ids = Table
    /\ rows["account"] \in [Ids("account") -> UserRow]
    /\ ids["account"] \in Nat /\ Ids("account") \subseteq Nat \ {0}
    /\ \A a, b \in Ids("account") : EmailOf(a) = EmailOf(b) => a = b

\* A registration whose transaction is open will commit a row with an id of its
\* own, for an email that no account and no other open transaction has.
Pending(r) == Asked[r].kind = "account" /\ pc[r] = "inserted"

OpenRegistrations ==
    \A r \in Req : Pending(r) =>
        /\ tx[r].id \in Nat \ {0} /\ tx[r].id \notin Ids("account")
        /\ \A a \in Ids("account") : EmailOf(a) # Asked[r].email
        /\ \A s \in Req : Pending(s) /\ s # r =>
              tx[s].id # tx[r].id /\ Asked[s].email # Asked[r].email

\* A registration that was told it succeeded made the account of its email.
Told(r) == Asked[r].kind = "account" /\ res[r] # 0

Registered ==
    \A r \in Req : Told(r) =>
        /\ res[r] \in Ids("account")
        /\ EmailOf(res[r]) = Asked[r].email
        /\ OpenTo(res[r]) = IF Asked[r].deleted THEN {} ELSE {Asked[r].password}
        /\ \A s \in Req : Told(s) /\ Asked[s].email = Asked[r].email => s = r

\* A login looks among the accounts that are there, and has no token before.
LoggedIn ==
    /\ \A l \in Req : Asked[l].kind = "login" =>
        /\ seen[l] \subseteq Ids("account")
        /\ pc[l] = "new" => token[l].id = 0
    /\ WhoRegisteredLogsIn

\* Tokens and admitted requests are of accounts that are there.
Holders ==
    \A r \in Req :
        /\ token[r].id \in Ids("account") \cup {0}
        /\ ctx[r].user \in Ids("account") \cup {0}
        /\ pc[r] \in {"named", "stored", "updated"} => ctx[r].user # 0

\* An object was uploaded by the user that its key names, and stays.
Uploaded ==
    /\ \A k \in DOMAIN objects :
        /\ k \in Key
        /\ objects[k] \in Req /\ pc[objects[k]] # "new"
        /\ ctx[objects[k]].user = k.user
    /\ \A r \in Req : pc[r] = "stored" => PhotoKey(r) \in DOMAIN objects

Shown ==
    \A a \in Ids("account") :
        PhotoOf(a) # Nil => \/ Brought(a)
                            \/ PhotoOf(a) \in DOMAIN objects /\ PhotoOf(a).user = a

Inv ==
    /\ Stages /\ Shapes /\ Rows
    /\ OpenRegistrations /\ Registered
    /\ LoggedIn /\ Holders
    /\ Uploaded /\ Shown

(***************************************************************************)
(* Steps that leave the accounts alone                                     *)
(***************************************************************************)

\* Only the history and the answer of r change.
Others(r) ==
    /\ DOMAIN pc' = Req /\ DOMAIN tx' = Req /\ DOMAIN res' = Req /\ DOMAIN seen' = Req
    /\ \A s \in Req \ {r} :
        pc'[s] = pc[s] /\ tx'[s] = tx[s] /\ res'[s] = res[s] /\ seen'[s] = seen[s]

\* r opens no registration, registers nobody, and is not under way as a photo
\* or names request.
Harmless(r) ==
    /\ Others(r)
    /\ \/ pc'[r] \in {"missing", "inserted", "done"}
       \/ pc'[r] = "stamped" /\ Asked[r].kind = "message"
       \/ pc'[r] \in {"found", "paged"} /\ Asked[r].kind = "list"
       \/ pc'[r] = "numbered" /\ Asked[r].kind = "account" /\ tx'[r].id \in Nat \ {0}
    /\ Asked[r].kind = "account" => pc'[r] # "inserted" /\ res'[r] \in {0, res[r]}
    /\ Asked[r].kind = "login" => seen'[r] = seen[r]
    /\ DOMAIN rows' = Table /\ DOMAIN ids' = Table
    /\ rows'["account"] = rows["account"]
    /\ ids'["account"] \in {ids["account"], ids["account"] + 1}
    /\ UNCHANGED accountVars

LEMMA HarmlessInv == ASSUME Inv, NEW r \in Req, Harmless(r) PROVE Inv'
<1> USE DEF Inv
<1>1. Others(r) /\ UNCHANGED <<objects, second, token, ctx>>
  BY DEF Harmless, accountVars
<1>2. /\ Ids("account")' = Ids("account")
      /\ \A a \in Ids("account") : EmailOf(a)' = EmailOf(a) /\ OpenTo(a)' = OpenTo(a)
                                   /\ PhotoOf(a)' = PhotoOf(a)
  BY DEF Harmless, Ids, EmailOf, OpenTo, PhotoOf
<1>3. Stages'
  BY <1>1 DEF Harmless, Others, Stages
<1>4. Shapes'
  BY <1>1 DEF Others, Shapes
<1>5. Rows'
  BY <1>2 DEF Harmless, Rows
<1>6. OpenRegistrations'
  <2>1. ASSUME NEW s \in Req, Pending(s)' PROVE s # r /\ Pending(s) /\ tx'[s] = tx[s]
    BY <1>1, <2>1 DEF Pending, Harmless, Others
  <2> QED
    BY <1>2, <2>1 DEF OpenRegistrations, Harmless
<1>7. Registered'
  <2>1. ASSUME NEW s \in Req, Told(s)' PROVE Told(s) /\ res'[s] = res[s]
    BY <1>1, <2>1 DEF Told, Harmless, Others
  <2> QED
    BY <1>2, <2>1 DEF Registered
<1>8. LoggedIn'
  <2>1. ASSUME NEW l \in Req, Asked[l].kind = "login"
        PROVE  seen'[l] = seen[l] /\ (pc'[l] = "new" => pc[l] = "new")
    BY <1>1, <2>1 DEF Harmless, Others
  <2>2. ASSUME NEW g \in Req, Asked[g].kind = "account", res'[g] # 0 PROVE res'[g] = res[g]
    BY <1>1, <2>2 DEF Harmless, Others
  <2> QED
    BY <1>1, <1>2, <2>1, <2>2 DEF LoggedIn, WhoRegisteredLogsIn, Asking
<1>9. Uploaded'
  <2>1. ASSUME NEW s \in Req
        PROVE  /\ pc'[s] = "new" => pc[s] = "new"
               /\ pc'[s] = "stored" => pc[s] = "stored"
               /\ PhotoKey(s)' = PhotoKey(s)
    BY <1>1 DEF Harmless, Others, PhotoKey
  <2> QED
    BY <1>1, <2>1 DEF Uploaded
<1>10. Shown'
  BY <1>1, <1>2 DEF Shown, Brought, EmailOf
<1>11. Holders'
  BY <1>1, <1>2 DEF Harmless, Others, Holders
<1> QED
  BY <1>3, <1>4, <1>5, <1>6, <1>7, <1>8, <1>9, <1>10, <1>11

LEMMA InitInv == RestInit => Inv
<1> SUFFICES ASSUME RestInit PROVE Inv
  OBVIOUS
<1>1. PICK load \in Loads :
        /\ rows = [t \in Table |-> CASE t = "conversation" ->
                                            [c \in DOMAIN load.conversations |->
                                                [users |-> load.conversations[c], at |-> c]]
                                     [] t = "account" -> load.accounts
                                     [] OTHER -> <<>>]
        /\ ids = [t \in Table |-> CASE t = "conversation" -> Len(load.conversations)
                                    [] t = "account" -> Len(load.accounts)
                                    [] OTHER -> 0]
        /\ pc = [r \in Req |-> IF r \in load.reqs THEN "new" ELSE "done"]
  BY DEF RestInit, Init
<1>2. /\ load.accounts \in Seq(UserRow)
      /\ \A a, b \in DOMAIN load.accounts : load.accounts[a].email = load.accounts[b].email => a = b
      /\ \A a \in DOMAIN load.accounts : load.accounts[a].photo = Nil
  BY LoadsAssumption, PhotosAssumption
<1>3. /\ tx = [r \in Req |-> [id |-> 0, at |-> 0]]
      /\ res = [r \in Req |-> 0] /\ seen = [r \in Req |-> {}]
      /\ objects = <<>> /\ second = 0
      /\ token = [r \in Req |-> [id |-> 0, name |-> Nil, until |-> 0]]
      /\ ctx = [r \in Req |-> [user |-> 0, at |-> 0, name |-> Nil, before |-> {}]]
  BY DEF RestInit, Init, AccountsInit
<1>4. /\ DOMAIN rows = Table /\ DOMAIN ids = Table
      /\ rows["account"] = load.accounts /\ ids["account"] = Len(load.accounts)
  BY <1>1 DEF Table
<1>a. DOMAIN load.accounts \subseteq Nat \ {0} /\ Len(load.accounts) \in Nat
      /\ load.accounts \in [DOMAIN load.accounts -> UserRow]
  BY <1>2
<1>5. Stages /\ Shapes
  BY <1>1, <1>3 DEF Stages, Shapes
<1>6. Rows
  BY <1>2, <1>4, <1>a DEF Rows, Ids, EmailOf
<1>7. OpenRegistrations
  BY <1>1 DEF OpenRegistrations, Pending
<1>8. Registered
  BY <1>3 DEF Registered, Told
<1>9. LoggedIn
  BY <1>3 DEF LoggedIn, WhoRegisteredLogsIn, Asking
<1>10. Uploaded
  BY <1>1, <1>3 DEF Uploaded
<1>11. Shown
  BY <1>2, <1>4 DEF Shown, Ids, PhotoOf
<1>12. Holders
  BY <1>1, <1>3 DEF Holders
<1> QED
  BY <1>5, <1>6, <1>7, <1>8, <1>9, <1>10, <1>11, <1>12 DEF Inv

\* The lookups and the refusals.
LEMMA Harmless1 ==
    ASSUME Inv, NEW r \in Req, UNCHANGED accountVars,
           LookForConversation(r) \/ LookForWhiteboard(r) \/ LookForUser(r) \/ Rollback(r)
    PROVE  Harmless(r)
<1>1. DOMAIN rows = Table /\ DOMAIN ids = Table /\ ids["account"] \in Nat
  BY DEF Inv, Rows
<1>2. DOMAIN pc = Req /\ DOMAIN tx = Req /\ DOMAIN res = Req /\ DOMAIN seen = Req
  BY DEF Inv, Shapes
<1>3. CASE LookForConversation(r) \/ LookForWhiteboard(r) \/ LookForUser(r)
  <2>1. /\ Asked[r].kind \in {"conversation", "whiteboard", "account"}
        /\ seen' = [seen EXCEPT ![r] = seen'[r]] /\ UNCHANGED <<rows, ids, tx>>
    BY <1>2, <1>3 DEF LookForConversation, LookForWhiteboard, LookForUser, Look, database
  <2>2. \/ FoundNothing(r)
        \/ \E id : Answer(r, id) /\ (Asked[r].kind = "account" => id = 0)
    BY <1>3, <2>1 DEF LookForConversation, LookForWhiteboard, LookForUser, Look
  <2>3. CASE FoundNothing(r)
    BY <1>1, <1>2, <2>1, <2>3 DEF FoundNothing, Harmless, Others
  <2>4. CASE \E id : Answer(r, id) /\ (Asked[r].kind = "account" => id = 0)
    BY <1>1, <1>2, <2>1, <2>4 DEF Answer, Harmless, Others
  <2> QED BY <2>2, <2>3, <2>4
<1>4. CASE Rollback(r)
  BY <1>1, <1>2, <1>4 DEF Rollback, Answer, Harmless, Others, database
<1> QED
  BY <1>3, <1>4

\* The creation of a conversation or a whiteboard.
LEMMA Harmless2 ==
    ASSUME Inv, NEW r \in Req, UNCHANGED accountVars,
           CreateConversation(r) \/ CreateNewWhiteboard(r)
    PROVE  Harmless(r)
<1>1. DOMAIN rows = Table /\ DOMAIN ids = Table /\ ids["account"] \in Nat
  BY DEF Inv, Rows
<1>2. DOMAIN pc = Req /\ DOMAIN tx = Req /\ DOMAIN res = Req /\ DOMAIN seen = Req
  BY DEF Inv, Shapes
<1>3. PICK t \in {"conversation", "whiteboard"} : Insert(r, t) \/ \E row : Commit(r, t, row)
  BY DEF CreateConversation, CreateNewWhiteboard
<1>4. CASE Insert(r, t)
  BY <1>1, <1>2, <1>4 DEF Insert, TakeId, Harmless, Others
<1>5. CASE \E row : Commit(r, t, row)
  BY <1>1, <1>2, <1>5 DEF Commit, Answer, Harmless, Others
<1> QED
  BY <1>3, <1>4, <1>5

\* The messages and the lists.
LEMMA Harmless3 ==
    ASSUME Inv, NEW r \in Req, UNCHANGED accountVars, ListRequest(r)
    PROVE  Harmless(r)
<1>1. DOMAIN rows = Table /\ DOMAIN ids = Table /\ ids["account"] \in Nat
  BY DEF Inv, Rows
<1>2. DOMAIN pc = Req /\ DOMAIN tx = Req /\ DOMAIN res = Req /\ DOMAIN seen = Req
  BY DEF Inv, Shapes
<1>3. CASE InsertMessage(r)
  <2>1. \/ Insert(r, "message")
        \/ Answer(r, 0) /\ TakeId("message") /\ UNCHANGED <<rows, tx, seen>>
    BY <1>3 DEF InsertMessage
  <2>2. Asked[r].kind = "message"
    BY <1>3 DEF InsertMessage
  <2>3. CASE Insert(r, "message")
    BY <1>1, <1>2, <2>2, <2>3 DEF Insert, TakeId, Harmless, Others
  <2>4. CASE Answer(r, 0) /\ TakeId("message") /\ UNCHANGED <<rows, tx, seen>>
    BY <1>1, <1>2, <2>2, <2>4 DEF Answer, TakeId, Harmless, Others
  <2> QED BY <2>1, <2>3, <2>4
<1>4. CASE ReadTime(r)
  BY <1>1, <1>2, <1>4 DEF ReadTime, Harmless, Others
<1>5. CASE SaveMessage(r)
  <2>1. Asked[r].kind = "message" /\ UNCHANGED <<ids, tx, seen>>
    BY <1>5 DEF SaveMessage, Inv, Stages
  <2>2. DOMAIN rows' = DOMAIN rows /\ rows'["account"] = rows["account"]
    BY <1>1, <1>5 DEF SaveMessage, MessageAndConversation, Table
  <2>3. PICK id : Answer(r, id)
    BY <1>5 DEF SaveMessage
  <2> QED
    BY <1>1, <1>2, <2>1, <2>2, <2>3 DEF Answer, Harmless, Others
<1>6. CASE Find(r) \/ Count(r)
  <2>1. /\ Asked[r].kind = "list" /\ UNCHANGED <<rows, ids, tx, seen>>
        /\ \/ \E at \in {"found", "paged", "done"} : pc' = [pc EXCEPT ![r] = at] /\ UNCHANGED res
           \/ Answer(r, 0)
    BY <1>6 DEF Find, Count, Unread, database, Inv, Stages
  <2> QED
    BY <1>1, <1>2, <2>1 DEF Answer, Harmless, Others
<1> QED
  BY <1>3, <1>4, <1>5, <1>6 DEF ListRequest

(***************************************************************************)
(* Registrations                                                           *)
(***************************************************************************)

\* A registration that takes an id.
LEMMA Harmless4 ==
    ASSUME Inv, NEW r \in Req, UNCHANGED accountVars, TakeUserId(r)
    PROVE  Harmless(r)
<1>1. DOMAIN rows = Table /\ DOMAIN ids = Table /\ ids["account"] \in Nat
  BY DEF Inv, Rows
<1>2. DOMAIN pc = Req /\ DOMAIN tx = Req /\ DOMAIN res = Req /\ DOMAIN seen = Req
  BY DEF Inv, Shapes
<1>3. PICK id : id = IF Asked[r].id = 0 THEN ids["account"] + 1 ELSE Asked[r].id
  OBVIOUS
<1>4. /\ Asked[r].kind = "account" /\ pc' = [pc EXCEPT ![r] = "numbered"]
      /\ tx' = [tx EXCEPT ![r] = [id |-> id, at |-> 0]] /\ UNCHANGED <<rows, res, seen>>
      /\ ids' = ids \/ ids' = [ids EXCEPT !["account"] = ids["account"] + 1]
  BY <1>3 DEF TakeUserId, TakeId, NextId
<1>5. id \in Nat \ {0}
  BY <1>1, <1>3, <1>4, AskedAssumption DEF Table
<1>6. tx'[r].id = id /\ Others(r)
  BY <1>2, <1>4 DEF Others
<1> QED
  BY <1>1, <1>2, <1>4, <1>5, <1>6 DEF Harmless, Table

LEMMA CreateUserInv == ASSUME Inv, NEW r \in Req, UNCHANGED accountVars, CreateUser(r) PROVE Inv'
<1> USE DEF Inv
<1>1. DOMAIN rows = Table /\ DOMAIN ids = Table /\ ids["account"] \in Nat
  BY DEF Rows
<1>2. DOMAIN pc = Req /\ DOMAIN tx = Req /\ DOMAIN res = Req /\ DOMAIN seen = Req
  BY DEF Shapes
<1>3. /\ UNCHANGED <<objects, second, token, ctx>> /\ Asked[r].kind = "account"
      /\ pc[r] \in {"missing", "numbered", "inserted"}
  BY DEF CreateUser, TakeUserId, InsertUser, Commit, accountVars, Stages
<1>0. CASE TakeUserId(r)
  BY <1>0, Harmless4, HarmlessInv
\* The id or the email is taken.
<1>4. CASE Answer(r, 0) /\ UNCHANGED <<database, tx, seen>>
  <2>1. Harmless(r)
    BY <1>1, <1>2, <1>3, <1>4 DEF Answer, Harmless, Others, database, accountVars
  <2> QED BY <2>1, HarmlessInv
\* It is not, and nobody else is about to take it.
<1>5. CASE /\ pc[r] = "numbered" /\ pc' = [pc EXCEPT ![r] = "inserted"]
           /\ ~(EmailTaken(r) \/ IdTaken(r) \/ AccountPending(r))
           /\ UNCHANGED <<res, database, tx, seen>>
  <2>1. /\ tx[r].id \in Nat \ {0} /\ tx[r].id \notin Ids("account") /\ pc'[r] = "inserted"
        /\ Others(r) /\ UNCHANGED <<rows, ids, res, tx, seen>>
    BY <1>2, <1>5 DEF Others, Stages, IdTaken, Ids, database
  <2>2. Ids("account")' = Ids("account") /\ \A a \in Ids("account") :
           EmailOf(a)' = EmailOf(a) /\ OpenTo(a)' = OpenTo(a) /\ PhotoOf(a)' = PhotoOf(a)
    BY <2>1 DEF Ids, EmailOf, OpenTo, PhotoOf
  <2>3. Stages' /\ Shapes'
    BY <1>2, <1>3, <2>1 DEF Others, Stages, Shapes
  <2>4. Rows'
    BY <2>1, <2>2 DEF Rows
  <2>5. OpenRegistrations'
    <3>1. ASSUME NEW s \in Req, s # r
          PROVE  (Pending(s)' <=> Pending(s)) /\ tx'[s] = tx[s]
      <4>1. pc'[s] = pc[s] /\ tx'[s] = tx[s]
        BY <2>1, <3>1 DEF Others
      <4> QED BY <4>1, Zenon DEF Pending
    <3>2. \A a \in Ids("account") : EmailOf(a) # Asked[r].email
      BY <1>5 DEF EmailTaken, Ids, EmailOf
    <3>3. \A s \in Req : Pending(s) => Asked[s].email # Asked[r].email /\ tx[s].id # tx[r].id
      BY <1>5 DEF AccountPending, Pending, Registering
    <3>6. ASSUME NEW s \in Req, Pending(s)'
          PROVE  /\ tx'[s].id \in Nat \ {0} /\ tx'[s].id \notin Ids("account")
                 /\ \A a \in Ids("account") : EmailOf(a) # Asked[s].email
      BY <2>1, <3>1, <3>2, <3>6 DEF OpenRegistrations
    <3>7. ASSUME NEW s \in Req, Pending(s)', NEW q \in Req, Pending(q)', q # s
          PROVE  tx'[q].id # tx'[s].id /\ Asked[q].email # Asked[s].email
      BY <2>1, <3>1, <3>3, <3>7 DEF OpenRegistrations
    <3> QED
      BY <2>2, <3>6, <3>7 DEF OpenRegistrations
  <2>6. Registered'
    BY <2>1, <2>2 DEF Registered, Told
  <2>7. LoggedIn'
    BY <1>3, <2>1, <2>2 DEF LoggedIn, WhoRegisteredLogsIn, Asking, Others
  <2>8. Uploaded'
    BY <1>3, <2>1 DEF Uploaded, Others, PhotoKey
  <2>9. Shown'
    BY <1>3, <2>1 DEF Shown, Brought, PhotoOf, Ids
  <2>10. Holders'
    BY <1>3, <2>1, <2>2 DEF Holders, Others
  <2> QED BY <2>3, <2>4, <2>5, <2>6, <2>7, <2>8, <2>9, <2>10
<1>6. CASE Commit(r, "account", NewUser(r))
  <2>1. Pending(r)
    BY <1>6 DEF Commit, Pending
  <2>2. /\ DOMAIN rows' = Table /\ rows'["account"] = With(rows["account"], tx[r].id, NewUser(r))
        /\ UNCHANGED <<ids, tx, seen>> /\ Others(r) /\ pc'[r] = "done"
        /\ res'[r] \in {0, tx[r].id}
    <3>1. PICK id \in {0, tx[r].id} : Answer(r, id)
      BY <1>6 DEF Commit
    <3>2. UNCHANGED <<ids, tx, seen>>
          /\ rows' = [rows EXCEPT !["account"] = With(@, tx[r].id, NewUser(r))]
      BY <1>6 DEF Commit
    <3>3. DOMAIN rows' = Table /\ rows'["account"] = With(rows["account"], tx[r].id, NewUser(r))
      BY <1>1, <3>2 DEF Table
    <3>4. pc'[r] = "done" /\ res'[r] = id /\ Others(r)
      BY <1>2, <3>1, <3>2 DEF Answer, Others
    <3> QED BY <3>1, <3>2, <3>3, <3>4
  <2>3. NewUser(r) \in UserRow /\ NewUser(r).email = Asked[r].email
        /\ NewUser(r).password = Asked[r].password /\ NewUser(r).deleted = Asked[r].deleted
        /\ NewUser(r).photo = Asked[r].photo
    BY <1>3, AskedAssumption DEF NewUser, UserRow, Table
  <2>4. tx[r].id \in Nat \ {0} /\ tx[r].id \notin Ids("account")
    BY <2>1 DEF OpenRegistrations
  <2>5. /\ Ids("account")' = Ids("account") \cup {tx[r].id}
        /\ \A a \in Ids("account") : EmailOf(a)' = EmailOf(a) /\ OpenTo(a)' = OpenTo(a)
                                     /\ PhotoOf(a)' = PhotoOf(a)
        /\ EmailOf(tx[r].id)' = Asked[r].email /\ PhotoOf(tx[r].id)' = Asked[r].photo
        /\ OpenTo(tx[r].id)' = IF Asked[r].deleted THEN {} ELSE {Asked[r].password}
    BY <2>2, <2>3, <2>4 DEF With, Ids, EmailOf, OpenTo, PhotoOf
  <2>6. Stages' /\ Shapes'
    BY <1>2, <1>3, <2>2 DEF Others, Stages, Shapes
  <2>7. Rows'
    <3>1. rows'["account"] \in [Ids("account")' -> UserRow]
      BY <2>2, <2>3, <2>4 DEF With, Rows, Ids
    <3>2. \A a \in Ids("account") : EmailOf(a) # Asked[r].email
      BY <2>1 DEF OpenRegistrations
    <3> QED
      BY <2>2, <2>4, <2>5, <3>1, <3>2 DEF Rows
  <2>8. ASSUME NEW s \in Req, Pending(s)' PROVE s # r /\ Pending(s)
    BY <2>2, <2>8 DEF Pending, Others
  <2>9. OpenRegistrations'
    BY <2>1, <2>2, <2>4, <2>5, <2>8 DEF OpenRegistrations
  <2>10. ASSUME NEW s \in Req, Told(s)'
         PROVE  \/ s # r /\ Told(s) /\ res'[s] = res[s]
                \/ s = r /\ res'[s] = tx[r].id
    <3>1. CASE s = r
      BY <2>2, <2>10, <3>1 DEF Told
    <3>2. CASE s # r
      <4>1. res'[s] = res[s]
        BY <2>2, <3>2 DEF Others
      <4> QED BY <2>10, <3>2, <4>1, Zenon DEF Told
    <3> QED BY <3>1, <3>2
  <2>11. Registered'
    <3>1. ASSUME NEW s \in Req, s # r, Told(s) PROVE Asked[s].email # Asked[r].email
      BY <2>1, <3>1 DEF Registered, OpenRegistrations
    <3>2. ASSUME NEW s \in Req, Told(s)'
          PROVE  /\ res'[s] \in Ids("account")'
                 /\ EmailOf(res[s])' = Asked[s].email
                 /\ OpenTo(res[s])' = IF Asked[s].deleted THEN {} ELSE {Asked[s].password}
      <4>1. \A a \in Ids("account")' : a = res'[s] =>
               EmailOf(res[s])' = EmailOf(a)' /\ OpenTo(res[s])' = OpenTo(a)'
        BY DEF EmailOf, OpenTo
      <4>2. CASE s # r /\ Told(s) /\ res'[s] = res[s]
        BY <2>5, <4>1, <4>2 DEF Registered
      <4>3. CASE s = r /\ res'[s] = tx[r].id
        <5>1. res'[s] \in Ids("account")'
          BY <2>5, <4>3
        <5>2. /\ EmailOf(res[s])' = EmailOf(tx[r].id)'
              /\ OpenTo(res[s])' = OpenTo(tx[r].id)'
          BY <2>2, <4>3 DEF EmailOf, OpenTo
        <5> QED BY <2>5, <4>3, <5>1, <5>2
      <4> QED BY <2>10, <3>2, <4>2, <4>3
    <3>3. ASSUME NEW s \in Req, Told(s)', NEW q \in Req, Told(q)', Asked[q].email = Asked[s].email
          PROVE  q = s
      BY <2>10, <3>1, <3>3 DEF Registered
    <3> QED BY <3>2, <3>3 DEF Registered
  <2>12. LoggedIn'
    <3>1. ASSUME NEW l \in Req, Asked[l].kind = "login"
          PROVE  l # r /\ seen'[l] = seen[l] /\ pc'[l] = pc[l] /\ tx[r].id \notin seen[l]
      BY <1>3, <2>2, <2>4, <3>1 DEF LoggedIn, Others
    <3> QED
      BY <1>3, <2>2, <2>5, <3>1 DEF LoggedIn, WhoRegisteredLogsIn, Asking, Others
  <2>13. Uploaded'
    BY <1>3, <2>2 DEF Uploaded, Others, PhotoKey
  <2>14. Shown'
    <3> SUFFICES ASSUME NEW a \in Ids("account")', PhotoOf(a)' # Nil
                 PROVE  Brought(a)' \/ (PhotoOf(a)' \in DOMAIN objects /\ PhotoOf(a)'.user = a)
      BY <1>3 DEF Shown
    <3>1. CASE a \in Ids("account")
      <4>1. PhotoOf(a)' = PhotoOf(a) /\ EmailOf(a)' = EmailOf(a)
        BY <2>5, <3>1
      <4> QED BY <3>1, <4>1 DEF Shown, Brought, EmailOf
    <3>2. CASE a = tx[r].id
      <4>1. r \in Registering
        BY <1>3 DEF Registering
      <4>2. rows'["account"][a].email = Asked[r].email /\ PhotoOf(a)' = Asked[r].photo
        BY <2>2, <2>5, <3>2 DEF EmailOf, PhotoOf
      <4> QED BY <4>1, <4>2 DEF Brought
    <3> QED BY <2>5, <3>1, <3>2
  <2>15. Holders'
    BY <1>3, <2>2, <2>5 DEF Holders, Others
  <2> QED BY <2>6, <2>7, <2>9, <2>11, <2>12, <2>13, <2>14, <2>15
<1> QED
  BY <1>0, <1>4, <1>5, <1>6 DEF CreateUser, InsertUser

(***************************************************************************)
(* Logins                                                                  *)
(***************************************************************************)

\* What a request about a user's own row leaves alone.
OwnRow(r) ==
    /\ Asked[r].kind \in {"login", "photo", "names"}
    /\ Others(r)
    /\ UNCHANGED ids
    /\ DOMAIN rows' = Table
    /\ Ids("account")' = Ids("account")
    /\ rows'["account"] \in [Ids("account") -> UserRow]
    /\ \A a \in Ids("account") : EmailOf(a)' = EmailOf(a) /\ OpenTo(a)' = OpenTo(a)

LEMMA OwnRowInv ==
    ASSUME Inv, NEW r \in Req, OwnRow(r)
    PROVE  /\ Rows' /\ OpenRegistrations' /\ Registered'
           /\ Asked[r].kind # "login" /\ UNCHANGED token => LoggedIn'
<1> USE DEF Inv
<1>1. ASSUME NEW s \in Req, Asked[s].kind = "account"
      PROVE  s # r /\ pc'[s] = pc[s] /\ tx'[s] = tx[s] /\ res'[s] = res[s]
  BY <1>1 DEF OwnRow, Others
<1>2. Rows'
  BY DEF OwnRow, Rows
<1>3. OpenRegistrations'
  <2>1. ASSUME NEW s \in Req, Pending(s)' PROVE Pending(s) /\ tx'[s] = tx[s]
    BY <1>1, <2>1 DEF Pending
  <2> QED
    BY <2>1 DEF OpenRegistrations, OwnRow
<1>4. Registered'
  <2>1. ASSUME NEW s \in Req, Told(s)' PROVE Told(s) /\ res'[s] = res[s]
    BY <1>1, <2>1 DEF Told
  <2> QED
    BY <2>1 DEF Registered, OwnRow
<1>5. ASSUME Asked[r].kind # "login", UNCHANGED token PROVE LoggedIn'
  <2>1. ASSUME NEW l \in Req, Asked[l].kind = "login" PROVE seen'[l] = seen[l] /\ pc'[l] = pc[l]
    BY <1>5, <2>1 DEF OwnRow, Others
  <2> QED
    BY <1>1, <1>5, <2>1 DEF LoggedIn, WhoRegisteredLogsIn, Asking, OwnRow
<1> QED
  BY <1>2, <1>3, <1>4, <1>5

\* The lookup finds the one account of the email, unless it is deleted.
LEMMA FoundOne ==
    ASSUME Rows, NEW e, NEW u \in Ids("account"), EmailOf(u) = e
    PROVE  IF OpenTo(u) = {}
           THEN CheckIfUserExists(e) = {}
           ELSE CheckIfUserExists(e) # {} /\ Min(CheckIfUserExists(e)) = u
<1>1. CASE rows["account"][u].deleted
  BY <1>1 DEF Rows, CheckIfUserExists, Ids, EmailOf, OpenTo
<1>2. CASE ~rows["account"][u].deleted
  <2>1. CheckIfUserExists(e) = {u} /\ OpenTo(u) # {}
    BY <1>2 DEF Rows, CheckIfUserExists, Ids, EmailOf, OpenTo
  <2>2. u \in Nat
    BY DEF Rows
  <2> QED
    BY <2>1, <2>2 DEF Min
<1> QED
  BY <1>1, <1>2

LEMMA LoginInv == ASSUME Inv, NEW r \in Req, Login(r) PROVE Inv'
<1> USE DEF Inv
<1> DEFINE user == Min(CheckIfUserExists(Asked[r].email))
           right == CheckIfUserExists(Asked[r].email) # {} /\ CompareHashAndPassword(r, user)
<1>1. /\ pc[r] = "new" /\ Asked[r].kind = "login"
      /\ seen' = [seen EXCEPT ![r] = Ids("account")]
      /\ UNCHANGED <<rows, ids, tx, second, objects, ctx>>
  BY DEF Login, Beside, Reject, Ids
<1>2. \/ (~right \/ r \in Faulty) /\ Answer(r, 0) /\ UNCHANGED token
      \/ right /\ Answer(r, user) /\ token' = [token EXCEPT ![r] = CreateJwtToken(user)]
  BY DEF Login, Reject
<1>3. DOMAIN pc = Req /\ DOMAIN tx = Req /\ DOMAIN res = Req /\ DOMAIN seen = Req /\ DOMAIN token = Req
  BY DEF Shapes
<1>4. Others(r) /\ pc'[r] = "done" /\ seen'[r] = Ids("account")
  BY <1>1, <1>2, <1>3 DEF Answer, Others
<1>5. /\ Ids("account")' = Ids("account")
      /\ \A a \in Ids("account") : EmailOf(a)' = EmailOf(a) /\ OpenTo(a)' = OpenTo(a)
                                   /\ PhotoOf(a)' = PhotoOf(a)
  BY <1>1 DEF Ids, EmailOf, OpenTo, PhotoOf
<1>6. OwnRow(r)
  BY <1>1, <1>4, <1>5 DEF OwnRow, Rows
<1>7. right => /\ user \in Ids("account") /\ EmailOf(user) = Asked[r].email
  <2>1. ASSUME right PROVE \E u \in Ids("account") : EmailOf(u) = Asked[r].email /\ OpenTo(u) # {}
    BY <2>1 DEF CheckIfUserExists, Ids, EmailOf, OpenTo
  <2> QED
    BY <2>1, FoundOne
<1>8. ASSUME NEW g \in Req, Told(g), Asked[g].email = Asked[r].email
      PROVE  IF Asked[g].deleted THEN ~right
             ELSE user = res[g] /\ (right <=> Asked[g].password = Asked[r].password)
  <2>1. /\ res[g] \in Ids("account") /\ EmailOf(res[g]) = Asked[r].email
        /\ OpenTo(res[g]) = IF Asked[g].deleted THEN {} ELSE {Asked[g].password}
    BY <1>8 DEF Registered
  <2>2. CASE Asked[g].deleted
    <3>1. CheckIfUserExists(Asked[r].email) = {}
      BY <2>1, <2>2, FoundOne
    <3> QED BY <2>2, <3>1
  <2>3. CASE ~Asked[g].deleted
    <3>1. CheckIfUserExists(Asked[r].email) # {} /\ user = res[g]
      BY <2>1, <2>3, FoundOne
    <3>2. rows["account"][res[g]].password = Asked[g].password
      BY <2>1, <2>3 DEF OpenTo
    <3> QED BY <2>3, <3>1, <3>2 DEF CompareHashAndPassword
  <2> QED BY <2>2, <2>3
<1> HIDE DEF user, right
<1>9. /\ \A s \in Req \ {r} : token'[s] = token[s]
      /\ \/ (~right \/ r \in Faulty) /\ token'[r].id = 0 /\ token' = token
         \/ right /\ token'[r] = CreateJwtToken(user)
  BY <1>1, <1>2, <1>3 DEF LoggedIn
<1>10. Stages'
  BY <1>4 DEF Stages, Others
<1>11. Shapes'
  <2>1. right => CreateJwtToken(user) \in [id : Nat, name : Name \cup {Nil}, until : Nat]
    <3>1. right => rows["account"][user] \in UserRow /\ user \in Nat
      BY <1>7 DEF Rows
    <3>2. second + Lifetime \in Nat
      BY LifetimeAssumption DEF Shapes
    <3> QED BY <3>1, <3>2 DEF CreateJwtToken, UserRow
  <2>2. token' \in [Req -> [id : Nat, name : Name \cup {Nil}, until : Nat]]
    BY <1>2, <2>1 DEF Shapes
  <2> QED
    BY <1>1, <1>4, <2>2 DEF Shapes, Others
<1>12. LoggedIn'
  <2>1. ASSUME NEW l \in Req, Asked[l].kind = "login"
        PROVE  seen'[l] \subseteq Ids("account") /\ (pc'[l] = "new" => token'[l].id = 0)
    BY <1>4, <1>9, <2>1 DEF LoggedIn, Others
  <2>2. ASSUME NEW g \in Req, Asked[g].kind = "account", NEW l \in Req, Asked[l].kind = "login",
               res'[g] # 0, res'[g] \in seen'[l], Asked[g].email = Asked[l].email
        PROVE  IF Asked[g].password = Asked[l].password /\ ~Asked[g].deleted
               THEN token'[l].id = res'[g] \/ l \in Faulty
               ELSE token'[l].id = 0
    <3>1. g # r /\ res'[g] = res[g] /\ Told(g)
      BY <1>1, <1>4, <2>2 DEF Others, Told
    <3>2. CASE l # r
      BY <1>4, <1>9, <2>2, <3>1, <3>2 DEF LoggedIn, WhoRegisteredLogsIn, Asking, Others
    <3>3. CASE l = r
      BY <1>8, <1>9, <2>2, <3>1, <3>3 DEF CreateJwtToken
    <3> QED BY <3>2, <3>3
  <2> QED
    BY <1>5, <2>1, <2>2 DEF LoggedIn, WhoRegisteredLogsIn, Asking
<1>13. Holders'
  BY <1>1, <1>4, <1>5, <1>7, <1>9 DEF Holders, Others, CreateJwtToken
<1>14. Uploaded' /\ Shown'
  BY <1>1, <1>4, <1>5 DEF Uploaded, Shown, Brought, EmailOf, Others, PhotoKey
<1> QED
  BY <1>6, <1>10, <1>11, <1>12, <1>13, <1>14, OwnRowInv

(***************************************************************************)
(* Photos and names                                                        *)
(***************************************************************************)

LEMMA TokensSayWho == ASSUME Inv, NEW r \in Req, VerifyToken(r), Asked[r].kind \in {"photo", "names"}
                      PROVE  /\ Asked[r].login \in Req
                             /\ token[Asked[r].login].id \in Ids("account")
                             /\ token[Asked[r].login].id \in Nat \ {0}
<1>1. Asked[r].login \in Req
  BY AccountsAskedAssumption
<1> QED
  BY <1>1 DEF Inv, Holders, Shapes, VerifyToken

\* A request that is refused or fails before it has written anything.
LEMMA RejectInv ==
    ASSUME Inv, NEW r \in Req, Asked[r].kind \in {"photo", "names"}, Reject(r), UNCHANGED seen, Beside
    PROVE  Inv'
<1>1. DOMAIN rows = Table /\ DOMAIN ids = Table /\ ids["account"] \in Nat
  BY DEF Inv, Rows
<1>2. DOMAIN pc = Req /\ DOMAIN tx = Req /\ DOMAIN res = Req /\ DOMAIN seen = Req
  BY DEF Inv, Shapes
<1>3. Harmless(r)
  BY <1>1, <1>2 DEF Reject, Beside, Answer, Harmless, Others, accountVars
<1> QED
  BY <1>3, HarmlessInv

\* A request that is admitted, or goes on, with the accounts' rows as they were
\* but for photos and names.
Goes(r, kind) ==
    /\ Asked[r].kind = kind
    /\ OwnRow(r) /\ pc'[r] # "new"
    /\ UNCHANGED <<second, token>>
    /\ ctx' \in [Req -> [user : Nat, at : Nat, name : Name \cup {Nil}, before : SUBSET Req]]
    /\ \A s \in Req \ {r} : ctx'[s] = ctx[s]
    /\ ctx'[r].user \in Ids("account")
    /\ pc[r] = "new" \/ (ctx'[r].user = ctx[r].user /\ ctx'[r].at = ctx[r].at)

LEMMA GoesInv ==
    ASSUME Inv, NEW r \in Req, NEW kind \in {"photo", "names"}, Goes(r, kind), Stages', Uploaded', Shown'
    PROVE  Inv'
<1> USE DEF Inv
<1>1. Rows' /\ OpenRegistrations' /\ Registered' /\ LoggedIn'
  BY OwnRowInv DEF Goes
<1>2. 0 \notin Ids("account")
  BY DEF Rows
<1>3. Shapes'
  BY DEF Goes, Shapes, OwnRow, Others
<1>4. Holders'
  BY <1>2 DEF Goes, Holders, OwnRow, Others
<1> QED
  BY <1>1, <1>3, <1>4

\* The photos shown stay shown if the rows keep theirs and no object goes.
LEMMA ShownKept ==
    ASSUME Inv, DOMAIN objects \subseteq DOMAIN objects',
           Ids("account")' = Ids("account"), \A a \in Ids("account") : EmailOf(a)' = EmailOf(a),
           \A a \in Ids("account") : \/ PhotoOf(a)' = PhotoOf(a)
                                     \/ PhotoOf(a)' \in DOMAIN objects' /\ PhotoOf(a)'.user = a
    PROVE  Shown'
BY DEF Inv, Shown, Brought, EmailOf

LEMMA AdmitGoes ==
    ASSUME Inv, NEW r \in Req, Asked[r].kind \in {"photo", "names"}, Admit(r)
    PROVE  /\ ctx' \in [Req -> [user : Nat, at : Nat, name : Name \cup {Nil}, before : SUBSET Req]]
           /\ \A s \in Req \ {r} : ctx'[s] = ctx[s]
           /\ ctx'[r].user \in Ids("account") /\ ctx'[r].user # 0
<1>1. token[Asked[r].login].id \in Ids("account") /\ token[Asked[r].login].id \in Nat \ {0}
  BY TokensSayWho DEF Admit
<1>2. ctx \in [Req -> [user : Nat, at : Nat, name : Name \cup {Nil}, before : SUBSET Req]] /\ second \in Nat
  BY DEF Inv, Shapes
<1>3. DOMAIN ctx = Req
  BY DEF Inv, Shapes
<1> DEFINE before == {s \in Req : pc[s] = "done" /\ Asked[s].kind = Asked[r].kind}
<1>4. ctx' = [ctx EXCEPT ![r].user = token[Asked[r].login].id, ![r].at = second, ![r].before = before]
  BY DEF Admit
<1>5. before \in SUBSET Req
  OBVIOUS
<1> HIDE DEF before
<1>6. ctx'[r] = [ctx[r] EXCEPT !.user = token[Asked[r].login].id, !.at = second, !.before = before]
  BY <1>3, <1>4
<1>7. \A s \in Req \ {r} : ctx'[s] = ctx[s]
  BY <1>3, <1>4
<1>8. ctx' = [ctx EXCEPT ![r] = ctx'[r]]
  BY <1>3, <1>4
<1>9. ctx'[r] \in [user : Nat, at : Nat, name : Name \cup {Nil}, before : SUBSET Req]
  BY <1>1, <1>2, <1>5, <1>6
<1> QED
  BY <1>1, <1>2, <1>6, <1>7, <1>8, <1>9

LEMMA UploadUserProfilePhotoInv ==
    ASSUME Inv, NEW r \in Req, UploadUserProfilePhoto(r) PROVE Inv'
<1>1. Asked[r].kind = "photo" /\ pc[r] = "new" /\ UNCHANGED seen /\ Beside
  BY DEF UploadUserProfilePhoto, Arrives
<1>2. CASE Reject(r)
  BY <1>1, <1>2, RejectInv
<1>3. CASE Admit(r) /\ pc' = [pc EXCEPT ![r] = "named"] /\ UNCHANGED <<rows, objects, token, res>>
  <2>1. Others(r) /\ pc'[r] = "named"
    BY <1>1, <1>3 DEF Inv, Shapes, Others, Beside
  <2>2. /\ Ids("account")' = Ids("account")
        /\ \A a \in Ids("account") : EmailOf(a)' = EmailOf(a) /\ OpenTo(a)' = OpenTo(a)
                                     /\ PhotoOf(a)' = PhotoOf(a)
    BY <1>3 DEF Ids, EmailOf, OpenTo, PhotoOf
  <2>3. OwnRow(r)
    BY <1>1, <1>3, <2>1, <2>2 DEF OwnRow, Inv, Rows, Beside
  <2>4. Goes(r, "photo")
    BY <1>1, <1>3, <2>1, <2>3, AdmitGoes DEF Goes, Beside
  <2>5. Stages'
    BY <1>1, <2>1 DEF Inv, Stages, Others
  <2>6. Uploaded'
    <3>1. \A k \in DOMAIN objects : objects[k] # r
      BY <1>1 DEF Inv, Uploaded
    <3>2. ASSUME NEW s \in Req, s # r PROVE PhotoKey(s)' = PhotoKey(s)
      BY <2>4, <3>2 DEF Goes, PhotoKey
    <3> QED
      BY <1>3, <2>1, <2>4, <3>1, <3>2 DEF Inv, Uploaded, Others, Goes
  <2>7. Shown'
    BY <1>3, <2>2, ShownKept
  <2> QED BY <2>4, <2>5, <2>6, <2>7, GoesInv
<1> QED
  BY <1>2, <1>3 DEF UploadUserProfilePhoto

\* A photo request that was admitted.
LEMMA PhotoUnderWay ==
    ASSUME Inv, NEW r \in Req, pc[r] \in {"named", "stored"}, UNCHANGED <<tx, token, ctx, seen>>, Beside,
           Others(r), OwnRow(r), pc'[r] \in {"stored", "done"}
    PROVE  Goes(r, "photo") /\ Stages'
<1>1. Asked[r].kind = "photo"
  BY DEF Inv, Stages
<1>2. Goes(r, "photo")
  BY <1>1 DEF Goes, Beside, Inv, Shapes, Holders
<1>3. Stages'
  BY <1>1 DEF Inv, Stages, Others
<1> QED
  BY <1>2, <1>3

LEMMA UploadFileInv == ASSUME Inv, NEW r \in Req, UploadFile(r) PROVE Inv'
<1>1. /\ pc[r] = "named" /\ UNCHANGED <<rows, ids, tx, token, ctx, seen>> /\ Beside
      /\ objects' = objects \/ objects' = With(objects, PhotoKey(r), r)
      /\ \/ pc' = [pc EXCEPT ![r] = "stored"] /\ UNCHANGED res
            /\ objects' = With(objects, PhotoKey(r), r)
         \/ Answer(r, 0)
  BY DEF UploadFile, Upload, Beside
<1>2. Others(r) /\ pc'[r] \in {"stored", "done"}
  BY <1>1 DEF Inv, Shapes, Others, Answer
<1>3. /\ Ids("account")' = Ids("account")
      /\ \A a \in Ids("account") : EmailOf(a)' = EmailOf(a) /\ OpenTo(a)' = OpenTo(a)
                                   /\ PhotoOf(a)' = PhotoOf(a)
  BY <1>1 DEF Ids, EmailOf, OpenTo, PhotoOf
<1>4. Asked[r].kind = "photo"
  BY <1>1 DEF Inv, Stages
<1>5. OwnRow(r)
  BY <1>1, <1>2, <1>3, <1>4 DEF OwnRow, Inv, Rows
<1>6. Goes(r, "photo") /\ Stages'
  BY <1>1, <1>2, <1>5, PhotoUnderWay
<1>7. DOMAIN objects \subseteq DOMAIN objects'
  BY <1>1 DEF With
<1>8. Shown'
  BY <1>3, <1>7, ShownKept
<1>9. PhotoKey(r) \in Key /\ PhotoKey(r).user = ctx[r].user
  <2>1. Asked[r].ext \in Ext
    BY <1>4, AccountsAskedAssumption
  <2>2. ctx[r].user \in Nat /\ ctx[r].at \in Nat
    BY DEF Inv, Shapes
  <2> QED BY <2>1, <2>2 DEF PhotoKey, Key
<1>10. Uploaded'
  <2>1. ASSUME NEW k \in DOMAIN objects'
        PROVE  \/ k \in DOMAIN objects /\ objects'[k] = objects[k]
               \/ k = PhotoKey(r) /\ objects'[k] = r
    BY <1>1, <2>1 DEF With
  <2>2. ASSUME NEW s \in Req PROVE PhotoKey(s)' = PhotoKey(s) /\ (pc'[s] = "new" => pc[s] = "new")
    BY <1>1, <1>2 DEF PhotoKey, Others
  <2>3. ASSUME NEW k \in DOMAIN objects'
        PROVE  /\ k \in Key
               /\ objects'[k] \in Req /\ pc'[objects'[k]] # "new"
               /\ ctx'[objects'[k]].user = k.user
    <3>1. CASE k \in DOMAIN objects /\ objects'[k] = objects[k]
      BY <1>1, <2>2, <3>1 DEF Inv, Uploaded
    <3>2. CASE k = PhotoKey(r) /\ objects'[k] = r
      BY <1>1, <1>2, <1>9, <3>2
    <3> QED BY <2>1, <3>1, <3>2
  <2>4. ASSUME NEW s \in Req, pc'[s] = "stored" PROVE PhotoKey(s) \in DOMAIN objects'
    <3>1. CASE s = r
      <4>1. objects' = With(objects, PhotoKey(r), r)
        BY <1>1, <2>4, <3>1 DEF Answer, Inv, Shapes
      <4> QED BY <3>1, <4>1 DEF With
    <3>2. CASE s # r
      BY <1>2, <1>7, <2>4, <3>2 DEF Inv, Uploaded, Others
    <3> QED BY <3>1, <3>2
  <2> QED
    BY <2>2, <2>3, <2>4 DEF Uploaded
<1> QED
  BY <1>6, <1>8, <1>10, GoesInv

\* A write to one column of one row.
LEMMA PhotoWritten ==
    ASSUME Inv, NEW a, NEW photo \in Key,
           rows' = [rows EXCEPT !["account"][a].photo = photo]
    PROVE  /\ DOMAIN rows' = Table
           /\ Ids("account")' = Ids("account")
           /\ rows'["account"] \in [Ids("account") -> UserRow]
           /\ \A b \in Ids("account") :
                /\ EmailOf(b)' = EmailOf(b) /\ OpenTo(b)' = OpenTo(b)
                /\ PhotoOf(b)' = (IF b = a THEN photo ELSE PhotoOf(b)) /\ NameOf(b)' = NameOf(b)
<1>1. DOMAIN rows = Table /\ "account" \in Table /\ rows["account"] \in [Ids("account") -> UserRow]
  BY DEF Inv, Rows, Table
<1>2. rows'["account"] = [rows["account"] EXCEPT ![a].photo = photo] /\ DOMAIN rows' = Table
  BY <1>1
<1>3. DOMAIN rows'["account"] = Ids("account")
  BY <1>2 DEF Ids
<1>4. ASSUME NEW b \in Ids("account")
      PROVE  rows'["account"][b] = IF b = a THEN [rows["account"][b] EXCEPT !.photo = photo]
                                            ELSE rows["account"][b]
  BY <1>2, <1>4 DEF Ids
<1>5. ASSUME NEW b \in Ids("account")
      PROVE  /\ rows'["account"][b] \in UserRow
             /\ rows'["account"][b].email = rows["account"][b].email
             /\ rows'["account"][b].password = rows["account"][b].password
             /\ rows'["account"][b].deleted = rows["account"][b].deleted
             /\ rows'["account"][b].photo = IF b = a THEN photo ELSE rows["account"][b].photo
             /\ rows'["account"][b].name = rows["account"][b].name
  <2>1. rows["account"][b] \in UserRow
    BY <1>1
  <2>2. CASE b # a
    BY <1>4, <2>1, <2>2
  <2>3. CASE b = a
    <3>1. rows'["account"][b] = [rows["account"][b] EXCEPT !.photo = photo]
      BY <1>4, <2>3
    <3> QED BY <2>1, <2>3, <3>1 DEF UserRow
  <2> QED BY <2>2, <2>3
<1>6. rows'["account"] \in [Ids("account") -> UserRow]
  <2>1. rows'["account"] = [b \in Ids("account") |-> rows'["account"][b]]
    BY <1>2 DEF Ids
  <2> QED BY <1>5, <2>1
<1> QED
  BY <1>2, <1>3, <1>5, <1>6 DEF Ids, EmailOf, OpenTo, PhotoOf, NameOf

LEMMA NameWritten ==
    ASSUME Inv, NEW a, NEW name \in Name,
           rows' = [rows EXCEPT !["account"][a].name = name]
    PROVE  /\ DOMAIN rows' = Table
           /\ Ids("account")' = Ids("account")
           /\ rows'["account"] \in [Ids("account") -> UserRow]
           /\ \A b \in Ids("account") :
                /\ EmailOf(b)' = EmailOf(b) /\ OpenTo(b)' = OpenTo(b)
                /\ PhotoOf(b)' = PhotoOf(b) /\ NameOf(b)' = IF b = a THEN name ELSE NameOf(b)
<1>1. DOMAIN rows = Table /\ "account" \in Table /\ rows["account"] \in [Ids("account") -> UserRow]
  BY DEF Inv, Rows, Table
<1>2. rows'["account"] = [rows["account"] EXCEPT ![a].name = name] /\ DOMAIN rows' = Table
  BY <1>1
<1>3. DOMAIN rows'["account"] = Ids("account")
  BY <1>2 DEF Ids
<1>4. ASSUME NEW b \in Ids("account")
      PROVE  rows'["account"][b] = IF b = a THEN [rows["account"][b] EXCEPT !.name = name]
                                            ELSE rows["account"][b]
  BY <1>2, <1>4 DEF Ids
<1>5. ASSUME NEW b \in Ids("account")
      PROVE  /\ rows'["account"][b] \in UserRow
             /\ rows'["account"][b].email = rows["account"][b].email
             /\ rows'["account"][b].password = rows["account"][b].password
             /\ rows'["account"][b].deleted = rows["account"][b].deleted
             /\ rows'["account"][b].photo = rows["account"][b].photo
             /\ rows'["account"][b].name = IF b = a THEN name ELSE rows["account"][b].name
  <2>1. rows["account"][b] \in UserRow
    BY <1>1
  <2>2. CASE b # a
    BY <1>4, <2>1, <2>2
  <2>3. CASE b = a
    <3>1. rows'["account"][b] = [rows["account"][b] EXCEPT !.name = name]
      BY <1>4, <2>3
    <3> QED BY <2>1, <2>3, <3>1 DEF UserRow
  <2> QED BY <2>2, <2>3
<1>6. rows'["account"] \in [Ids("account") -> UserRow]
  <2>1. rows'["account"] = [b \in Ids("account") |-> rows'["account"][b]]
    BY <1>2 DEF Ids
  <2> QED BY <1>5, <2>1
<1> QED
  BY <1>2, <1>3, <1>5, <1>6 DEF Ids, EmailOf, OpenTo, PhotoOf, NameOf

LEMMA UpdateUserProfilePhotoInv ==
    ASSUME Inv, NEW r \in Req, UpdateUserProfilePhoto(r) PROVE Inv'
<1> DEFINE user == ctx[r].user
<1>1. /\ pc[r] = "stored" /\ UNCHANGED <<ids, tx, token, ctx, seen, objects>> /\ Beside
      /\ \/ rows' = [rows EXCEPT !["account"][user].photo = PhotoKey(r)]
         \/ UNCHANGED rows
      /\ Answer(r, user) \/ Answer(r, 0)
  BY DEF UpdateUserProfilePhoto, Beside
<1> HIDE DEF user
<1>2. Others(r) /\ pc'[r] = "done"
  BY <1>1 DEF Inv, Shapes, Others, Answer
<1>3. Asked[r].kind = "photo"
  BY <1>1 DEF Inv, Stages
<1>4. PhotoKey(r) \in DOMAIN objects /\ PhotoKey(r) \in Key
  BY <1>1 DEF Inv, Uploaded
<1>5. PhotoKey(r).user = user
  BY DEF PhotoKey, user
<1>6. /\ DOMAIN rows' = Table
      /\ Ids("account")' = Ids("account")
      /\ rows'["account"] \in [Ids("account") -> UserRow]
      /\ \A b \in Ids("account") :
           /\ EmailOf(b)' = EmailOf(b) /\ OpenTo(b)' = OpenTo(b)
           /\ PhotoOf(b)' = PhotoOf(b) \/ (b = user /\ PhotoOf(b)' = PhotoKey(r))
  <2>1. CASE UNCHANGED rows
    BY <2>1 DEF Inv, Rows, Ids, EmailOf, OpenTo, PhotoOf
  <2>2. CASE rows' = [rows EXCEPT !["account"][user].photo = PhotoKey(r)]
    <3>1. \A photo \in Key : photo = PhotoKey(r) =>
            /\ DOMAIN rows' = Table
            /\ Ids("account")' = Ids("account")
            /\ rows'["account"] \in [Ids("account") -> UserRow]
            /\ \A b \in Ids("account") :
                 /\ EmailOf(b)' = EmailOf(b) /\ OpenTo(b)' = OpenTo(b)
                 /\ PhotoOf(b)' = IF b = user THEN photo ELSE PhotoOf(b)
      BY <2>2, PhotoWritten
    <3> QED BY <1>4, <3>1
  <2> QED BY <1>1, <2>1, <2>2
<1>7. OwnRow(r)
  BY <1>1, <1>2, <1>3, <1>6 DEF OwnRow
<1>8. Goes(r, "photo") /\ Stages'
  BY <1>1, <1>2, <1>7, PhotoUnderWay
<1>9. Shown'
  BY <1>1, <1>4, <1>5, <1>6, ShownKept
<1>10. Uploaded'
  BY <1>1, <1>2 DEF Inv, Uploaded, Others, PhotoKey
<1> QED
  BY <1>8, <1>9, <1>10, GoesInv

LEMMA UpdateUserInv == ASSUME Inv, NEW r \in Req, UpdateUser(r) PROVE Inv'
<1> DEFINE user == token[Asked[r].login].id
<1>1. Asked[r].kind = "names" /\ pc[r] = "new" /\ UNCHANGED <<seen, objects, token>> /\ Beside
  BY DEF UpdateUser, Arrives
<1>2. CASE Reject(r)
  BY <1>1, <1>2, RejectInv
<1>3. CASE /\ Admit(r)
           /\ \/ rows' = [rows EXCEPT !["account"][user].name = Asked[r].name]
              \/ UNCHANGED rows
           /\ \/ pc' = [pc EXCEPT ![r] = "updated"] /\ UNCHANGED res
              \/ Answer(r, 0)
  <2> HIDE DEF user
  <2>1. Others(r) /\ pc'[r] \in {"updated", "done"}
    BY <1>1, <1>3 DEF Inv, Shapes, Others, Beside, Answer
  <2>2. Asked[r].name \in Name
    BY <1>1, AccountsAskedAssumption
  <2>3. /\ DOMAIN rows' = Table
        /\ Ids("account")' = Ids("account")
        /\ rows'["account"] \in [Ids("account") -> UserRow]
        /\ \A b \in Ids("account") : EmailOf(b)' = EmailOf(b) /\ OpenTo(b)' = OpenTo(b)
                                     /\ PhotoOf(b)' = PhotoOf(b)
    <3>1. CASE UNCHANGED rows
      BY <3>1 DEF Inv, Rows, Ids, EmailOf, OpenTo, PhotoOf
    <3>2. CASE rows' = [rows EXCEPT !["account"][user].name = Asked[r].name]
      BY <2>2, <3>2, NameWritten
    <3> QED BY <1>3, <3>1, <3>2
  <2>4. OwnRow(r)
    BY <1>1, <2>1, <2>3 DEF OwnRow, Beside
  <2>5. Goes(r, "names")
    BY <1>1, <1>3, <2>1, <2>4, AdmitGoes DEF Goes, Beside
  <2>6. Stages'
    BY <1>1, <2>1 DEF Inv, Stages, Others
  <2>7. Uploaded'
    <3>1. \A k \in DOMAIN objects : objects[k] # r
      BY <1>1 DEF Inv, Uploaded
    <3>2. ASSUME NEW s \in Req, s # r PROVE PhotoKey(s)' = PhotoKey(s)
      BY <2>5, <3>2 DEF Goes, PhotoKey
    <3> QED
      BY <1>1, <2>1, <2>5, <3>1, <3>2 DEF Inv, Uploaded, Others, Goes
  <2>8. Shown'
    BY <1>1, <2>3, ShownKept
  <2> QED BY <2>5, <2>6, <2>7, <2>8, GoesInv
<1> QED
  BY <1>2, <1>3 DEF UpdateUser, UpdateNames, WriteName

LEMMA AnswerProfileInv == ASSUME Inv, NEW r \in Req, AnswerProfile(r) PROVE Inv'
<1>1. pc[r] = "updated" /\ Asked[r].kind = "names" /\ UNCHANGED seen /\ Beside
  BY DEF AnswerProfile, Inv, Stages
<1>2. CASE Reject(r)
  BY <1>1, <1>2, RejectInv
<1>3. CASE /\ ctx' = [ctx EXCEPT ![r].name = ReadBack(r)]
           /\ Answer(r, ctx[r].user)
           /\ UNCHANGED <<rows, objects, token>>
  <2>1. Others(r) /\ pc'[r] = "done"
    BY <1>1, <1>3 DEF Inv, Shapes, Others, Beside, Answer
  <2>2. /\ Ids("account")' = Ids("account")
        /\ \A a \in Ids("account") : EmailOf(a)' = EmailOf(a) /\ OpenTo(a)' = OpenTo(a)
                                     /\ PhotoOf(a)' = PhotoOf(a)
    BY <1>3 DEF Ids, EmailOf, OpenTo, PhotoOf
  <2>3. OwnRow(r)
    BY <1>1, <1>3, <2>1, <2>2 DEF OwnRow, Inv, Rows, Beside
  <2>4. ctx[r].user \in Ids("account")
    BY <1>1 DEF Inv, Holders
  <2>5. ReadBack(r) \in Name
    BY <2>4 DEF Inv, Rows, ReadBack, UserRow
  <2>6. /\ ctx' \in [Req -> [user : Nat, at : Nat, name : Name \cup {Nil}, before : SUBSET Req]]
        /\ \A s \in Req \ {r} : ctx'[s] = ctx[s]
        /\ ctx'[r].user = ctx[r].user /\ ctx'[r].at = ctx[r].at
    <3>1. ctx \in [Req -> [user : Nat, at : Nat, name : Name \cup {Nil}, before : SUBSET Req]]
      BY DEF Inv, Shapes
    <3>2. \A s \in Req \ {r} : ctx'[s] = ctx[s]
      BY <1>3, <3>1
    <3>3. ctx'[r] = [ctx[r] EXCEPT !.name = ReadBack(r)] /\ ctx' = [ctx EXCEPT ![r] = ctx'[r]]
      BY <1>3, <3>1
    <3> QED BY <2>5, <3>1, <3>2, <3>3
  <2>7. Goes(r, "names")
    BY <1>1, <1>3, <2>1, <2>3, <2>4, <2>6 DEF Goes, Beside
  <2>8. Stages'
    BY <1>1, <2>1 DEF Inv, Stages, Others
  <2>9. Uploaded'
    <3>1. \A s \in Req : ctx'[s].user = ctx[s].user /\ PhotoKey(s)' = PhotoKey(s)
      BY <2>6 DEF PhotoKey
    <3> QED
      BY <1>3, <2>1, <3>1 DEF Inv, Uploaded, Others
  <2>10. Shown'
    BY <1>3, <2>2, ShownKept
  <2> QED BY <2>7, <2>8, <2>9, <2>10, GoesInv
<1> QED
  BY <1>2, <1>3 DEF AnswerProfile

(***************************************************************************)
(* The theorems                                                            *)
(***************************************************************************)

\* A step that changes the wall clock at most.
LEMMA IdleInv ==
    ASSUME Inv, UNCHANGED <<vars, objects, token, ctx>>, second' \in Nat PROVE Inv'
<1>1. UNCHANGED <<rows, ids, pc, tx, res, seen, objects, token, ctx>>
  BY DEF vars
<1>2. Stages' /\ Shapes' /\ Rows' /\ OpenRegistrations'
  BY <1>1 DEF Inv, Stages, Shapes, Rows, OpenRegistrations, Pending, Ids, EmailOf, OpenTo
<1>3. Registered'
  BY <1>1 DEF Inv, Registered, Told, Ids, EmailOf, OpenTo
<1>4. LoggedIn' /\ Holders' /\ Uploaded' /\ Shown'
  BY <1>1 DEF Inv, LoggedIn, WhoRegisteredLogsIn, Asking, Holders, Uploaded, Shown, Brought, PhotoKey,
     PhotoOf, Ids
<1> QED
  BY <1>2, <1>3, <1>4 DEF Inv

LEMMA NextInv == Inv /\ [RestNext]_restVars => Inv'
<1> SUFFICES ASSUME Inv, [RestNext]_restVars PROVE Inv'
  OBVIOUS
<1>1. ASSUME NEW r \in Req, Request(r), UNCHANGED accountVars PROVE Inv'
  <2>1. CASE LookForConversation(r) \/ LookForWhiteboard(r) \/ LookForUser(r) \/ Rollback(r)
    BY <1>1, <2>1, Harmless1, HarmlessInv
  <2>2. CASE CreateConversation(r) \/ CreateNewWhiteboard(r)
    BY <1>1, <2>2, Harmless2, HarmlessInv
  <2>3. CASE CreateUser(r)
    BY <1>1, <2>3, CreateUserInv
  <2> QED BY <1>1, <2>1, <2>2, <2>3 DEF Request
<1>2. ASSUME NEW r \in Req, AccountRequest(r) PROVE Inv'
  BY <1>2, LoginInv, UploadUserProfilePhotoInv, UploadFileInv, UpdateUserProfilePhotoInv,
     UpdateUserInv, AnswerProfileInv DEF AccountRequest
<1>3. ASSUME NEW r \in Req, ListRequest(r), UNCHANGED accountVars PROVE Inv'
  BY <1>3, Harmless3, HarmlessInv
<1>4. CASE Tick
  BY <1>4, IdleInv DEF Tick, Inv, Shapes
<1>5. CASE Answered /\ UNCHANGED accountVars
  BY <1>5, IdleInv DEF Answered, accountVars, Inv, Shapes
<1>6. CASE UNCHANGED restVars
  BY <1>6, IdleInv DEF restVars, accountVars, Inv, Shapes
<1> QED
  BY <1>1, <1>2, <1>3, <1>4, <1>5, <1>6 DEF RestNext

\* However many registrations race for an email, it gets one account, and one of
\* them at most is told that it succeeded.
THEOREM EmailsCorrect == RestSpec => []OneAccountPerEmail
<1>1. Inv => OneAccountPerEmail
  <2> SUFFICES ASSUME Inv PROVE OneAccountPerEmail
    OBVIOUS
  <2>1. \A a, b \in Ids("account") : rows["account"][a].email = rows["account"][b].email => a = b
    BY DEF Inv, Rows, EmailOf
  <2>2. ASSUME NEW r \in Req, NEW s \in Req, Told(r), Told(s), SameThing(r, s) PROVE r = s
    <3>1. Asked[r].email = Asked[s].email
      BY <2>2 DEF SameThing, Told
    <3> QED BY <2>2, <3>1 DEF Inv, Registered
  <2> QED
    BY <2>1, <2>2 DEF OneAccountPerEmail, Told
<1> QED
  BY <1>1, InitInv, NextInv, PTL DEF RestSpec

\* Whoever was told that the registration succeeded gets a token of that account
\* for its password, and nobody for another one; if the body of the registration
\* said that the account is deleted, nobody gets a token.
THEOREM LoginsCorrect == RestSpec => []WhoRegisteredLogsIn
<1>1. Inv => WhoRegisteredLogsIn
  BY DEF Inv, LoggedIn
<1> QED
  BY <1>1, InitInv, NextInv, PTL DEF RestSpec

\* The photo that a row names is an object of the bucket that this user uploaded,
\* or what a registration brought.
THEOREM PhotosCorrect == RestSpec => []PhotoIsStored
<1>1. Inv => PhotoIsStored
  <2> SUFFICES ASSUME Inv, NEW a \in Account, PhotoOf(a) # Nil, ~Brought(a)
               PROVE  PhotoOf(a) \in DOMAIN objects /\ PhotoOf(a).user = a
                      /\ ctx[objects[PhotoOf(a)]].user = a
    BY DEF PhotoIsStored
  <2>1. PhotoOf(a) \in DOMAIN objects /\ PhotoOf(a).user = a
    BY DEF Inv, Shown, Account, Ids
  <2> QED
    BY <2>1 DEF Inv, Uploaded
<1> QED
  BY <1>1, InitInv, NextInv, PTL DEF RestSpec

(***************************************************************************)
(* Requests that look for a row and create it                              *)
(***************************************************************************)

\* A bounded non-empty set of naturals has a largest element, which Max returns.
LEMMA MaxProperties ==
    ASSUME NEW n \in Nat, NEW S, S \subseteq 1..n, S # {}
    PROVE  Max(S) \in S
<1> DEFINE Above(x) == {y \in S : y >= x}
           Aboves == {Above(x) : x \in S}
           R == StrictSubsetOrdering(S)
<1>1. \A x \in S : IsFiniteSet(Above(x))
  <2>1. IsFiniteSet(S)
    BY FS_BoundedSetOfNaturals
  <2> QED BY <2>1, FS_Subset
<1>2. Aboves \subseteq FiniteSubsetsOf(S) /\ Aboves # {}
  BY <1>1 DEF FiniteSubsetsOf
<1>3. PICK B \in Aboves : \A C \in Aboves : <<C, B>> \notin R
  <2> HIDE DEF Aboves, R
  <2>1. IsWellFoundedOn(R, FiniteSubsetsOf(S))
    BY FS_StrictSubsetOrderingWellFounded DEF R
  <2> QED BY <1>2, <2>1, WFMin
<1>4. PICK m \in S : B = Above(m)
  OBVIOUS
<1>5. \A x \in S : m >= x
  <2> SUFFICES ASSUME NEW x \in S, ~(m >= x) PROVE FALSE
    OBVIOUS
  <2>1. /\ \A y \in S : y >= x => y >= m
        /\ m >= m /\ ~(m >= x)
    OBVIOUS
  <2>2. Above(x) \subseteq Above(m) /\ m \in Above(m) /\ m \notin Above(x)
    BY <2>1, Zenon
  <2>3. <<Above(x), Above(m)>> \in R
    BY <2>2 DEF StrictSubsetOrdering
  <2> QED BY <1>3, <1>4, <2>3
<1> QED
  BY <1>5 DEF Max

Sought == {"conversation", "whiteboard", "account"}
Sequenced == {"conversation", "whiteboard"}
MembersOf(c) == rows["conversation"][c].users

\* Row x of its table is what request r asks for.
Wanted(r, x) ==
    \/ /\ Asked[r].kind = "conversation"
       /\ {Asked[r].users[1], Asked[r].users[2]} \subseteq Range(MembersOf(x))
    \/ Asked[r].kind = "whiteboard" /\ rows["whiteboard"][x] = Asked[r].conv
    \/ Asked[r].kind = "account" /\ EmailOf(x) = Asked[r].email

\* The ids of conversations and whiteboards are those the sequences gave, and
\* conversations have members.
Sequences ==
    /\ \A t \in Sequenced : ids[t] \in Nat /\ Ids(t) \subseteq 1..ids[t]
    /\ \A c \in Ids("conversation") : "users" \in DOMAIN rows["conversation"][c]

\* Request r creates a row only if it saw none that it wants, or its lookup
\* failed; a registration that saw one is refused.
Outcome(r) ==
    LET t == Asked[r].kind
    IN  /\ pc[r] = "inserted" => /\ tx[r].id \in Nat \ {0} /\ tx[r].id \notin Ids(t)
                                 /\ t \in Sequenced => tx[r].id <= ids[t]
        /\ seen[r] \subseteq Ids(t)
        /\ pc[r] # "done" => res[r] = 0
        /\ res[r] # 0 => res[r] \in Ids(t) /\ Wanted(r, res[r])
        /\ t # "account" /\ (pc[r] \in {"missing", "inserted"} \/ res[r] \notin seen[r] \cup {0}) =>
              r \in Faulty \/ \A x \in seen[r] : ~Wanted(r, x)
        /\ t = "account" /\ res[r] # 0 =>
              res[r] \notin seen[r] /\ \A x \in seen[r] : ~Wanted(r, x)
        /\ t = "conversation" /\ res[r] \notin seen[r] \cup {0} =>
              MembersOf(res[r]) = Asked[r].users

\* Open transactions have ids of their own (those of registrations, too: see Inv).
OwnIds ==
    \A r, s \in Req :
        /\ r # s /\ Asked[r].kind = Asked[s].kind /\ Asked[r].kind \in Sequenced
        /\ pc[r] = "inserted" /\ pc[s] = "inserted"
        => tx[r].id # tx[s].id

FoundInv ==
    /\ Sequences
    /\ \A r \in Req : Asked[r].kind \in Sought => Outcome(r)
    /\ OwnIds

\* Rows stay what they are; those that come have ids of the sequence.
Kept ==
    /\ Sequences'
    /\ \A t \in Sequenced : ids[t] <= ids'[t]
    /\ \A t \in Sought : Ids(t) \subseteq Ids(t)'
    /\ \A c \in Ids("conversation") : MembersOf(c)' = MembersOf(c)
    /\ \A b \in Ids("whiteboard") : rows'["whiteboard"][b] = rows["whiteboard"][b]
    /\ \A a \in Ids("account") : EmailOf(a)' = EmailOf(a)

\* What a request wants stays what it is.
LEMMA WantedKept ==
    ASSUME Kept, NEW s \in Req, NEW x, x \in Ids(Asked[s].kind)
    PROVE  Wanted(s, x)' <=> Wanted(s, x)
BY DEF Kept, Wanted

\* Another request's step leaves the outcome of s as it was.
LEMMA OutcomeKept ==
    ASSUME Kept, Sequences, NEW s \in Req, Asked[s].kind \in Sought, Outcome(s),
           pc'[s] = pc[s], tx'[s] = tx[s], res'[s] = res[s], seen'[s] = seen[s],
           pc[s] = "inserted" => tx[s].id \notin Ids(Asked[s].kind)'
    PROVE  Outcome(s)'
<1> DEFINE t == Asked[s].kind
<1>1. /\ t \in Sequenced => ids[t] \in Nat /\ ids'[t] \in Nat /\ ids[t] <= ids'[t]
      /\ Ids(t) \subseteq Ids(t)'
  BY DEF Kept, Sequences
<1>2. \A x \in Ids(t) : Wanted(s, x)' <=> Wanted(s, x)
  BY WantedKept
<1>3. res[s] # 0 => (Wanted(s, res[s])' <=> Wanted(s, res[s]))
  BY <1>2 DEF Outcome
<1>4. res[s] # 0 => Wanted(s, res[s])'
  BY <1>3 DEF Outcome
<1>5. t = "conversation" /\ res[s] # 0 => MembersOf(res[s])' = MembersOf(res[s])
  BY DEF Kept, Outcome
<1> QED
  BY <1>1, <1>2, <1>4, <1>5 DEF Outcome

\* The ids that a commit of r adds to a table.
NewIds(r, t) == IF Asked[r].kind = t /\ pc[r] = "inserted" THEN {tx[r].id} ELSE {}

\* A step of r that keeps the rows, adds at most its own and has a lawful outcome.
LEMMA FoundStep ==
    ASSUME Inv, FoundInv, NEW r \in Req, Others(r), Kept,
           \A t \in Sought : Ids(t)' \subseteq Ids(t) \cup NewIds(r, t),
           Asked[r].kind \in Sought => Outcome(r)',
           Asked[r].kind \in Sequenced /\ pc'[r] = "inserted" => tx'[r].id > ids[Asked[r].kind]
    PROVE  FoundInv'
<1> USE DEF Sought, Sequenced
<1>1. ASSUME NEW s \in Req, s # r, Asked[s].kind \in Sought PROVE Outcome(s)'
  <2>1. pc'[s] = pc[s] /\ tx'[s] = tx[s] /\ res'[s] = res[s] /\ seen'[s] = seen[s]
    BY <1>1 DEF Others
  <2>2. ASSUME pc[s] = "inserted", pc[r] = "inserted", Asked[r].kind = Asked[s].kind
        PROVE  tx[s].id # tx[r].id
    <3>1. CASE Asked[s].kind = "account"
      BY <1>1, <2>2, <3>1 DEF Inv, OpenRegistrations, Pending
    <3>2. CASE Asked[s].kind # "account"
      BY <1>1, <2>2, <3>2 DEF FoundInv, OwnIds
    <3> QED BY <3>1, <3>2
  <2>3. ASSUME pc[s] = "inserted" PROVE tx[s].id \notin Ids(Asked[s].kind)'
    BY <1>1, <2>2, <2>3 DEF FoundInv, Outcome, NewIds
  <2> QED BY <1>1, <2>1, <2>3, OutcomeKept DEF FoundInv
<1>2. ASSUME NEW s \in Req, s # r, Asked[s].kind = Asked[r].kind, Asked[r].kind \in Sequenced,
             pc'[s] = "inserted", pc'[r] = "inserted"
      PROVE  tx'[s].id # tx'[r].id
  <2>1. tx'[s] = tx[s] /\ pc[s] = "inserted"
    BY <1>2 DEF Others
  <2>2. tx[s].id \in Nat /\ tx[s].id <= ids[Asked[r].kind] /\ ids[Asked[r].kind] \in Nat
    BY <1>2, <2>1 DEF FoundInv, Outcome, Sequences
  <2> QED BY <1>2, <2>1, <2>2
<1>3. OwnIds'
  <2> SUFFICES ASSUME NEW a \in Req, NEW b \in Req, a # b, Asked[a].kind = Asked[b].kind,
                      Asked[a].kind \in Sequenced, pc'[a] = "inserted", pc'[b] = "inserted"
               PROVE  tx'[a].id # tx'[b].id
    BY DEF OwnIds
  <2>1. CASE a = r \/ b = r
    BY <1>2, <2>1
  <2>2. CASE a # r /\ b # r
    BY <2>2 DEF Others, FoundInv, OwnIds
  <2> QED BY <2>1, <2>2
<1> QED
  BY <1>1, <1>3 DEF FoundInv, Kept

\* The rows stay.
LEMMA SameRows ==
    ASSUME Sequences, \A t \in Sought : rows'[t] = rows[t], \A t \in Sequenced : ids'[t] = ids[t]
    PROVE  Kept /\ \A t \in Sought : Ids(t)' = Ids(t)
BY DEF Sequences, Kept, Sought, Sequenced, Ids, MembersOf, EmailOf

\* A request that is answered with nothing.
LEMMA NothingFound ==
    ASSUME Inv, FoundInv, NEW r \in Req, Answer(r, 0), UNCHANGED <<rows, tx, seen>>,
           \A t \in Sequenced : ids'[t] = ids[t]
    PROVE  FoundInv'
<1>1. DOMAIN pc = Req /\ DOMAIN tx = Req /\ DOMAIN res = Req /\ DOMAIN seen = Req
  BY DEF Inv, Shapes
<1>2. Others(r) /\ pc'[r] = "done" /\ res'[r] = 0
  BY <1>1 DEF Answer, Others
<1>3. Kept /\ \A t \in Sought : Ids(t)' = Ids(t)
  BY SameRows DEF FoundInv
<1>4. Asked[r].kind \in Sought => Outcome(r)'
  BY <1>2, <1>3 DEF FoundInv, Outcome
<1> QED
  BY <1>2, <1>3, <1>4, FoundStep

\* A lookup answers with a row that is wanted, or finds none.
LEMMA Lookups ==
    ASSUME Inv, FoundInv, NEW r \in Req,
           LookForConversation(r) \/ LookForWhiteboard(r) \/ LookForUser(r)
    PROVE  FoundInv'
<1> DEFINE t == Asked[r].kind
<1>0. DOMAIN pc = Req /\ DOMAIN tx = Req /\ DOMAIN res = Req /\ DOMAIN seen = Req
  BY DEF Inv, Shapes
<1>1. /\ t \in Sought /\ pc[r] = "new" /\ UNCHANGED <<rows, ids, tx>>
      /\ seen' = [seen EXCEPT ![r] = Ids(t)]
  BY DEF LookForConversation, LookForWhiteboard, LookForUser, Look, database, Sought, Ids
<1>2. seen'[r] = Ids(t)
  BY <1>0, <1>1
<1>3. Kept /\ \A u \in Sought : Ids(u)' = Ids(u)
  BY <1>1, SameRows DEF FoundInv
<1>4. \A x \in Ids(t) : Wanted(r, x)' <=> Wanted(r, x)
  BY <1>3, WantedKept
<1>5. res[r] = 0
  BY <1>1 DEF FoundInv, Outcome
<1>6. \/ \E x \in Ids(t) : Wanted(r, x) /\ t # "account" /\ Answer(r, x)
      \/ Answer(r, 0)
      \/ FoundNothing(r) /\ (t = "account" \/ r \in Faulty \/ \A x \in Ids(t) : ~Wanted(r, x))
  <2>1. CASE LookForConversation(r)
    <3>1. t = "conversation"
      BY <2>1 DEF LookForConversation, Look
    <3>2. \A x \in Ids(t) : Wanted(r, x) <=>
             x \in FindConversationBetweenTwoUsers(Asked[r].users[1], Asked[r].users[2])
      BY <3>1 DEF Wanted, FindConversationBetweenTwoUsers, Ids, MembersOf
    <3>3. FindConversationBetweenTwoUsers(Asked[r].users[1], Asked[r].users[2]) \subseteq Ids(t)
      BY <3>1 DEF FindConversationBetweenTwoUsers, Ids
    <3> QED BY <2>1, <3>1, <3>2, <3>3 DEF LookForConversation
  <2>2. CASE LookForWhiteboard(r)
    <3>1. t = "whiteboard"
      BY <2>2 DEF LookForWhiteboard, Look
    <3> DEFINE boards == FindConversationWhiteboard(Asked[r].conv)
    <3>2. \A x \in Ids(t) : Wanted(r, x) <=> x \in boards
      BY <3>1 DEF Wanted, FindConversationWhiteboard, Ids
    <3>3. boards \subseteq Ids(t) /\ ids[t] \in Nat /\ Ids(t) \subseteq 1..ids[t]
      BY <1>1, <3>1 DEF FindConversationWhiteboard, Ids, FoundInv, Sequences, Sequenced
    <3>4. boards # {} => Max(boards) \in boards
      <4> HIDE DEF boards
      <4> QED BY <3>3, MaxProperties
    <3>5. \/ Answer(r, 0)
          \/ boards # {} /\ Answer(r, Max(boards))
          \/ (boards = {} \/ r \in Faulty) /\ FoundNothing(r)
      BY <2>2 DEF LookForWhiteboard
    <3> HIDE DEF boards
    <3> QED BY <3>1, <3>2, <3>3, <3>4, <3>5
  <2>3. CASE LookForUser(r)
    <3>1. t = "account"
      BY <2>3 DEF LookForUser, Look
    <3> QED BY <2>3, <3>1 DEF LookForUser
  <2> QED BY <2>1, <2>2, <2>3
<1>7. Others(r) /\ Outcome(r)' /\ pc'[r] # "inserted"
  <2>1. CASE \E x \in Ids(t) : Wanted(r, x) /\ t # "account" /\ Answer(r, x)
    <3>1. PICK x \in Ids(t) : Wanted(r, x) /\ t # "account" /\ Answer(r, x)
      BY <2>1
    <3>2. Others(r) /\ pc'[r] = "done" /\ res'[r] = x
      BY <1>0, <1>1, <3>1 DEF Answer, Others
    <3> QED
      BY <1>1, <1>2, <1>3, <1>4, <3>1, <3>2 DEF Outcome
  <2>2. CASE Answer(r, 0)
    <3>1. Others(r) /\ pc'[r] = "done" /\ res'[r] = 0
      BY <1>0, <1>1, <2>2 DEF Answer, Others
    <3> QED
      BY <1>1, <1>2, <1>3, <3>1 DEF Outcome
  <2>3. CASE FoundNothing(r) /\ (t = "account" \/ r \in Faulty \/ \A x \in Ids(t) : ~Wanted(r, x))
    <3>1. Others(r) /\ pc'[r] = "missing" /\ res'[r] = 0
      BY <1>0, <1>1, <1>5, <2>3 DEF FoundNothing, Others
    <3> QED
      BY <1>1, <1>2, <1>3, <1>4, <2>3, <3>1 DEF Outcome
  <2> QED BY <1>6, <2>1, <2>2, <2>3
<1> QED
  BY <1>1, <1>3, <1>7, FoundStep

\* An insertion takes the next id.
LEMMA Insertions ==
    ASSUME Inv, FoundInv, NEW r \in Req, NEW t \in Table \ {"account"}, Insert(r, t),
           pc[r] \in {"new", "missing"}, t \in Sought => pc[r] = "missing"
    PROVE  FoundInv'
<1>0. /\ DOMAIN pc = Req /\ DOMAIN tx = Req /\ DOMAIN res = Req /\ DOMAIN seen = Req
      /\ DOMAIN ids = Table
  BY DEF Inv, Shapes, Rows
<1>1. /\ Asked[r].kind = t /\ UNCHANGED <<rows, res, seen>>
      /\ ids' = [ids EXCEPT ![t] = ids[t] + 1]
      /\ tx' = [tx EXCEPT ![r] = [id |-> ids[t] + 1, at |-> clock']]
      /\ pc' = [pc EXCEPT ![r] = "inserted"]
  BY DEF Insert, TakeId, NextId
<1>2. /\ Others(r) /\ pc'[r] = "inserted" /\ tx'[r].id = ids[t] + 1
      /\ ids'[t] = ids[t] + 1 /\ \A u \in Table \ {t} : ids'[u] = ids[u]
  BY <1>0, <1>1 DEF Others
<1>3. \A u \in Sequenced : u \in Table /\ ids[u] \in Nat /\ Ids(u) \subseteq 1..ids[u]
  BY DEF FoundInv, Sequences, Sequenced, Table
<1>4. Kept /\ \A u \in Sought : Ids(u)' = Ids(u)
  <2>1. \A u \in Sought : Ids(u)' = Ids(u)
    BY <1>1 DEF Ids
  <2>2. \A u \in Sequenced : ids'[u] \in Nat /\ ids[u] <= ids'[u] /\ Ids(u) \subseteq 1..ids'[u]
    BY <1>2, <1>3
  <2>3. Sequences'
    BY <1>1, <2>1, <2>2 DEF Sequences, FoundInv, Ids, Sought, Sequenced
  <2> QED
    BY <1>1, <2>1, <2>2, <2>3 DEF Kept, MembersOf, EmailOf
<1>5. ASSUME t \in Sought PROVE Outcome(r)'
  <2>1. \A x \in Ids(t) : Wanted(r, x)' <=> Wanted(r, x)
    BY <1>1, <1>4, WantedKept
  <2>0. t \in Sequenced
    BY <1>5 DEF Sought, Sequenced
  <2>2. tx'[r].id \in Nat \ {0} /\ tx'[r].id \notin Ids(t) /\ tx'[r].id <= ids'[t]
    BY <1>2, <1>3, <2>0
  <2>3. /\ seen[r] \subseteq Ids(t) /\ res[r] = 0
        /\ r \in Faulty \/ \A x \in seen[r] : ~Wanted(r, x)
    BY <1>1, <1>5 DEF FoundInv, Outcome
  <2> QED
    BY <1>1, <1>2, <1>4, <1>5, <2>1, <2>2, <2>3 DEF Outcome
<1>6. t \in Sequenced => tx'[r].id > ids[t]
  BY <1>2, <1>3
<1> QED
  BY <1>1, <1>2, <1>4, <1>5, <1>6, FoundStep

\* A commit adds the row that was wanted.
LEMMA Commits ==
    ASSUME Inv, FoundInv, NEW r \in Req, NEW t \in Sought, NEW row, Commit(r, t, row),
           \/ t = "conversation" /\ row = [users |-> Asked[r].users, at |-> tx[r].at]
           \/ t = "whiteboard" /\ row = Asked[r].conv
           \/ t = "account" /\ row = NewUser(r)
    PROVE  FoundInv'
<1>0. /\ DOMAIN pc = Req /\ DOMAIN tx = Req /\ DOMAIN res = Req /\ DOMAIN seen = Req
      /\ DOMAIN rows = Table /\ \A u \in Sought : u \in Table
  BY DEF Inv, Shapes, Rows, Sought, Table
<1>a. PICK new : new = tx[r].id
  OBVIOUS
<1>1. /\ Asked[r].kind = t /\ pc[r] = "inserted" /\ UNCHANGED <<ids, tx, seen>>
      /\ rows' = [rows EXCEPT ![t] = With(rows[t], new, row)]
      /\ Answer(r, new) \/ Answer(r, 0)
  BY <1>a DEF Commit
<1>2. /\ rows'[t] = With(rows[t], new, row)
      /\ \A u \in Sought \ {t} : rows'[u] = rows[u]
  BY <1>0, <1>1
<1>3. Others(r) /\ pc'[r] = "done" /\ res'[r] \in {0, new}
  BY <1>0, <1>1 DEF Answer, Others
<1>4. /\ new \in Nat \ {0} /\ new \notin Ids(t) /\ (t \in Sequenced => new <= ids[t])
      /\ seen[r] \subseteq Ids(t) /\ new \notin seen[r]
      /\ (t # "account" /\ r \in Faulty) \/ \A x \in seen[r] : ~Wanted(r, x)
  <2>1. /\ new \in Nat \ {0} /\ new \notin Ids(t) /\ (t \in Sequenced => new <= ids[t])
        /\ seen[r] \subseteq Ids(t)
        /\ t = "account" \/ r \in Faulty \/ \A x \in seen[r] : ~Wanted(r, x)
    BY <1>1, <1>a DEF FoundInv, Outcome
  <2>2. t = "account" => \A x \in Ids(t) : ~Wanted(r, x)
    BY <1>1 DEF Inv, OpenRegistrations, Pending, Wanted
  <2> QED BY <2>1, <2>2
<1>5. /\ rows'[t][new] = row /\ Ids(t)' = Ids(t) \cup {new}
      /\ \A x \in Ids(t) : rows'[t][x] = rows[t][x]
      /\ \A u \in Sought \ {t} : Ids(u)' = Ids(u)
  BY <1>2, <1>4 DEF With, Ids
<1>6. Kept
  <2>0. \A u \in Sought : Ids(u) \subseteq Ids(u)'
    BY <1>5
  <2>1. \A u \in Sequenced : /\ ids'[u] \in Nat /\ ids[u] <= ids'[u]
                             /\ Ids(u)' \subseteq 1..ids'[u]
    BY <1>1, <1>4, <1>5 DEF FoundInv, Sequences, Sought, Sequenced
  <2>2. \A u \in Sought : \A x \in Ids(u) : rows'[u][x] = rows[u][x]
    BY <1>2, <1>5
  <2>3. \A c \in Ids("conversation")' : "users" \in DOMAIN rows'["conversation"][c]
    <3>1. ASSUME NEW c \in Ids("conversation")
          PROVE  "users" \in DOMAIN rows'["conversation"][c]
      BY <2>2, <3>1 DEF FoundInv, Sequences, Sought
    <3>2. t = "conversation" => "users" \in DOMAIN rows'["conversation"][new]
      BY <1>5
    <3> QED BY <1>5, <3>1, <3>2 DEF Sought
  <2> QED
    BY <2>0, <2>1, <2>2, <2>3 DEF Kept, Sequences, Sought, Sequenced, MembersOf, EmailOf
<1>7. \A x \in Ids(t) : Wanted(r, x)' <=> Wanted(r, x)
  BY <1>1, <1>6, WantedKept
<1>8. Wanted(r, new)' /\ (t = "conversation" => MembersOf(new)' = Asked[r].users)
  <2>1. CASE t = "conversation"
    <3>1. MembersOf(new)' = Asked[r].users
      BY <1>5, <2>1 DEF MembersOf
    <3>2. 1 \in DOMAIN Asked[r].users /\ 2 \in DOMAIN Asked[r].users
      BY <1>0, <1>1, <2>1, AskedAssumption
    <3> QED
      BY <1>1, <2>1, <3>1, <3>2 DEF Wanted, Range
  <2>2. CASE t = "whiteboard"
    BY <1>1, <1>5, <2>2 DEF Wanted
  <2>3. CASE t = "account"
    BY <1>1, <1>5, <2>3 DEF Wanted, EmailOf, NewUser
  <2> QED BY <2>1, <2>2, <2>3 DEF Sought
<1>9. Outcome(r)'
  <2>1. CASE res'[r] = 0
    BY <1>1, <1>3, <1>4, <1>5, <2>1 DEF Outcome
  <2>2. CASE res'[r] = new
    <3>1. Wanted(r, res[r])' /\ (t = "conversation" => MembersOf(res[r])' = Asked[r].users)
      BY <1>8, <2>2 DEF Wanted, MembersOf, EmailOf
    <3> QED BY <1>1, <1>3, <1>4, <1>5, <1>7, <2>2, <3>1 DEF Outcome
  <2> QED BY <1>3, <2>1, <2>2
<1>10. \A u \in Sought : Ids(u)' \subseteq Ids(u) \cup NewIds(r, u)
  BY <1>1, <1>5, <1>a DEF NewIds
<1> QED
  BY <1>1, <1>3, <1>6, <1>9, <1>10, FoundStep

\* A registration that has taken an id, or is let in.
LEMMA RegistrationGoesOn ==
    ASSUME Inv, FoundInv, NEW r \in Req, TakeUserId(r) \/ (InsertUser(r) /\ UNCHANGED res)
    PROVE  FoundInv'
<1>0. /\ DOMAIN pc = Req /\ DOMAIN tx = Req /\ DOMAIN res = Req /\ DOMAIN seen = Req
      /\ DOMAIN ids = Table
  BY DEF Inv, Shapes, Rows
<1>1. Asked[r].kind = "account" /\ UNCHANGED <<rows, res, seen>>
  BY DEF TakeUserId, InsertUser, Inv, Stages, database
<1>2. /\ ids' = ids \/ ids' = [ids EXCEPT !["account"] = NextId("account")]
      /\ \E at : pc' = [pc EXCEPT ![r] = at]
      /\ tx' = tx \/ \E row : tx' = [tx EXCEPT ![r] = row]
  BY DEF TakeUserId, TakeId, InsertUser, Answer, database
<1>3. Others(r)
  BY <1>0, <1>1, <1>2 DEF Others
<1>4. Kept /\ \A t \in Sought : Ids(t)' = Ids(t)
  <2>1. \A t \in Sequenced : ids'[t] = ids[t]
    BY <1>0, <1>2 DEF Sequenced, Table
  <2> QED BY <1>1, <2>1, SameRows DEF FoundInv
<1>5. Outcome(r)'
  <2>1. pc[r] # "done" /\ Outcome(r)
    BY <1>1 DEF TakeUserId, InsertUser, FoundInv, Sought
  <2>2. pc'[r] = "inserted" => /\ tx'[r].id \in Nat \ {0} /\ tx'[r].id \notin Ids("account")
    BY <1>0 DEF TakeUserId, InsertUser, IdTaken, Ids, Inv, Stages, Answer
  <2> QED
    BY <1>1, <1>4, <2>1, <2>2 DEF Outcome, Sequenced, Sought
<1> QED
  BY <1>1, <1>3, <1>4, <1>5, FoundStep DEF Sequenced

LEMMA RequestFound ==
    ASSUME Inv, FoundInv, NEW r \in Req, Request(r)
    PROVE  FoundInv'
<1> USE DEF Table, Sought
<1>1. CASE LookForConversation(r) \/ LookForWhiteboard(r) \/ LookForUser(r)
  BY <1>1, Lookups
<1>2. CASE CreateConversation(r)
  BY <1>2, Insertions, Commits DEF CreateConversation
<1>3. CASE CreateNewWhiteboard(r)
  BY <1>3, Insertions, Commits DEF CreateNewWhiteboard
<1>4. CASE CreateUser(r)
  <2>1. CASE TakeUserId(r) \/ (InsertUser(r) /\ UNCHANGED res)
    BY <1>4, <2>1, RegistrationGoesOn
  <2> QED
    BY <1>4, <2>1, Commits, NothingFound DEF CreateUser, InsertUser, database
<1>5. CASE Rollback(r)
  BY <1>5, NothingFound DEF Rollback, database
<1> QED
  BY <1>1, <1>2, <1>3, <1>4, <1>5 DEF Request

\* A request that looks for nothing and keeps the rows.
LEMMA AsideFound ==
    ASSUME Inv, FoundInv, NEW r \in Req, Others(r), Asked[r].kind \notin Sought, Kept,
           \A t \in Sought : Ids(t)' = Ids(t)
    PROVE  FoundInv'
BY FoundStep DEF Sought, Sequenced

\* A user's own row may change in its names and its photo.
LEMMA AccountFound ==
    ASSUME Inv, FoundInv, NEW r \in Req, AccountRequest(r)
    PROVE  FoundInv'
<1>0. /\ DOMAIN pc = Req /\ DOMAIN tx = Req /\ DOMAIN res = Req /\ DOMAIN seen = Req
      /\ DOMAIN rows = Table
  BY DEF Inv, Shapes, Rows
<1>1. Asked[r].kind \in {"login", "photo", "names"}
  BY DEF AccountRequest, Login, UploadUserProfilePhoto, UploadFile, UpdateUserProfilePhoto,
     UpdateUser, AnswerProfile, Arrives, Inv, Stages
<1>2. Others(r) /\ UNCHANGED ids
  <2>1. /\ UNCHANGED <<ids, tx>>
        /\ \E place : pc' = [pc EXCEPT ![r] = place]
        /\ res' = res \/ \E id : res' = [res EXCEPT ![r] = id]
        /\ seen' = seen \/ seen' = [seen EXCEPT ![r] = DOMAIN rows["account"]]
    BY DEF AccountRequest, Login, UploadUserProfilePhoto, UploadFile, UpdateUserProfilePhoto,
       UpdateUser, AnswerProfile, Arrives, Beside, Reject, Answer
  <2> QED BY <1>0, <2>1 DEF Others
<1>3. \/ rows' = rows
      \/ \E a, k : rows' = [rows EXCEPT !["account"][a].photo = k]
      \/ \E a, n : rows' = [rows EXCEPT !["account"][a].name = n]
  BY DEF AccountRequest, Login, UploadUserProfilePhoto, UploadFile, UpdateUserProfilePhoto,
     UpdateUser, UpdateNames, WriteName, AnswerProfile, Reject
<1>4. Kept /\ \A t \in Sought : Ids(t)' = Ids(t)
  <2>1. CASE rows' = rows
    BY <1>2, <2>1, SameRows DEF FoundInv
  <2>2. ASSUME NEW a, NEW f \in {"photo", "name"}, NEW v,
               rows'["account"] = [rows["account"] EXCEPT ![a][f] = v],
               \A t \in Table \ {"account"} : rows'[t] = rows[t]
        PROVE  Kept /\ \A t \in Sought : Ids(t)' = Ids(t)
    <3>1. \A t \in Sought : Ids(t)' = Ids(t)
      BY <2>2 DEF Ids, Sought, Table
    <3>2. \A b \in Ids("account") : EmailOf(b)' = EmailOf(b)
      <4>1. rows["account"] \in [Ids("account") -> UserRow]
        BY DEF Inv, Rows
      <4>2. ASSUME NEW b \in Ids("account") PROVE rows'["account"][b].email = rows["account"][b].email
        <5>1. CASE b = a
          BY <2>2, <4>1, <5>1 DEF UserRow
        <5>2. CASE b # a
          BY <2>2, <4>1, <5>2
        <5> QED BY <5>1, <5>2
      <4> QED BY <4>2 DEF EmailOf
    <3>3. rows'["conversation"] = rows["conversation"] /\ rows'["whiteboard"] = rows["whiteboard"]
      BY <2>2 DEF Table
    <3> QED
      BY <1>2, <3>1, <3>2, <3>3 DEF Kept, FoundInv, Sequences, Sought, Sequenced, MembersOf
  <2>3. ASSUME NEW a, NEW k, rows' = [rows EXCEPT !["account"][a].photo = k]
        PROVE  /\ rows'["account"] = [rows["account"] EXCEPT ![a]["photo"] = k]
               /\ \A t \in Table \ {"account"} : rows'[t] = rows[t]
    BY <1>0, <2>3 DEF Table
  <2>4. ASSUME NEW a, NEW n, rows' = [rows EXCEPT !["account"][a].name = n]
        PROVE  /\ rows'["account"] = [rows["account"] EXCEPT ![a]["name"] = n]
               /\ \A t \in Table \ {"account"} : rows'[t] = rows[t]
    BY <1>0, <2>4 DEF Table
  <2>5. ASSUME NEW a, NEW k, rows' = [rows EXCEPT !["account"][a].photo = k]
        PROVE  Kept /\ \A t \in Sought : Ids(t)' = Ids(t)
    <3>1. "photo" \in {"photo", "name"}
      OBVIOUS
    <3> QED BY <2>2, <2>3, <2>5, <3>1
  <2>6. ASSUME NEW a, NEW n, rows' = [rows EXCEPT !["account"][a].name = n]
        PROVE  Kept /\ \A t \in Sought : Ids(t)' = Ids(t)
    <3>1. "name" \in {"photo", "name"}
      OBVIOUS
    <3> QED BY <2>2, <2>4, <2>6, <3>1
  <2> QED BY <1>3, <2>1, <2>5, <2>6
<1> QED
  BY <1>1, <1>2, <1>4, AsideFound DEF Sought

\* A message touches its conversation's time.
LEMMA ListFound ==
    ASSUME Inv, FoundInv, NEW r \in Req, ListRequest(r)
    PROVE  FoundInv'
<1>0. /\ DOMAIN pc = Req /\ DOMAIN tx = Req /\ DOMAIN res = Req /\ DOMAIN seen = Req
      /\ DOMAIN rows = Table
  BY DEF Inv, Shapes, Rows
<1>1. CASE InsertMessage(r)
  <2>1. CASE Insert(r, "message")
    BY <1>1, <2>1, Insertions DEF InsertMessage, Table, Sought
  <2>2. CASE Answer(r, 0) /\ TakeId("message") /\ UNCHANGED <<rows, tx, seen>>
    BY <2>2, NothingFound DEF TakeId, Sequenced, Table, Inv, Rows
  <2> QED BY <1>1, <2>1, <2>2 DEF InsertMessage
<1>2. CASE ReadTime(r) \/ Find(r) \/ Count(r)
  <2>1. /\ Asked[r].kind \in {"message", "list"} /\ UNCHANGED <<rows, ids, tx, seen>>
        /\ \E place : pc' = [pc EXCEPT ![r] = place]
        /\ res' = res \/ \E id : res' = [res EXCEPT ![r] = id]
    BY <1>2 DEF ReadTime, Find, Count, Unread, database, Answer, Inv, Stages
  <2>2. Others(r)
    BY <1>0, <2>1 DEF Others
  <2>3. Kept /\ \A t \in Sought : Ids(t)' = Ids(t)
    BY <2>1, SameRows DEF FoundInv
  <2> QED
    BY <2>1, <2>2, <2>3, AsideFound DEF Sought
<1>3. CASE SaveMessage(r)
  <2>1. Asked[r].kind = "message" /\ UNCHANGED <<ids, tx, seen>>
    BY <1>3 DEF SaveMessage, Inv, Stages
  <2>2. Others(r)
    BY <1>0, <1>3, <2>1 DEF SaveMessage, Answer, Others
  <2> DEFINE k == Asked[r].conv
  <2>3. /\ rows'["conversation"] = [rows["conversation"] EXCEPT ![k].at = stamp[r]]
        /\ rows'["whiteboard"] = rows["whiteboard"] /\ rows'["account"] = rows["account"]
    BY <1>0, <1>3 DEF SaveMessage, MessageAndConversation, Table
  <2>4. \A t \in Sought : Ids(t)' = Ids(t)
    BY <2>3 DEF Sought, Ids
  <2>5. ASSUME NEW c \in Ids("conversation")
        PROVE  MembersOf(c)' = MembersOf(c) /\ "users" \in DOMAIN rows'["conversation"][c]
    <3>1. "users" \in DOMAIN rows["conversation"][c]
      BY <2>5 DEF FoundInv, Sequences
    <3>2. CASE c = k
      BY <2>3, <2>5, <3>1, <3>2 DEF Ids, MembersOf
    <3>3. CASE c # k
      BY <2>3, <2>5, <3>1, <3>3 DEF Ids, MembersOf
    <3> QED BY <3>2, <3>3
  <2>6. Kept
    BY <2>1, <2>3, <2>4, <2>5 DEF Kept, FoundInv, Sequences, Sought, Sequenced, EmailOf
  <2> QED
    BY <2>1, <2>2, <2>4, <2>6, AsideFound DEF Sought
<1> QED
  BY <1>1, <1>2, <1>3 DEF ListRequest

LEMMA NextFound == Inv /\ FoundInv /\ [RestNext]_restVars => FoundInv'
<1> SUFFICES ASSUME Inv, FoundInv, [RestNext]_restVars PROVE FoundInv'
  OBVIOUS
<1>1. CASE UNCHANGED vars
  <2>1. UNCHANGED <<rows, ids, pc, tx, res, seen>>
    BY <1>1 DEF vars
  <2>2. Sequences' /\ OwnIds'
    BY <2>1 DEF FoundInv, Sequences, OwnIds, Ids
  <2>3. ASSUME NEW r \in Req, Outcome(r) PROVE Outcome(r)'
    BY <2>1, <2>3 DEF Outcome, Wanted, Ids, MembersOf, EmailOf
  <2> QED BY <2>2, <2>3 DEF FoundInv
<1> QED
  BY <1>1, RequestFound, AccountFound, ListFound DEF RestNext, restVars, Tick, Answered

LEMMA InitFound == RestInit => FoundInv
<1> SUFFICES ASSUME RestInit PROVE FoundInv
  OBVIOUS
<1>1. PICK load \in Loads :
        /\ rows = [t \in Table |-> CASE t = "conversation" ->
                                            [c \in DOMAIN load.conversations |->
                                                [users |-> load.conversations[c], at |-> c]]
                                     [] t = "account" -> load.accounts
                                     [] OTHER -> <<>>]
        /\ ids = [t \in Table |-> CASE t = "conversation" -> Len(load.conversations)
                                    [] t = "account" -> Len(load.accounts)
                                    [] OTHER -> 0]
        /\ pc = [r \in Req |-> IF r \in load.reqs THEN "new" ELSE "done"]
  BY DEF RestInit, Init
<1>2. load.conversations \in Seq(Seq(User)) /\ load.accounts \in Seq(UserRow)
  BY LoadsAssumption
<1>3. res = [r \in Req |-> 0] /\ seen = [r \in Req |-> {}]
  BY DEF RestInit, Init
<1>4. /\ rows["conversation"] = [c \in DOMAIN load.conversations |->
                                    [users |-> load.conversations[c], at |-> c]]
      /\ rows["account"] = load.accounts /\ DOMAIN rows["whiteboard"] = {}
      /\ ids["conversation"] = Len(load.conversations) /\ ids["account"] = Len(load.accounts)
      /\ ids["whiteboard"] = 0
  BY <1>1 DEF Table
<1>5. Sequences
  BY <1>2, <1>4 DEF Sequences, Sequenced, Ids
<1>6. OwnIds
  BY <1>1 DEF OwnIds
<1>7. ASSUME NEW r \in Req PROVE Outcome(r)
  BY <1>1, <1>3 DEF Outcome
<1> QED
  BY <1>5, <1>6, <1>7 DEF FoundInv

\* A request that comes after another for the same thing creates nothing.
THEOREM SecondCorrect == RestSpec => []SecondRequestCreatesNothing
<1>1. FoundInv => SecondRequestCreatesNothing
  <2> SUFFICES ASSUME FoundInv, NEW r \in Req, res[r] # 0, NEW s \in Req,
                      res[r] \in seen[s], s \notin Faulty, SameThing(r, s)
               PROVE  /\ res[s] \in seen[s] \cup {0}
                      /\ Asked[s].kind = "account" => res[s] = 0
    BY DEF SecondRequestCreatesNothing
  <2>1. Asked[r].kind = Asked[s].kind /\ Asked[s].kind \in Sought
    BY DEF SameThing, Sought
  <2>2. Wanted(r, res[r]) /\ Outcome(s)
    BY <2>1 DEF FoundInv, Outcome
  <2>3. Wanted(s, res[r])
    BY <2>1, <2>2 DEF Wanted, SameThing
  <2> QED
    BY <2>2, <2>3 DEF Outcome
<1> QED
  BY <1>1, InitInv, NextInv, InitFound, NextFound, PTL DEF RestSpec

\* Whoever asks for a conversation is answered with one that has the first two
\* users, and with exactly the users asked for unless it was there before.
THEOREM AnswersCorrect == RestSpec => []AnswerHasTheTwo
<1>1. FoundInv => AnswerHasTheTwo
  <2> SUFFICES ASSUME FoundInv, NEW r \in Req, Asked[r].kind = "conversation", res[r] # 0
               PROVE  /\ {Asked[r].users[1], Asked[r].users[2]} \subseteq Range(MembersOf(res[r]))
                      /\ MembersOf(res[r]) = Asked[r].users \/ res[r] \in seen[r]
    BY DEF AnswerHasTheTwo, MembersOf
  <2>1. Outcome(r)
    BY DEF FoundInv, Sought
  <2> QED
    BY <2>1 DEF Outcome, Wanted
<1> QED
  BY <1>1, InitInv, NextInv, InitFound, NextFound, PTL DEF RestSpec

(***************************************************************************)
(* Photos and names, one request after another                             *)
(***************************************************************************)

IsProfile(r) == Asked[r].kind \in {"photo", "names"}

\* How far a request about a user's own row has come, and what it was answered with.
Proper(r) ==
    /\ pc[r] \in {"new", "named", "stored", "updated", "done"}
    /\ pc[r] = "new" => ctx[r].user = 0
    /\ pc[r] # "done" => res[r] = 0
    /\ res[r] \in {0, ctx[r].user}
    /\ pc[r] = "done" /\ res[r] = 0 /\ ctx[r].user # 0 => r \in Faulty

\* What was answered before a request came is answered.
Before == \A s \in Req : \A x \in ctx[s].before : pc[x] = "done"

\* An object is under the key of the upload that stored it.
ObjectsNamed ==
    \A k \in DOMAIN objects : Asked[objects[k]].kind = "photo" /\ PhotoKey(objects[k]) = k

\* Request s has written nothing yet, or failed and perhaps never will have.
NotYet(s) == pc[s] \in {"named", "stored"} \/ (pc[s] = "done" /\ res[s] = 0)

\* A column of a row holds what one of the writes wrote, and no request that came
\* after that one has written; or none has written at all.
LastWriteOf(kind, a) ==
    \/ \A s \in Writes(kind, a) : NotYet(s)
    \/ \E w \in Writes(kind, a) :
        /\ Column(kind, a) = Written(w)
        /\ \A s \in Writes(kind, a) : w \in ctx[s].before => NotYet(s)

LastWrite == \A a \in Ids("account"), kind \in {"photo", "names"} : LastWriteOf(kind, a)

ProfileInv ==
    /\ \A r \in Req : IsProfile(r) => Proper(r)
    /\ Before /\ ObjectsNamed /\ LastWrite
    /\ AnswerIsNotOlder

\* The requests of one user that write a column stay such requests.
LEMMA AnswersKept ==
    ASSUME Inv, AnswerIsNotOlder, NEW r \in Req, Others(r),
           \A s \in Req \ {r} : ctx'[s] = ctx[s],
           ctx[r].user # 0 => ctx'[r].user = ctx[r].user,
           Asked[r].kind = "names" /\ res'[r] # 0 =>
               ctx'[r].name \in {Asked[s].name : s \in Writes("names", res[r])' \ ctx'[r].before}
    PROVE  AnswerIsNotOlder'
<1> SUFFICES ASSUME NEW s \in Req, Asked[s].kind = "names", res'[s] # 0
             PROVE  ctx'[s].name \in {Asked[q].name : q \in Writes("names", res[s])' \ ctx'[s].before}
  BY DEF AnswerIsNotOlder, Asking
<1>1. CASE s = r
  BY <1>1
<1>2. CASE s # r
  <2>1. res'[s] = res[s] /\ ctx'[s] = ctx[s]
    BY <1>2 DEF Others
  <2>2. PICK q \in Writes("names", res[s]) \ ctx[s].before : ctx[s].name = Asked[q].name
    BY <2>1 DEF AnswerIsNotOlder, Asking
  <2>3. q \in Req /\ Asked[q].kind = "names" /\ ctx[q].user = res[s]
    BY <2>2 DEF Writes, Asking
  <2>4. ctx'[q].user = res'[s]
    BY <2>1, <2>3
  <2>5. q \in Writes("names", res[s])'
    BY <2>3, <2>4 DEF Writes, Asking
  <2> QED
    BY <2>1, <2>2, <2>5
<1> QED
  BY <1>1, <1>2

\* A step that writes no column leaves it as the last write made it.
LEMMA WriteKept ==
    ASSUME NEW kind \in {"photo", "names"}, NEW a, LastWriteOf(kind, a),
           NEW r \in Req, Others(r), \A s \in Req \ {r} : ctx'[s] = ctx[s],
           Column(kind, a)' = Column(kind, a),
           r \in Writes(kind, a) => r \in Writes(kind, a)' /\ Written(r)' = Written(r),
           r \in Writes(kind, a)' =>
               \/ NotYet(r)'
               \/ r \in Writes(kind, a) /\ ~NotYet(r) /\ ctx'[r].before = ctx[r].before
    PROVE  LastWriteOf(kind, a)'
<1>1. ASSUME NEW s \in Req, s # r
      PROVE  /\ s \in Writes(kind, a)' <=> s \in Writes(kind, a)
             /\ NotYet(s)' <=> NotYet(s)
             /\ Written(s)' = Written(s) /\ ctx'[s].before = ctx[s].before
  <2>1. pc'[s] = pc[s] /\ res'[s] = res[s] /\ ctx'[s] = ctx[s]
    BY <1>1 DEF Others
  <2>2. s \in Writes(kind, a)' <=> s \in Writes(kind, a)
    BY <2>1 DEF Writes, Asking
  <2>3. (NotYet(s)' <=> NotYet(s)) /\ Written(s)' = Written(s)
    BY <2>1 DEF NotYet, Written, PhotoKey
  <2> QED BY <2>1, <2>2, <2>3
<1>2. Writes(kind, a) \subseteq Req /\ Writes(kind, a)' \subseteq Req
  BY DEF Writes, Asking
<1>3. CASE \A s \in Writes(kind, a) : NotYet(s)
  <2>1. \A s \in Writes(kind, a)' : NotYet(s)'
    BY <1>1, <1>2, <1>3
  <2> QED BY <2>1 DEF LastWriteOf
<1>4. ASSUME NEW w \in Writes(kind, a), Column(kind, a) = Written(w),
             \A s \in Writes(kind, a) : w \in ctx[s].before => NotYet(s)
      PROVE  LastWriteOf(kind, a)'
  <2>1. w \in Writes(kind, a)' /\ Column(kind, a)' = Written(w)'
    BY <1>1, <1>2, <1>4
  <2>2. ASSUME NEW s \in Writes(kind, a)', w \in ctx'[s].before PROVE NotYet(s)'
    <3>1. CASE s = r
      BY <1>4, <2>2, <3>1
    <3>2. CASE s # r
      BY <1>1, <1>2, <1>4, <2>2, <3>2
    <3> QED BY <3>1, <3>2
  <2> QED BY <2>1, <2>2 DEF LastWriteOf
<1> QED
  BY <1>3, <1>4 DEF LastWriteOf

\* The request that writes is the last one: nobody came after its answer.
LEMMA WriteTaken ==
    ASSUME NEW kind \in {"photo", "names"}, NEW a, NEW r, r \in Writes(kind, a)',
           Column(kind, a)' = Written(r)', \A s \in Req : r \notin ctx'[s].before
    PROVE  LastWriteOf(kind, a)'
<1>1. \A s \in Writes(kind, a)' : s \in Req
  BY DEF Writes, Asking
<1>2. \A s \in Writes(kind, a)' : r \notin ctx'[s].before
  BY <1>1
<1> QED
  BY <1>2 DEF LastWriteOf

LEMMA BeforeKept ==
    ASSUME Before, NEW r \in Req, Others(r), pc[r] # "done", ctx[r].before \subseteq Req,
           \A s \in Req : ctx[s].before \subseteq Req,
           \A s \in Req \ {r} : ctx'[s] = ctx[s],
           \A x \in ctx'[r].before : x \in Req /\ pc[x] = "done"
    PROVE  Before' /\ \A s \in Req : r \notin ctx'[s].before
<1>1. ASSUME NEW s \in Req, NEW x \in ctx'[s].before PROVE x \in Req /\ pc[x] = "done"
  <2>1. CASE s = r
    BY <1>1, <2>1
  <2>2. CASE s # r
    BY <1>1, <2>2 DEF Before
  <2> QED BY <2>1, <2>2
<1> QED
  BY <1>1 DEF Before, Others

\* A step of r leaves the columns that r does not write as the last write made
\* them; r writes its own as the last one, or has not written it yet, or had before.
LEMMA LastWriteStep ==
    ASSUME Inv, LastWrite, NEW r \in Req, NEW kind \in {"photo", "names"}, Asked[r].kind = kind,
           Others(r), \A s \in Req \ {r} : ctx'[s] = ctx[s], Ids("account")' = Ids("account"),
           NEW u, ctx'[r].user = u, ctx[r].user \in {0, u},
           \A a \in Ids("account"), k \in {"photo", "names"} :
               k # kind \/ a # u => Column(k, a)' = Column(k, a),
           \/ Column(kind, u)' = Written(r)' /\ \A s \in Req : r \notin ctx'[s].before
           \/ /\ u \in Ids("account") => Column(kind, u)' = Column(kind, u)
              /\ ctx[r].user # 0 => Written(r)' = Written(r)
              /\ \/ NotYet(r)'
                 \/ u = 0
                 \/ ctx[r].user = u /\ ~NotYet(r) /\ ctx'[r].before = ctx[r].before
    PROVE  LastWrite'
<1>0. 0 \notin Ids("account")
  BY DEF Inv, Rows
<1> SUFFICES ASSUME NEW a \in Ids("account"), NEW k \in {"photo", "names"}
             PROVE  LastWriteOf(k, a)'
  BY DEF LastWrite
<1>1. LastWriteOf(k, a)
  BY DEF LastWrite
<1>2. /\ r \in Writes(k, a) <=> k = kind /\ ctx[r].user = a
      /\ r \in Writes(k, a)' <=> k = kind /\ u = a
  BY DEF Writes, Asking
<1>3. CASE k # kind \/ a # u
  <2>1. r \notin Writes(k, a) /\ r \notin Writes(k, a)'
    BY <1>0, <1>2, <1>3
  <2>2. Column(k, a)' = Column(k, a)
    BY <1>3
  <2> QED BY <1>1, <2>1, <2>2, WriteKept
<1>4. CASE k = kind /\ a = u
  <2>1. r \in Writes(k, a)' /\ (r \in Writes(k, a) => ctx[r].user # 0)
    BY <1>0, <1>2, <1>4
  <2>2. CASE Column(kind, u)' = Written(r)' /\ \A s \in Req : r \notin ctx'[s].before
    BY <1>4, <2>1, <2>2, WriteTaken
  <2>3. CASE /\ Column(k, a)' = Column(k, a)
             /\ ctx[r].user # 0 => Written(r)' = Written(r)
             /\ \/ NotYet(r)'
                \/ ctx[r].user = u /\ ~NotYet(r) /\ ctx'[r].before = ctx[r].before
    <3>1. r \in Writes(k, a) => Written(r)' = Written(r)
      BY <2>1, <2>3
    <3>2. NotYet(r)' \/ (r \in Writes(k, a) /\ ~NotYet(r) /\ ctx'[r].before = ctx[r].before)
      BY <1>2, <1>4, <2>3
    <3> QED BY <1>1, <2>1, <2>3, <3>1, <3>2, WriteKept
  <2> QED BY <1>0, <1>4, <2>2, <2>3
<1> QED
  BY <1>3, <1>4

\* What all steps of a request about a user's own row have in common.
LEMMA OwnStep ==
    ASSUME Inv, ProfileInv, NEW r \in Req, IsProfile(r), Others(r), pc[r] # "done",
           \A s \in Req \ {r} : ctx'[s] = ctx[s], Proper(r)',
           \/ /\ ctx'[r].user = ctx[r].user /\ ctx'[r].at = ctx[r].at
              /\ ctx'[r].before = ctx[r].before
           \/ pc[r] = "new" /\ \A x \in ctx'[r].before : x \in Req /\ pc[x] = "done"
    PROVE  /\ \A s \in Req : IsProfile(s) => Proper(s)'
           /\ Before' /\ \A s \in Req : r \notin ctx'[s].before
           /\ \A s \in Req : pc[s] # "new" => PhotoKey(s)' = PhotoKey(s)
           /\ ctx[r].user \in {0, ctx'[r].user}
<1>1. \A s \in Req : ctx[s].before \subseteq Req
  BY DEF Inv, Shapes
<1>2. ASSUME NEW s \in Req, IsProfile(s) PROVE Proper(s)'
  <2>1. CASE s # r
    BY <1>2, <2>1 DEF ProfileInv, Proper, Others
  <2> QED BY <2>1
<1>3. \A x \in ctx'[r].before : x \in Req /\ pc[x] = "done"
  BY <1>1 DEF ProfileInv, Before
<1>4. ASSUME NEW s \in Req, pc[s] # "new" PROVE PhotoKey(s)' = PhotoKey(s)
  <2>1. ctx'[s].user = ctx[s].user /\ ctx'[s].at = ctx[s].at
    BY <1>4
  <2> QED BY <2>1 DEF PhotoKey
<1>5. ctx[r].user \in {0, ctx'[r].user}
  BY DEF ProfileInv, Proper
<1> QED
  BY <1>1, <1>2, <1>3, <1>4, <1>5, BeforeKept DEF ProfileInv

LEMMA ObjectsStay ==
    ASSUME Inv, ObjectsNamed, UNCHANGED objects,
           \A s \in Req : pc[s] # "new" => PhotoKey(s)' = PhotoKey(s)
    PROVE  ObjectsNamed'
BY DEF Inv, Uploaded, ObjectsNamed

\* The columns as they were.
LEMMA SameColumns ==
    ASSUME UNCHANGED rows
    PROVE  /\ Ids("account")' = Ids("account")
           /\ \A a, k : Column(k, a)' = Column(k, a)
BY DEF Ids, Column, PhotoOf

\* A request that is refused, or fails without having written anything more.
LEMMA RejectProfile ==
    ASSUME Inv, ProfileInv, NEW r \in Req, IsProfile(r), Reject(r), UNCHANGED seen, Beside,
           pc[r] = "new" \/ (pc[r] = "updated" /\ r \in Faulty)
    PROVE  ProfileInv'
<1>1. DOMAIN pc = Req /\ DOMAIN tx = Req /\ DOMAIN res = Req /\ DOMAIN seen = Req
  BY DEF Inv, Shapes
<1>2. /\ UNCHANGED <<rows, objects, ctx>>
      /\ Others(r) /\ pc'[r] = "done" /\ res'[r] = 0
  BY <1>1 DEF Reject, Beside, Answer, Others
<1>3. Proper(r)'
  BY <1>2 DEF ProfileInv, Proper
<1>4. /\ \A s \in Req : IsProfile(s) => Proper(s)'
      /\ Before' /\ \A s \in Req : pc[s] # "new" => PhotoKey(s)' = PhotoKey(s)
  BY <1>2, <1>3, OwnStep
<1>5. ObjectsNamed'
  BY <1>2, <1>4, ObjectsStay DEF ProfileInv
<1>6. LastWrite'
  <2>1. NotYet(r)' /\ Written(r)' = Written(r)
    BY <1>2 DEF NotYet, Written, PhotoKey
  <2>2. Asked[r].kind \in {"photo", "names"} /\ ctx'[r].user = ctx[r].user
    BY <1>2 DEF IsProfile
  <2>3. /\ Ids("account")' = Ids("account")
        /\ \A a, k : Column(k, a)' = Column(k, a)
    BY <1>2, SameColumns
  <2> QED BY <1>2, <2>1, <2>2, <2>3, LastWriteStep DEF ProfileInv
<1>7. AnswerIsNotOlder'
  <2>1. \A s \in Req \ {r} : Asked[s].kind = "names" => res[s] \in {0, ctx[s].user}
    BY DEF ProfileInv, Proper, IsProfile
  <2> QED BY <1>2, <2>1, AnswersKept DEF ProfileInv
<1> QED
  BY <1>4, <1>5, <1>6, <1>7 DEF ProfileInv

\* Answers to name updates stay right in a step of a photo request.
LEMMA AnswersAside ==
    ASSUME Inv, ProfileInv, NEW r \in Req, Others(r), \A s \in Req \ {r} : ctx'[s] = ctx[s],
           ctx[r].user \in {0, ctx'[r].user}, Asked[r].kind # "names" \/ res'[r] = 0
    PROVE  AnswerIsNotOlder'
<1>1. \A s \in Req \ {r} : Asked[s].kind = "names" => res[s] \in {0, ctx[s].user}
  BY DEF ProfileInv, Proper, IsProfile
<1> QED
  BY <1>1, AnswersKept DEF ProfileInv

\* A request that is admitted belongs to its token's user, and comes after those
\* that were answered.
LEMMA AdmitsAfter ==
    ASSUME Inv, NEW r \in Req, Admit(r)
    PROVE  /\ \A x \in ctx'[r].before : x \in Req /\ pc[x] = "done"
           /\ ctx'[r].user = token[Asked[r].login].id /\ ctx'[r].at = second
<1>1. DOMAIN ctx = Req
  BY DEF Inv, Shapes
<1>2. "before" \in DOMAIN ctx[r] /\ "user" \in DOMAIN ctx[r] /\ "at" \in DOMAIN ctx[r]
  BY DEF Inv, Shapes
<1> DEFINE before == {s \in Req : pc[s] = "done" /\ Asked[s].kind = Asked[r].kind}
<1>3. ctx' = [ctx EXCEPT ![r].user = token[Asked[r].login].id, ![r].at = second, ![r].before = before]
  BY DEF Admit
<1> HIDE DEF before
<1>4. ctx'[r].before = before /\ ctx'[r].user = token[Asked[r].login].id /\ ctx'[r].at = second
  BY <1>1, <1>2, <1>3
<1> QED
  BY <1>4 DEF before

LEMMA UploadUserProfilePhotoProfile ==
    ASSUME Inv, ProfileInv, NEW r \in Req, UploadUserProfilePhoto(r) PROVE ProfileInv'
<1>1. Asked[r].kind = "photo" /\ pc[r] = "new" /\ UNCHANGED seen /\ Beside /\ IsProfile(r)
  BY DEF UploadUserProfilePhoto, Arrives, IsProfile
<1>2. CASE Reject(r)
  BY <1>1, <1>2, RejectProfile
<1>3. CASE Admit(r) /\ pc' = [pc EXCEPT ![r] = "named"] /\ UNCHANGED <<rows, objects, token, res>>
  <2>1. Others(r) /\ pc'[r] = "named" /\ res'[r] = 0
    BY <1>1, <1>3 DEF Inv, Shapes, Others, Beside, ProfileInv, Proper
  <2>2. /\ \A s \in Req \ {r} : ctx'[s] = ctx[s]
        /\ ctx'[r].user \in Ids("account") /\ ctx'[r].user # 0
    BY <1>1, <1>3, AdmitGoes
  <2>3. \A x \in ctx'[r].before : x \in Req /\ pc[x] = "done"
    BY <1>3, AdmitsAfter
  <2>4. Proper(r)'
    BY <2>1, <2>2 DEF Proper
  <2>5. /\ \A s \in Req : IsProfile(s) => Proper(s)'
        /\ Before' /\ \A s \in Req : pc[s] # "new" => PhotoKey(s)' = PhotoKey(s)
        /\ ctx[r].user \in {0, ctx'[r].user}
    BY <1>1, <2>1, <2>2, <2>3, <2>4, OwnStep
  <2>6. ObjectsNamed'
    BY <1>3, <2>5, ObjectsStay DEF ProfileInv
  <2>7. LastWrite'
    <3>1. NotYet(r)' /\ ctx[r].user = 0
      BY <1>1, <2>1 DEF NotYet, ProfileInv, Proper
    <3>2. Ids("account")' = Ids("account") /\ \A a, k : Column(k, a)' = Column(k, a)
      BY <1>3, SameColumns
    <3> QED BY <1>1, <2>1, <2>2, <3>1, <3>2, LastWriteStep DEF ProfileInv
  <2>8. AnswerIsNotOlder'
    BY <1>1, <2>1, <2>2, <2>5, AnswersAside
  <2> QED BY <2>5, <2>6, <2>7, <2>8 DEF ProfileInv
<1> QED
  BY <1>2, <1>3 DEF UploadUserProfilePhoto

LEMMA UploadFileProfile ==
    ASSUME Inv, ProfileInv, NEW r \in Req, UploadFile(r) PROVE ProfileInv'
<1>1. /\ pc[r] = "named" /\ UNCHANGED <<rows, tx, ctx, seen>>
      /\ objects' = objects \/ objects' = With(objects, PhotoKey(r), r)
      /\ \/ pc' = [pc EXCEPT ![r] = "stored"] /\ UNCHANGED res
         \/ Answer(r, 0) /\ r \in Faulty
  BY DEF UploadFile, Upload, Beside
<1>2. Asked[r].kind = "photo" /\ IsProfile(r)
  BY <1>1 DEF Inv, Stages, IsProfile
<1>3. /\ Others(r) /\ res'[r] = 0
      /\ pc'[r] = "stored" \/ (pc'[r] = "done" /\ r \in Faulty)
  BY <1>1, <1>2 DEF Inv, Shapes, Others, Answer, ProfileInv, Proper
<1>4. Proper(r)'
  BY <1>1, <1>2, <1>3 DEF Proper
<1>5. /\ \A s \in Req : IsProfile(s) => Proper(s)'
      /\ Before' /\ \A s \in Req : PhotoKey(s)' = PhotoKey(s)
      /\ ctx[r].user \in {0, ctx'[r].user}
  BY <1>1, <1>2, <1>3, <1>4, OwnStep DEF PhotoKey
<1>6. ObjectsNamed'
  <2>1. ASSUME NEW k \in DOMAIN objects'
        PROVE  \/ k \in DOMAIN objects /\ objects'[k] = objects[k]
               \/ k = PhotoKey(r) /\ objects'[k] = r
    BY <1>1, <2>1 DEF With
  <2>2. ASSUME NEW k \in DOMAIN objects'
        PROVE  Asked[objects'[k]].kind = "photo" /\ PhotoKey(objects[k])' = k
    <3>1. CASE k \in DOMAIN objects /\ objects'[k] = objects[k]
      BY <1>1, <3>1 DEF ProfileInv, ObjectsNamed, PhotoKey
    <3>2. CASE k = PhotoKey(r) /\ objects'[k] = r
      BY <1>1, <1>2, <3>2 DEF PhotoKey
    <3> QED BY <2>1, <2>2, <3>1, <3>2
  <2> QED BY <2>2 DEF ObjectsNamed
<1>7. LastWrite'
  <2>1. NotYet(r)' /\ Written(r)' = Written(r)
    BY <1>3, <1>5 DEF NotYet, Written
  <2>2. Ids("account")' = Ids("account") /\ \A a, k : Column(k, a)' = Column(k, a)
    BY <1>1, SameColumns
  <2> QED BY <1>1, <1>2, <1>3, <2>1, <2>2, LastWriteStep DEF ProfileInv
<1>8. AnswerIsNotOlder'
  BY <1>1, <1>2, <1>3, AnswersAside
<1> QED
  BY <1>5, <1>6, <1>7, <1>8 DEF ProfileInv

LEMMA UpdateUserProfilePhotoProfile ==
    ASSUME Inv, ProfileInv, NEW r \in Req, UpdateUserProfilePhoto(r) PROVE ProfileInv'
<1> DEFINE user == ctx[r].user
           Write == rows' = [rows EXCEPT !["account"][user].photo = PhotoKey(r)]
<1>1. /\ pc[r] = "stored" /\ UNCHANGED <<tx, ctx, seen, objects>>
      /\ \/ Write /\ (Answer(r, user) \/ (Answer(r, 0) /\ r \in Faulty))
         \/ UNCHANGED rows /\ Answer(r, 0) /\ r \in Faulty
  BY DEF UpdateUserProfilePhoto, Beside
<1> HIDE DEF user, Write
<1>2. Asked[r].kind = "photo" /\ IsProfile(r)
  BY <1>1 DEF Inv, Stages, IsProfile
<1>3. /\ Others(r) /\ pc'[r] = "done"
      /\ \/ Write /\ res'[r] = user
         \/ Write /\ res'[r] = 0 /\ r \in Faulty
         \/ UNCHANGED rows /\ res'[r] = 0 /\ r \in Faulty
  <2>1. DOMAIN pc = Req /\ DOMAIN tx = Req /\ DOMAIN res = Req /\ DOMAIN seen = Req
    BY DEF Inv, Shapes
  <2>2. PICK id \in {0, user} : 
          /\ Answer(r, id)
          /\ \/ Write /\ id = user
             \/ Write /\ id = 0 /\ r \in Faulty
             \/ UNCHANGED rows /\ id = 0 /\ r \in Faulty
    BY <1>1
  <2>3. Others(r) /\ pc'[r] = "done" /\ res'[r] = id
    BY <1>1, <2>1, <2>2 DEF Others, Answer
  <2> QED BY <2>2, <2>3
<1>4. Proper(r)'
  BY <1>1, <1>3 DEF Proper, user
<1>5. /\ \A s \in Req : IsProfile(s) => Proper(s)'
      /\ Before' /\ \A s \in Req : r \notin ctx'[s].before
      /\ \A s \in Req : PhotoKey(s)' = PhotoKey(s)
  BY <1>1, <1>2, <1>3, <1>4, OwnStep DEF PhotoKey
<1>6. ObjectsNamed'
  BY <1>1, <1>5, ObjectsStay DEF ProfileInv
<1>7. LastWrite'
  <2>1. Written(r)' = Written(r) /\ Written(r) = PhotoKey(r)
    BY <1>2, <1>5 DEF Written
  <2>2. CASE UNCHANGED rows /\ res'[r] = 0
    <3>1. NotYet(r)'
      BY <1>3, <2>2 DEF NotYet
    <3>2. Ids("account")' = Ids("account") /\ \A a, k : Column(k, a)' = Column(k, a)
      BY <2>2, SameColumns
    <3> QED BY <1>1, <1>2, <1>3, <2>1, <3>1, <3>2, LastWriteStep DEF ProfileInv
  <2>3. CASE Write
    <3>1. PhotoKey(r) \in Key
      BY <1>1 DEF Inv, Uploaded
    <3>2. PICK photo \in Key : photo = PhotoKey(r)
      BY <3>1
    <3>3. rows' = [rows EXCEPT !["account"][user].photo = photo]
      BY <2>3, <3>2 DEF Write
    <3>4. /\ Ids("account")' = Ids("account")
          /\ \A b \in Ids("account") :
               /\ PhotoOf(b)' = (IF b = user THEN photo ELSE PhotoOf(b))
               /\ NameOf(b)' = NameOf(b)
      BY <3>3, PhotoWritten
    <3>5. user \in Ids("account")
      BY <1>1 DEF Inv, Holders, user
    <3>6. Column("photo", user)' = Written(r)'
      BY <1>1, <2>1, <3>2, <3>4, <3>5 DEF Column, user
    <3>7. \A a \in Ids("account"), k \in {"photo", "names"} :
             k # "photo" \/ a # user => Column(k, a)' = Column(k, a)
      BY <3>4 DEF Column, NameOf
    <3>8. ctx'[r].user = user /\ \A s \in Req \ {r} : ctx'[s] = ctx[s]
      BY <1>1 DEF user
    <3> QED
      BY <1>2, <1>3, <1>5, <3>4, <3>6, <3>7, <3>8, LastWriteStep DEF ProfileInv, user
  <2> QED BY <1>3, <2>2, <2>3
<1>8. AnswerIsNotOlder'
  BY <1>1, <1>2, <1>3, AnswersAside
<1> QED
  BY <1>5, <1>6, <1>7, <1>8 DEF ProfileInv

LEMMA UpdateUserProfile ==
    ASSUME Inv, ProfileInv, NEW r \in Req, UpdateUser(r) PROVE ProfileInv'
<1>0. PICK user : user = token[Asked[r].login].id
  OBVIOUS
<1> DEFINE Write == rows' = [rows EXCEPT !["account"][user].name = Asked[r].name]
<1>1. /\ Asked[r].kind = "names" /\ pc[r] = "new" /\ UNCHANGED <<seen, objects>> /\ Beside
      /\ IsProfile(r)
  BY DEF UpdateUser, Arrives, IsProfile
<1>2. CASE Reject(r)
  BY <1>1, <1>2, RejectProfile
<1>3. CASE /\ Admit(r)
           /\ \/ Write /\ pc' = [pc EXCEPT ![r] = "updated"] /\ UNCHANGED res
              \/ r \in Faulty /\ (Write \/ UNCHANGED rows) /\ Answer(r, 0)
  <2>0. ctx'[r].user = user
    BY <1>0, <1>3, AdmitsAfter
  <2> HIDE DEF Write
  <2>1. /\ Others(r) /\ res'[r] = 0
        /\ \/ Write /\ pc'[r] = "updated"
           \/ Write /\ pc'[r] = "done" /\ r \in Faulty
           \/ UNCHANGED rows /\ pc'[r] = "done" /\ r \in Faulty
    <3>1. DOMAIN pc = Req /\ DOMAIN tx = Req /\ DOMAIN res = Req /\ DOMAIN seen = Req
      BY DEF Inv, Shapes
    <3>2. res[r] = 0
      BY <1>1 DEF ProfileInv, Proper
    <3>3. CASE Write /\ pc' = [pc EXCEPT ![r] = "updated"] /\ UNCHANGED res
      BY <1>1, <3>1, <3>2, <3>3 DEF Others, Beside
    <3>4. CASE r \in Faulty /\ (Write \/ UNCHANGED rows) /\ Answer(r, 0)
      BY <1>1, <3>1, <3>4 DEF Others, Answer, Beside
    <3> QED BY <1>3, <3>3, <3>4
  <2>2. /\ \A s \in Req \ {r} : ctx'[s] = ctx[s]
        /\ user \in Ids("account") /\ user # 0
    BY <1>1, <1>3, <2>0, AdmitGoes
  <2>3. \A x \in ctx'[r].before : x \in Req /\ pc[x] = "done"
    BY <1>3, AdmitsAfter
  <2>4. Proper(r)'
    BY <2>1 DEF Proper
  <2>5. /\ \A s \in Req : IsProfile(s) => Proper(s)'
        /\ Before' /\ \A s \in Req : pc[s] # "new" => PhotoKey(s)' = PhotoKey(s)
        /\ \A s \in Req : r \notin ctx'[s].before
        /\ ctx[r].user = 0
    BY <1>1, <2>1, <2>2, <2>3, <2>4, OwnStep DEF ProfileInv, Proper
  <2>6. ObjectsNamed'
    BY <1>1, <2>5, ObjectsStay DEF ProfileInv
  <2>7. LastWrite'
    <3>1. CASE UNCHANGED rows /\ pc'[r] = "done"
      <4>1. NotYet(r)'
        BY <2>1, <3>1 DEF NotYet
      <4>2. Ids("account")' = Ids("account") /\ \A a, k : Column(k, a)' = Column(k, a)
        BY <3>1, SameColumns
      <4> QED BY <1>1, <2>0, <2>1, <2>2, <2>5, <4>1, <4>2, LastWriteStep DEF ProfileInv
    <3>2. CASE Write
      <4>1. Asked[r].name \in Name
        BY <1>1, AccountsAskedAssumption
      <4>2. /\ Ids("account")' = Ids("account")
            /\ \A b \in Ids("account") :
                 /\ PhotoOf(b)' = PhotoOf(b)
                 /\ NameOf(b)' = IF b = user THEN Asked[r].name ELSE NameOf(b)
        BY <3>2, <4>1, NameWritten DEF Write
      <4>3. Column("names", user)' = NameOf(user)'
        BY DEF Column, NameOf
      <4>4. Column("names", user)' = Written(r)'
        BY <1>1, <2>2, <4>2, <4>3 DEF Written
      <4>5. \A a \in Ids("account"), k \in {"photo", "names"} :
               k # "names" \/ a # user => Column(k, a)' = Column(k, a)
        BY <4>2 DEF Column, NameOf
      <4> QED BY <1>1, <2>0, <2>1, <2>2, <2>5, <4>2, <4>4, <4>5, LastWriteStep DEF ProfileInv
    <3> QED BY <2>1, <3>1, <3>2
  <2>8. AnswerIsNotOlder'
    BY <1>1, <2>1, <2>2, <2>5, AnswersAside
  <2> QED BY <2>5, <2>6, <2>7, <2>8 DEF ProfileInv
<1> QED
  BY <1>0, <1>2, <1>3 DEF UpdateUser, UpdateNames, WriteName

\* The name read back is that of the last write, which no answer preceded.
LEMMA AnswerProfileProfile ==
    ASSUME Inv, ProfileInv, NEW r \in Req, AnswerProfile(r) PROVE ProfileInv'
<1>1. pc[r] = "updated" /\ Asked[r].kind = "names" /\ IsProfile(r) /\ UNCHANGED seen /\ Beside
  BY DEF AnswerProfile, Inv, Stages, IsProfile
<1>2. CASE Reject(r) /\ r \in Faulty
  BY <1>1, <1>2, RejectProfile
<1>3. CASE /\ ctx' = [ctx EXCEPT ![r].name = ReadBack(r)]
           /\ Answer(r, ctx[r].user)
           /\ UNCHANGED <<rows, objects, token>>
  <2>1. Others(r) /\ pc'[r] = "done" /\ res'[r] = ctx[r].user
    BY <1>1, <1>3 DEF Inv, Shapes, Others, Beside, Answer
  <2>2. ctx[r].user \in Ids("account") /\ ctx[r].user # 0
    BY <1>1 DEF Inv, Holders
  <2>3. /\ \A s \in Req \ {r} : ctx'[s] = ctx[s]
        /\ ctx'[r].user = ctx[r].user /\ ctx'[r].at = ctx[r].at
        /\ ctx'[r].before = ctx[r].before /\ ctx'[r].name = ReadBack(r)
    <3>1. ctx \in [Req -> [user : Nat, at : Nat, name : Name \cup {Nil}, before : SUBSET Req]]
      BY DEF Inv, Shapes
    <3>2. ctx'[r] = [ctx[r] EXCEPT !.name = ReadBack(r)]
      BY <1>3, <3>1
    <3> QED BY <1>3, <3>1, <3>2
  <2>4. Proper(r)'
    BY <2>1, <2>2, <2>3 DEF Proper
  <2>5. /\ \A s \in Req : IsProfile(s) => Proper(s)'
        /\ Before' /\ \A s \in Req : pc[s] # "new" => PhotoKey(s)' = PhotoKey(s)
    BY <1>1, <2>1, <2>3, <2>4, OwnStep
  <2>6. ObjectsNamed'
    BY <1>3, <2>5, ObjectsStay DEF ProfileInv
  <2>7. LastWrite'
    <3>1. ~NotYet(r) /\ Written(r)' = Written(r)
      BY <1>1 DEF NotYet, Written
    <3>2. Ids("account")' = Ids("account") /\ \A a, k : Column(k, a)' = Column(k, a)
      BY <1>3, SameColumns
    <3> QED BY <1>1, <2>1, <2>3, <3>1, <3>2, LastWriteStep DEF ProfileInv
  <2>8. AnswerIsNotOlder'
    <3>1. r \in Writes("names", ctx[r].user) /\ ~NotYet(r)
      BY <1>1 DEF Writes, Asking, NotYet
    <3>2. PICK w \in Writes("names", ctx[r].user) :
            /\ Column("names", ctx[r].user) = Written(w)
            /\ w \notin ctx[r].before
      BY <2>2, <3>1 DEF ProfileInv, LastWrite, LastWriteOf
    <3>3. w \in Req /\ Asked[w].kind = "names" /\ ctx[w].user = ctx[r].user
      BY <3>2 DEF Writes, Asking
    <3>4. ctx'[w].user = ctx[r].user
      BY <2>3, <3>3
    <3>5. w \in Writes("names", res[r])'
      BY <2>1, <3>3, <3>4 DEF Writes, Asking
    <3>6. ReadBack(r) = Asked[w].name
      BY <3>2, <3>3 DEF ReadBack, Column, Written
    <3>7. ctx'[r].name \in {Asked[s].name : s \in Writes("names", res[r])' \ ctx'[r].before}
      BY <2>3, <3>2, <3>5, <3>6
    <3>8. \A s \in Req \ {r} : Asked[s].kind = "names" => res[s] \in {0, ctx[s].user}
      BY DEF ProfileInv, Proper, IsProfile
    <3> QED BY <2>1, <2>3, <3>7, <3>8, AnswersKept DEF ProfileInv
  <2> QED BY <2>5, <2>6, <2>7, <2>8 DEF ProfileInv
<1> QED
  BY <1>2, <1>3 DEF AnswerProfile

\* Other requests add accounts and change none.
LEMMA AsideProfile ==
    ASSUME Inv, Inv', ProfileInv, NEW r \in Req, Others(r), ~IsProfile(r), pc[r] # "done",
           UNCHANGED <<objects, ctx>>, Ids("account") \subseteq Ids("account")',
           \A a \in Ids("account") : PhotoOf(a)' = PhotoOf(a) /\ NameOf(a)' = NameOf(a)
    PROVE  ProfileInv'
<1>1. \A s \in Req : IsProfile(s) => Proper(s)'
  <2> SUFFICES ASSUME NEW s \in Req, IsProfile(s) PROVE Proper(s)'
    OBVIOUS
  <2>1. s # r /\ Proper(s)
    BY DEF ProfileInv
  <2> QED BY <2>1 DEF Proper, Others
<1>2. Before'
  <2>1. \A s \in Req : ctx[s].before \subseteq Req
    BY DEF Inv, Shapes
  <2>2. \A x \in ctx'[r].before : x \in Req /\ pc[x] = "done"
    BY <2>1 DEF ProfileInv, Before
  <2> QED BY <2>1, <2>2, BeforeKept DEF ProfileInv
<1>3. ObjectsNamed'
  BY DEF ProfileInv, ObjectsNamed, PhotoKey
<1>4. LastWrite'
  <2> SUFFICES ASSUME NEW a \in Ids("account")', NEW k \in {"photo", "names"}
               PROVE  LastWriteOf(k, a)'
    BY DEF LastWrite
  <2>1. CASE a \in Ids("account")
    <3>1. LastWriteOf(k, a)
      BY <2>1 DEF ProfileInv, LastWrite
    <3>2. Column(k, a)' = Column(k, a)
      BY <2>1 DEF Column, NameOf
    <3>3. r \notin Writes(k, a) /\ r \notin Writes(k, a)'
      BY DEF Writes, Asking, IsProfile
    <3> QED BY <3>1, <3>2, <3>3, WriteKept
  <2>2. CASE a \notin Ids("account")
    <3>1. a # 0
      BY DEF Inv, Rows
    <3>2. Writes(k, a)' = {}
      BY <2>2, <3>1 DEF Inv, Holders, Writes, Asking
    <3> QED BY <3>2 DEF LastWriteOf
  <2> QED BY <2>1, <2>2
<1>5. AnswerIsNotOlder'
  BY AnswersAside DEF IsProfile
<1> QED
  BY <1>1, <1>2, <1>3, <1>4, <1>5 DEF ProfileInv

\* A registration's commit adds an account.
LEMMA CreateUserProfile ==
    ASSUME Inv, Inv', ProfileInv, NEW r \in Req, CreateUser(r), UNCHANGED accountVars
    PROVE  ProfileInv'
<1>1. DOMAIN pc = Req /\ DOMAIN tx = Req /\ DOMAIN res = Req /\ DOMAIN seen = Req
  BY DEF Inv, Shapes
<1>2. /\ Asked[r].kind = "account" /\ pc[r] # "done" /\ ~IsProfile(r) /\ UNCHANGED <<objects, ctx>>
      /\ seen' = seen
  BY DEF CreateUser, TakeUserId, InsertUser, Commit, accountVars, IsProfile, Inv, Stages
<1>3. Others(r)
  <2>1. /\ \E at : pc' = [pc EXCEPT ![r] = at]
        /\ tx' = tx \/ \E row : tx' = [tx EXCEPT ![r] = row]
        /\ res' = res \/ \E id : res' = [res EXCEPT ![r] = id]
    BY DEF CreateUser, TakeUserId, InsertUser, Commit, Answer
  <2> QED BY <1>1, <1>2, <2>1 DEF Others
<1>4. /\ Ids("account") \subseteq Ids("account")'
      /\ \A a \in Ids("account") : PhotoOf(a)' = PhotoOf(a) /\ NameOf(a)' = NameOf(a)
  <2>1. CASE UNCHANGED rows
    BY <2>1 DEF Ids, PhotoOf, NameOf
  <2>2. CASE Commit(r, "account", NewUser(r))
    <3>1. tx[r].id \notin Ids("account")
      BY <1>2, <2>2 DEF Commit, Inv, OpenRegistrations, Pending
    <3>2. rows'["account"] = With(rows["account"], tx[r].id, NewUser(r))
      BY <2>2 DEF Commit, Inv, Rows, Table
    <3> QED BY <3>1, <3>2 DEF With, Ids, PhotoOf, NameOf
  <2> QED BY <2>1, <2>2 DEF CreateUser, TakeUserId, InsertUser, database
<1> QED
  BY <1>2, <1>3, <1>4, AsideProfile

LEMMA HarmlessProfile ==
    ASSUME Inv, Inv', ProfileInv, NEW r \in Req, Harmless(r), ~IsProfile(r), pc[r] # "done"
    PROVE  ProfileInv'
<1>1. Others(r) /\ UNCHANGED <<objects, ctx>> /\ rows'["account"] = rows["account"]
  BY DEF Harmless, accountVars
<1>2. /\ Ids("account") \subseteq Ids("account")'
      /\ \A a \in Ids("account") : PhotoOf(a)' = PhotoOf(a) /\ NameOf(a)' = NameOf(a)
  BY <1>1 DEF Ids, PhotoOf, NameOf
<1> QED
  BY <1>1, <1>2, AsideProfile

LEMMA LoginProfile == ASSUME Inv, Inv', ProfileInv, NEW r \in Req, Login(r) PROVE ProfileInv'
<1>1. DOMAIN pc = Req /\ DOMAIN tx = Req /\ DOMAIN res = Req /\ DOMAIN seen = Req
  BY DEF Inv, Shapes
<1>2. /\ UNCHANGED <<rows, objects, ctx, tx>> /\ pc[r] # "done" /\ ~IsProfile(r)
      /\ \E id : Answer(r, id)
      /\ seen' = [seen EXCEPT ![r] = DOMAIN rows["account"]]
  BY DEF Login, Beside, Reject, IsProfile
<1>3. Others(r)
  BY <1>1, <1>2 DEF Answer, Others
<1>4. /\ Ids("account") \subseteq Ids("account")'
      /\ \A a \in Ids("account") : PhotoOf(a)' = PhotoOf(a) /\ NameOf(a)' = NameOf(a)
  BY <1>2 DEF Ids, PhotoOf, NameOf
<1> QED
  BY <1>2, <1>3, <1>4, AsideProfile

\* A step that changes the wall clock at most.
LEMMA IdleProfile ==
    ASSUME ProfileInv, UNCHANGED <<rows, pc, res, objects, ctx>> PROVE ProfileInv'
<1>1. \A a, k : Writes(k, a)' = Writes(k, a) /\ Column(k, a)' = Column(k, a)
  BY DEF Writes, Asking, Column, PhotoOf
<1>2. \A s : /\ NotYet(s)' <=> NotYet(s)
             /\ Written(s)' = Written(s) /\ PhotoKey(s)' = PhotoKey(s)
             /\ Proper(s)' <=> Proper(s)
  BY DEF NotYet, Written, PhotoKey, Proper
<1>3. Ids("account")' = Ids("account")
  BY DEF Ids
<1>4. LastWrite'
  <2> SUFFICES ASSUME NEW a \in Ids("account"), NEW k \in {"photo", "names"} PROVE LastWriteOf(k, a)'
    BY <1>3 DEF LastWrite
  <2>1. LastWriteOf(k, a)
    BY DEF ProfileInv, LastWrite
  <2> QED BY <1>1, <1>2, <2>1 DEF LastWriteOf
<1>5. Before' /\ ObjectsNamed'
  BY <1>2 DEF ProfileInv, Before, ObjectsNamed
<1>6. AnswerIsNotOlder'
  BY <1>1 DEF ProfileInv, AnswerIsNotOlder, Asking
<1>7. \A s \in Req : IsProfile(s) => Proper(s)'
  BY <1>2 DEF ProfileInv
<1> QED
  BY <1>4, <1>5, <1>6, <1>7 DEF ProfileInv

LEMMA NextProfile == Inv /\ Inv' /\ ProfileInv /\ [RestNext]_restVars => ProfileInv'
<1> SUFFICES ASSUME Inv, Inv', ProfileInv, [RestNext]_restVars PROVE ProfileInv'
  OBVIOUS
<1>1. ASSUME NEW r \in Req, Request(r), UNCHANGED accountVars PROVE ProfileInv'
  <2>1. CASE CreateUser(r)
    BY <1>1, <2>1, CreateUserProfile
  <2>2. CASE LookForConversation(r) \/ LookForWhiteboard(r) \/ LookForUser(r) \/ Rollback(r)
    <3>1. ~IsProfile(r) /\ pc[r] # "done"
      BY <2>2 DEF LookForConversation, LookForWhiteboard, LookForUser, Look, Rollback,
         IsProfile, ProfileInv, Proper
    <3> QED BY <1>1, <2>2, <3>1, Harmless1, HarmlessProfile
  <2>3. CASE CreateConversation(r) \/ CreateNewWhiteboard(r)
    <3>1. ~IsProfile(r) /\ pc[r] # "done"
      BY <2>3 DEF CreateConversation, CreateNewWhiteboard, Insert, Commit, IsProfile
    <3> QED BY <1>1, <2>3, <3>1, Harmless2, HarmlessProfile
  <2> QED BY <1>1, <2>1, <2>2, <2>3 DEF Request
<1>2. ASSUME NEW r \in Req, AccountRequest(r) PROVE ProfileInv'
  BY <1>2, LoginProfile, UploadUserProfilePhotoProfile, UploadFileProfile,
     UpdateUserProfilePhotoProfile, UpdateUserProfile, AnswerProfileProfile DEF AccountRequest
<1>3. ASSUME NEW r \in Req, ListRequest(r), UNCHANGED accountVars PROVE ProfileInv'
  <2>1. ~IsProfile(r) /\ pc[r] # "done"
    BY <1>3 DEF ListRequest, InsertMessage, ReadTime, SaveMessage, Find, Count, IsProfile, Inv, Stages
  <2> QED BY <1>3, <2>1, Harmless3, HarmlessProfile
<1>4. CASE Tick \/ (Answered /\ UNCHANGED accountVars) \/ UNCHANGED restVars
  <2>1. UNCHANGED <<rows, pc, res, objects, ctx>>
    BY <1>4 DEF Tick, Answered, restVars, vars, accountVars
  <2> QED BY <2>1, IdleProfile
<1> QED
  BY <1>1, <1>2, <1>3, <1>4 DEF RestNext

LEMMA InitProfile == RestInit => ProfileInv
<1> SUFFICES ASSUME RestInit PROVE ProfileInv
  OBVIOUS
<1>1. PICK load \in Loads : pc = [r \in Req |-> IF r \in load.reqs THEN "new" ELSE "done"]
  BY DEF RestInit, Init
<1>2. /\ res = [r \in Req |-> 0] /\ objects = <<>>
      /\ ctx = [r \in Req |-> [user |-> 0, at |-> 0, name |-> Nil, before |-> {}]]
  BY DEF RestInit, Init, AccountsInit
<1>3. \A r \in Req : IsProfile(r) => Proper(r)
  BY <1>1, <1>2 DEF Proper
<1>4. Before /\ ObjectsNamed
  BY <1>2 DEF Before, ObjectsNamed
<1>5. LastWrite
  <2>1. \A k \in {"photo", "names"} : \A a \in Ids("account") : \A s \in Writes(k, a) : a = 0
    BY <1>2 DEF Writes, Asking
  <2>2. 0 \notin Ids("account")
    BY InitInv DEF Inv, Rows
  <2> QED BY <2>1, <2>2 DEF LastWrite, LastWriteOf
<1>6. AnswerIsNotOlder
  BY <1>2 DEF AnswerIsNotOlder, Asking
<1> QED
  BY <1>3, <1>4, <1>5, <1>6 DEF ProfileInv

\* Of a user's uploads and name updates that ran at once, none of the last
\* successful ones is lost: whoever was answered finds it, or a later one, in the row.
THEOREM WritesCorrect == RestSpec => []NothingLost
<1>1. Inv /\ ProfileInv => NothingLost
  <2> SUFFICES ASSUME Inv, ProfileInv, NEW a \in Account, NEW kind \in {"photo", "names"},
                      NEW r0 \in Latest({r \in Writes(kind, a) : res[r] # 0})
               PROVE  Column(kind, a) \in
                        {Written(r) : r \in Latest({r \in Writes(kind, a) : res[r] # 0})
                                            \cup Unsure(Writes(kind, a))}
    BY DEF NothingLost
  <2> DEFINE all == Writes(kind, a)
             done == {r \in all : res[r] # 0}
  <2>0. a \in Ids("account") /\ a # 0
    BY DEF Account, Ids, Inv, Rows
  <2>1. \A s \in all : s \in Req /\ Asked[s].kind = kind /\ ctx[s].user = a /\ Proper(s)
    BY DEF Writes, Asking, ProfileInv, IsProfile
  <2>2. \A s \in done : ~NotYet(s)
    BY <2>1 DEF NotYet, Proper
  <2>3. r0 \in done
    BY DEF Latest
  <2>4. PICK w \in all : /\ Column(kind, a) = Written(w)
                         /\ \A s \in all : w \in ctx[s].before => NotYet(s)
    BY <2>0, <2>2, <2>3 DEF ProfileInv, LastWrite, LastWriteOf
  <2>5. w \in Latest(done) \/ w \in Unsure(all)
    <3>1. CASE res[w] # 0
      BY <2>2, <2>4, <3>1 DEF Latest
    <3>2. CASE res[w] = 0
      BY <2>0, <2>1, <3>2 DEF Unsure, Proper
    <3> QED BY <3>1, <3>2
  <2> QED BY <2>4, <2>5
<1> QED
  BY <1>1, InitInv, NextInv, InitProfile, NextProfile, PTL DEF RestSpec

\* A name update's answer never shows what the update replaced.
THEOREM NamesCorrect == RestSpec => []AnswerIsNotOlder
<1>1. ProfileInv => AnswerIsNotOlder
  BY DEF ProfileInv
<1> QED
  BY <1>1, InitInv, NextInv, InitProfile, NextProfile, PTL DEF RestSpec

\* A photo that others see changes only with its user's row, but for two uploads
\* of a user in one second, and for a photo that the registration brought.
THEOREM PhotoStepsCorrect == RestSpec => PhotoChangesWithRow
<1> DEFINE Change == \A a \in Account :
        /\ PhotoOf(a) # Nil /\ PhotoOf(a) \in DOMAIN objects
        /\ objects'[PhotoOf(a)] # objects[PhotoOf(a)]
        => SameSecond(a) \/ Brought(a)
<1>1. Inv /\ ProfileInv /\ [RestNext]_restVars => [Change]_<<vars, accountVars>>
  <2> SUFFICES ASSUME Inv, ProfileInv, [RestNext]_restVars, NEW a \in Account,
                      PhotoOf(a) # Nil, PhotoOf(a) \in DOMAIN objects, ~Brought(a),
                      objects'[PhotoOf(a)] # objects[PhotoOf(a)]
               PROVE  SameSecond(a)
    OBVIOUS
  <2>1. PhotoOf(a) \in DOMAIN objects /\ PhotoOf(a).user = a
    BY DEF Inv, Shown, Account, Ids
  <2>2. PICK r \in Req : UploadFile(r) /\ objects' = With(objects, PhotoKey(r), r)
    <3>1. objects' # objects
      OBVIOUS
    <3>2. PICK r \in Req : AccountRequest(r)
      BY <3>1 DEF RestNext, restVars, accountVars, Tick
    <3> QED
      BY <3>1, <3>2 DEF AccountRequest, Login, Reject, UploadUserProfilePhoto, UploadFile, Upload,
         UpdateUserProfilePhoto, UpdateUser, AnswerProfile
  <2>3. PhotoOf(a) = PhotoKey(r) /\ objects[PhotoOf(a)] # r
    BY <2>1, <2>2 DEF With
  <2>4. PICK q \in Req : q = objects[PhotoOf(a)]
    BY <2>1 DEF Inv, Uploaded
  <2>5. Asked[q].kind = "photo" /\ PhotoKey(q) = PhotoKey(r)
    BY <2>1, <2>3, <2>4 DEF ProfileInv, ObjectsNamed
  <2>6. Asked[r].kind = "photo"
    BY <2>2 DEF UploadFile, Inv, Stages
  <2>7. /\ ctx[q].user = a /\ ctx[r].user = a
        /\ ctx[q].at = ctx[r].at /\ Asked[q].ext = Asked[r].ext
    BY <2>1, <2>3, <2>5 DEF PhotoKey
  <2> QED
    BY <2>3, <2>4, <2>5, <2>6, <2>7 DEF SameSecond, Writes, Asking
<1>2. Inv /\ ProfileInv /\ [RestNext]_restVars => Inv' /\ ProfileInv'
  BY NextInv, NextProfile
<1> QED
  BY <1>1, <1>2, InitInv, InitProfile, PTL DEF RestSpec, PhotoChangesWithRow
=============================================================================
