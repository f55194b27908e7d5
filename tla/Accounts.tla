------------------------------ MODULE Accounts ------------------------------
(***************************************************************************)
(* The REST requests about a user's own row: a login, whose token the      *)
(* client's other requests carry; a profile photo, which is stored in      *)
(* MinIO under a key made of the user and the second, then named in the    *)
(* row; the user's names, written by one statement and read back by        *)
(* another. No route deletes an account or an object.                      *)
(***************************************************************************)
EXTENDS Store

CONSTANTS
    Lifetime,   \* how long a token is valid, in seconds
    MaxSecond   \* bound on the wall clock

ASSUME LifetimeAssumption == Lifetime \in Nat /\ MaxSecond \in Nat
ASSUME AccountsAskedAssumption ==
    \A r \in Req :
        /\ Asked[r].kind = "login" =>
            Asked[r] \in [kind : {"login"}, email : Email, password : Password]
        /\ Asked[r].kind = "photo" => Asked[r] \in [kind : {"photo"}, login : Req, ext : Ext]
        /\ Asked[r].kind = "names" =>
            Asked[r] \in [kind : {"names"}, login : Req, name : Name, valid : BOOLEAN]
        /\ Asked[r].kind \in {"photo", "names"} => Asked[Asked[r].login].kind = "login"

\* The bucket starts empty.
ASSUME PhotosAssumption ==
    \A load \in Loads : \A a \in DOMAIN load.accounts : load.accounts[a].photo = Nil

VARIABLES
    objects,    \* the bucket: the upload whose content each key holds
    second,     \* the wall clock
    token,      \* the claims each login was answered with; id 0 for none
    ctx         \* what a request has in hand: user id, second, name read back;
                \* and, as history, those of its kind answered before it

accountVars == <<objects, second, token, ctx>>

AccountsInit ==
    /\ objects = <<>>
    /\ second = 0
    /\ token = [r \in Req |-> [id |-> 0, name |-> Nil, until |-> 0]]
    /\ ctx = [r \in Req |-> [user |-> 0, at |-> 0, name |-> Nil, before |-> {}]]

\* A step that leaves the other tables and the transactions alone.
Beside == UNCHANGED <<drawns, ids, times, tx, second>>

Reject(r) == Answer(r, 0) /\ UNCHANGED <<rows, objects, token, ctx>>

(***************************************************************************)
(* Login                                                                   *)
(***************************************************************************)
CreateJwtToken(a) == [id |-> a, name |-> rows["account"][a].name, until |-> second + Lifetime]

\* Mutant: the comparison's error is ignored.
AnyPassword(r, a) == TRUE

CompareHashAndPassword(r, a) == rows["account"][a].password = Asked[r].password

\* A failed lookup reads as "no such user".
Login(r) ==
    /\ pc[r] = "new"
    /\ Asked[r].kind = "login"
    /\ seen' = [seen EXCEPT ![r] = DOMAIN rows["account"]]
    /\ Beside
    /\ LET found == CheckIfUserExists(Asked[r].email)
           user == Min(found)
           right == found # {} /\ CompareHashAndPassword(r, user)
       IN  \/ (~right \/ r \in Faulty) /\ Reject(r)
           \/ /\ right
              /\ Answer(r, user)
              /\ token' = [token EXCEPT ![r] = CreateJwtToken(user)]
              /\ UNCHANGED <<rows, objects, ctx>>

\* The client sends the token of its login, once that is answered.
VerifyToken(r) ==
    LET claims == token[Asked[r].login]
    IN  claims.id # 0 /\ second < claims.until

Arrives(r, kind) ==
    /\ pc[r] = "new"
    /\ Asked[r].kind = kind
    /\ pc[Asked[r].login] = "done"
    /\ UNCHANGED seen
    /\ Beside

\* The middleware sets the user id for the handler, which may read the time.
Admit(r) ==
    /\ VerifyToken(r)
    /\ ctx' = [ctx EXCEPT ![r].user = token[Asked[r].login].id,
                          ![r].at = second,
                          ![r].before = {s \in Req : pc[s] = "done" /\ Asked[s].kind = Asked[r].kind}]

(***************************************************************************)
(* Profile photos                                                          *)
(***************************************************************************)
\* Mutant: the key does not contain the time.
PhotoKeyOfUser(r) == [user |-> ctx[r].user, at |-> 0, ext |-> Asked[r].ext]

PhotoKey(r) == [user |-> ctx[r].user, at |-> ctx[r].at, ext |-> Asked[r].ext]

UploadUserProfilePhoto(r) ==
    /\ Arrives(r, "photo")
    /\ \/ ~VerifyToken(r) /\ Reject(r)
       \/ /\ Admit(r)
          /\ pc' = [pc EXCEPT ![r] = "named"]
          /\ UNCHANGED <<rows, objects, token, res>>

Upload(r) == objects' = With(objects, PhotoKey(r), r)

\* Mutant: an upload that failed is taken for stored.
UploadFileUnchecked(r) ==
    /\ pc[r] = "named"
    /\ Upload(r) \/ (r \in Faulty /\ UNCHANGED objects)
    /\ pc' = [pc EXCEPT ![r] = "stored"]
    /\ UNCHANGED <<res, rows, token, ctx, seen>>
    /\ Beside

\* PutObject stores an object whole; its answer may fail after the fact.
UploadFile(r) ==
    /\ pc[r] = "named"
    /\ \/ Upload(r) /\ pc' = [pc EXCEPT ![r] = "stored"] /\ UNCHANGED res
       \/ r \in Faulty /\ (Upload(r) \/ UNCHANGED objects) /\ Answer(r, 0)
    /\ UNCHANGED <<rows, token, ctx, seen>>
    /\ Beside

UpdateUserProfilePhoto(r) ==
    /\ pc[r] = "stored"
    /\ LET Write == rows' = [rows EXCEPT !["account"][ctx[r].user].photo = PhotoKey(r)]
       IN  \/ Write /\ Answer(r, ctx[r].user)
           \/ r \in Faulty /\ (Write \/ UNCHANGED rows) /\ Answer(r, 0)
    /\ UNCHANGED <<objects, token, ctx, seen>>
    /\ Beside

(***************************************************************************)
(* Names                                                                   *)
(***************************************************************************)
WriteName(r, a) == rows' = [rows EXCEPT !["account"][a].name = Asked[r].name]

\* Mutant: the whole row is saved from a struct that has names only.
SaveUser(r, a) ==
    rows' = [rows EXCEPT !["account"][a].name = Asked[r].name, !["account"][a].photo = Nil]

UpdateNames(r, a) == WriteName(r, a)

UpdateUser(r) ==
    /\ Arrives(r, "names")
    /\ UNCHANGED <<objects, token>>
    /\ \/ ~(VerifyToken(r) /\ Asked[r].valid) /\ Reject(r)
       \/ /\ Asked[r].valid
          /\ Admit(r)
          /\ LET Write == UpdateNames(r, token[Asked[r].login].id)
             IN  \/ Write /\ pc' = [pc EXCEPT ![r] = "updated"] /\ UNCHANGED res
                 \/ r \in Faulty /\ (Write \/ UNCHANGED rows) /\ Answer(r, 0)

\* Mutant: the answer is made of the claims.
AnswerClaims(r) == token[Asked[r].login].name

\* The statement after the update: First, by id.
ReadBack(r) == rows["account"][ctx[r].user].name

AnswerProfile(r) ==
    /\ pc[r] = "updated"
    /\ \/ /\ ctx' = [ctx EXCEPT ![r].name = ReadBack(r)]
          /\ Answer(r, ctx[r].user)
          /\ UNCHANGED <<rows, objects, token>>
       \/ r \in Faulty /\ Reject(r)
    /\ UNCHANGED seen
    /\ Beside

AccountRequest(r) ==
    \/ Login(r)
    \/ UploadUserProfilePhoto(r)
    \/ UploadFile(r)
    \/ UpdateUserProfilePhoto(r)
    \/ UpdateUser(r)
    \/ AnswerProfile(r)

\* Time matters while a request that reads it is still to be answered.
Tick ==
    /\ second < MaxSecond
    /\ \E r \in Req : pc[r] # "done" /\ Asked[r].kind \in {"login", "photo", "names"}
    /\ second' = second + 1
    /\ UNCHANGED <<vars, objects, token, ctx>>
=============================================================================
