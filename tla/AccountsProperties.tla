-------------------------- MODULE AccountsProperties --------------------------
(***************************************************************************)
(* What logins, photos and names leave behind.                             *)
(***************************************************************************)
EXTENDS Accounts, FiniteSetsExt

Account == DOMAIN rows["account"]
PhotoOf(a) == rows["account"][a].photo

\* Tokens and requests are of accounts that are there, and objects of uploads.
AccountsTypeOK ==
    /\ second \in 0..MaxSecond
    /\ DOMAIN objects \subseteq Key /\ Range(objects) \subseteq Req
    /\ \A r \in Req :
        /\ token[r].id \in Account \cup {0}
        /\ token[r].until \in 0..MaxSecond + Lifetime
        /\ ctx[r].user \in Account \cup {0} /\ ctx[r].at \in 0..second
        /\ ctx[r].name \in Name \cup {Nil} /\ ctx[r].before \subseteq Req
        /\ pc[r] \in {"named", "stored"} => Asked[r].kind = "photo" /\ ctx[r].user # 0
        /\ pc[r] = "updated" => Asked[r].kind = "names" /\ ctx[r].user # 0

\* The photo came with a registration of the account's email.
Brought(a) ==
    \E g \in Registering : Asked[g].email = rows["account"][a].email /\ Asked[g].photo = PhotoOf(a)

\* The photo a row names is an object of the bucket that this user uploaded,
\* whatever failed between MinIO and the database, or what its registration
\* brought: no upload leaves a broken or another's picture.
PhotoIsStored ==
    \A a \in Account :
        PhotoOf(a) # Nil => \/ Brought(a)
                            \/ /\ PhotoOf(a) \in DOMAIN objects
                               /\ PhotoOf(a).user = a
                               /\ ctx[objects[PhotoOf(a)]].user = a

\* The requests of each kind, and those for a column of a row that were admitted.
Asking == [kind \in {"account", "login", "photo", "names"} |-> {r \in Req : Asked[r].kind = kind}]
Writes(kind, a) == {r \in Asking[kind] : ctx[r].user = a}

\* Two of the user's uploads were named in one second with one extension.
SameSecond(a) ==
    \E r, s \in Writes("photo", a) :
        r # s /\ ctx[r].at = ctx[s].at /\ Asked[r].ext = Asked[s].ext

\* What others see as a user's photo changes only with the user's row: an upload
\* that fails halfway shows nothing. Two uploads in one second escape, since the
\* second object replaces the first, and so does a photo that the registration
\* brought, which may name anybody's object.
PhotoChangesWithRow ==
    [][\A a \in Account :
        /\ PhotoOf(a) # Nil /\ PhotoOf(a) \in DOMAIN objects
        /\ objects'[PhotoOf(a)] # objects[PhotoOf(a)]
        => SameSecond(a) \/ Brought(a)]_<<vars, accountVars>>

\* Of a set of successful writes, those that no later one of the set replaced.
Latest(done) == {r \in done : \A s \in done : r \notin ctx[s].before}

\* Writes that are under way, and those that failed perhaps after the fact.
Unsure(all) == {r \in all : pc[r] # "done" \/ (r \in Faulty /\ res[r] = 0)}

Written(r) == IF Asked[r].kind = "photo" THEN PhotoKey(r) ELSE Asked[r].name
Column(kind, a) == IF kind = "photo" THEN PhotoOf(a) ELSE rows["account"][a].name

\* Uploads and name updates of one user run at once, from several tabs. A row's
\* photo (its names) is what one of the last successful requests for it wrote, or
\* an unsure one: a request for the other column takes nothing back, and what a
\* later request replaced does not come again.
NothingLost ==
    \A a \in Account : \A kind \in {"photo", "names"} :
        LET all == Writes(kind, a)
            last == Latest({r \in all : res[r] # 0})
        IN  last # {} => Column(kind, a) \in {Written(r) : r \in last \cup Unsure(all)}

\* The names an update is answered with, read by a second statement, are its own
\* or those of an update that ran at the same time: never what it replaced, nor
\* what was replaced before it came.
AnswerIsNotOlder ==
    \A r \in Asking["names"] : res[r] # 0
        => ctx[r].name \in {Asked[s].name : s \in Writes("names", res[r]) \ ctx[r].before}

\* Of the registrations that raced for an email, the one that was told it
\* succeeded can log in afterwards, with its password, and no other password does.
\* One whose body said that the account is deleted is told so, too, but nobody
\* logs in to it.
WhoRegisteredLogsIn ==
    \A g \in Asking["account"], l \in Asking["login"] :
        /\ res[g] # 0 /\ res[g] \in seen[l]
        /\ Asked[g].email = Asked[l].email
        => IF Asked[g].password = Asked[l].password /\ ~Asked[g].deleted
           THEN token[l].id = res[g] \/ l \in Faulty
           ELSE token[l].id = 0
=============================================================================
