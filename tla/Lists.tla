-------------------------------- MODULE Lists --------------------------------
(***************************************************************************)
(* The REST requests that save a message and that read lists page by page: *)
(* the messages of a conversation, newest first, a user's conversations,   *)
(* by their updated_at, and all users, in no order. A page is a request of *)
(* its own, and its rows and its total are two queries; each sees what is  *)
(* committed then. Saving touches the conversation's row in the same       *)
(* transaction, with a time that was read before the statement waited for  *)
(* the row.                                                                *)
(***************************************************************************)
EXTENDS Store

CONSTANT MaxSize    \* the largest page (100 in the code)

ASSUME ListsAskedAssumption ==
    /\ MaxSize \in Nat \ {0}
    /\ \A r \in Req : Asked[r].kind = "list" =>
        \/ Asked[r] \in [kind : {"list"}, of : {"message"}, conv : Nat, size : Nat \ {0}]
        \/ Asked[r] \in [kind : {"list"}, of : {"account"}, size : Nat \ {0}]
        \/ Asked[r] \in [kind : {"list"}, of : {"conversation"}, user : User, size : Nat \ {0}]

VARIABLES
    stamp,      \* the time a save is about to write to the conversation
    found,      \* the rows of the page whose total is still to be counted
    got,        \* the pages a client has got: their rows and the total
    had,        \* history: the list as it was at the first page, with its times
    back        \* history: the conversations whose updated_at once went back

listVars == <<stamp, found, got, had, back>>

ListsInit ==
    /\ stamp = [r \in Req |-> 0]
    /\ found = [r \in Req |-> {}]
    /\ got = [r \in Req |-> <<>>]
    /\ had = [r \in Req |-> {}]
    /\ back = {}

(***************************************************************************)
(* Saving                                                                  *)
(***************************************************************************)
\* The foreign key: the conversation has to be there.
InsertMessage(r) ==
    /\ pc[r] = "new"
    /\ Asked[r].kind = "message"
    /\ \/ Asked[r].conv \in DOMAIN rows["conversation"] /\ Insert(r, "message")
       \/ /\ Asked[r].conv \notin DOMAIN rows["conversation"]
          /\ TakeId("message")
          /\ Answer(r, 0)
          /\ UNCHANGED <<rows, drawns, times, tx, seen>>
    /\ UNCHANGED listVars

ReadTime(r) ==
    /\ pc[r] = "inserted"
    /\ Asked[r].kind = "message"
    /\ ReadClock
    /\ stamp' = [stamp EXCEPT ![r] = clock']
    /\ pc' = [pc EXCEPT ![r] = "stamped"]
    /\ UNCHANGED <<rows, drawns, ids, tx, res, seen, found, got, had, back>>

NewMessage(r) == [conv |-> Asked[r].conv, at |-> tx[r].at]

\* Mutant: the message is saved without the conversation's update.
MessageAlone(r) == [rows EXCEPT !["message"] = With(@, tx[r].id, NewMessage(r))]

MessageAndConversation(r) ==
    [rows EXCEPT !["message"] = With(@, tx[r].id, NewMessage(r)),
                 !["conversation"][Asked[r].conv].at = stamp[r]]

\* The update waits for other saves' updates of the row, then both are committed.
SaveMessage(r) ==
    /\ pc[r] = "stamped"
    /\ rows' = MessageAndConversation(r)
    /\ back' = IF stamp[r] < rows["conversation"][Asked[r].conv].at
               THEN back \cup {Asked[r].conv} ELSE back
    /\ Answer(r, tx[r].id) \/ (r \in Faulty /\ Answer(r, 0))
    /\ UNCHANGED <<drawns, ids, times, tx, seen, stamp, found, got, had>>

(***************************************************************************)
(* Reading                                                                 *)
(***************************************************************************)
Listed(r) ==
    CASE Asked[r].of = "message" ->
            {m \in DOMAIN rows["message"] : rows["message"][m].conv = Asked[r].conv}
      [] Asked[r].of = "conversation" ->
            {c \in DOMAIN rows["conversation"] :
                Asked[r].user \in Range(rows["conversation"][c].users)}
      [] Asked[r].of = "account" ->
            {a \in DOMAIN rows["account"] : ~rows["account"][a].deleted}

\* What the list is ordered by; the users' has no order.
Time(r, x) == IF Asked[r].of = "account" THEN 0 ELSE rows[Asked[r].of][x].at

InOrder(r, a, b) == \A x \in a, y \in b : Time(r, x) >= Time(r, y)

\* The rows the list may start with; rows with one time come in any order.
Starts(r, n) ==
    LET list == Listed(r)
    IN  {a \in kSubset(Min({n, Cardinality(list)}), list) : InOrder(r, a, list \ a)}

PageSize(size) == IF size > MaxSize THEN MaxSize ELSE size

\* Mutant: pages are counted from 0.
OffsetFromZero(page, size) == page * PageSize(size)

Offset(page, size) == (page - 1) * PageSize(size)

\* The pages the query may answer with: Offset rows are passed over, Limit taken.
Paginate(r) ==
    LET offset == Offset(Len(got[r]) + 1, Asked[r].size)
    IN  {p[2] \ p[1] : p \in
            {q \in Starts(r, offset) \X Starts(r, offset + PageSize(Asked[r].size)) :
                q[1] \subseteq q[2]}}

\* The client asks for another page until the total says it has all of them.
More(r, total) == (Len(got[r]) + 1) * Asked[r].size < total

\* A page without users is an error.
Refused(r, page) == Asked[r].of = "account" /\ page = {}

Unread == UNCHANGED <<database, tx, seen, stamp, back>>

Find(r) ==
    /\ pc[r] \in {"new", "paged"}
    /\ Asked[r].kind = "list"
    /\ \/ \E page \in Paginate(r) :
            /\ ~Refused(r, page)
            /\ found' = [found EXCEPT ![r] = page]
            /\ pc' = [pc EXCEPT ![r] = "found"]
            /\ UNCHANGED res
       \/ /\ r \in Faulty \/ \E page \in Paginate(r) : Refused(r, page)
          /\ Answer(r, 0)
          /\ UNCHANGED found
    /\ had' = IF pc[r] = "new"
              THEN [had EXCEPT ![r] = {[id |-> x, at |-> Time(r, x)] : x \in Listed(r)}]
              ELSE had
    /\ UNCHANGED got
    /\ Unread

Total(r) == Cardinality(Listed(r))

Count(r) ==
    /\ pc[r] = "found"
    /\ \/ LET total == Total(r)
          IN  /\ got' = [got EXCEPT ![r] = Append(@, [ids |-> found[r], total |-> total])]
              /\ pc' = [pc EXCEPT ![r] = IF More(r, total) THEN "paged" ELSE "done"]
              /\ UNCHANGED res
       \/ r \in Faulty /\ Answer(r, 0) /\ UNCHANGED got
    /\ UNCHANGED <<found, had>>
    /\ Unread

ListRequest(r) ==
    \/ InsertMessage(r)
    \/ ReadTime(r)
    \/ SaveMessage(r)
    \/ Find(r)
    \/ Count(r)
=============================================================================
