--------------------------- MODULE StoreProperties ---------------------------
(***************************************************************************)
(* What the requests of Store leave in the database and answer.            *)
(***************************************************************************)
EXTENDS Store

Ids(t) == DOMAIN rows[t]
Given(t) == 1..ids[t] \cup (IF t = "account" THEN {Asked[r].id : r \in Registering} \ {0} ELSE {})

\* Every row has an id its sequence gave, or its registration brought, no row
\* shares the id of an open transaction, and an answer names a committed row or
\* none: in particular no answer names a row that was rolled back.
TypeOK ==
    /\ DOMAIN rows = Table /\ ids \in [Table -> Nat]
    /\ shared \subseteq 0..clock
    /\ \A t \in Table : Ids(t) \subseteq Given(t)
    /\ \A c \in Ids("conversation") : rows["conversation"][c] \in [users : Seq(User), at : 0..clock]
    /\ \A b \in Ids("whiteboard") : rows["whiteboard"][b] \in Ids("conversation")
    /\ \A a \in Ids("account") : rows["account"][a] \in UserRow
    /\ \A m \in Ids("message") :
        rows["message"][m] \in [conv : Ids("conversation"), at : 0..clock]
    /\ drawns \in Seq([board : Ids("whiteboard"), drawer : User])
    /\ \A r \in Req : LET t == Asked[r].kind
                      IN  t \in Table =>
                          /\ pc[r] \in {"new", "missing", "numbered", "inserted", "stamped", "done"}
                          /\ seen[r] \subseteq Ids(t)
                          /\ res[r] \in Ids(t) \cup {0}
                          /\ pc[r] \in {"inserted", "stamped"} =>
                                tx[r].id \in Given(t) \ Ids(t) /\ tx[r].at \in 0..clock
                          /\ pc[r] = "numbered" => t = "account" /\ tx[r].id \in Given(t)

\* The two requests ask for the same thing.
SameThing(r, s) ==
    LET a == Asked[r]  b == Asked[s]
    IN  /\ a.kind = b.kind
        /\ CASE a.kind = "conversation" ->
                    {a.users[1], a.users[2]} = {b.users[1], b.users[2]}
             [] a.kind = "whiteboard" -> a.conv = b.conv
             [] a.kind = "account" -> a.email = b.email
             [] OTHER -> FALSE

\* A request that comes after another for the same thing (whoever asks, in
\* whichever order it names the two users) creates nothing: it is answered with
\* a row that was there when it looked, or, for an account, refused. Only a
\* failed lookup escapes.
SecondRequestCreatesNothing ==
    \A r \in {q \in Req : res[q] # 0}, s \in Req :
        /\ res[r] \in seen[s] /\ s \notin Faulty
        /\ SameThing(r, s)
        => /\ res[s] \in seen[s] \cup {0}
           /\ Asked[s].kind = "account" => res[s] = 0

\* Whoever asks for a conversation is answered with one that has the first two
\* users asked for, and with exactly the users asked for unless it was there when
\* the request looked: a group with a known pair may be answered with less.
AnswerHasTheTwo ==
    \A r \in Req :
        Asked[r].kind = "conversation" /\ res[r] # 0
        => LET users == rows["conversation"][res[r]].users
           IN  /\ {Asked[r].users[1], Asked[r].users[2]} \subseteq Range(users)
               /\ users = Asked[r].users \/ res[r] \in seen[r]

\* Whatever failed or raced on the way, each committed whiteboard has exactly
\* one drawn for each member of its conversation, and no other.
EveryMemberHasADrawn ==
    \A b \in Ids("whiteboard") :
        LET members == rows["conversation"][rows["whiteboard"][b]].users
            own == {i \in DOMAIN drawns : drawns[i].board = b}
        IN  Cardinality(own) = Len(members) /\ {drawns[i].drawer : i \in own} = Range(members)

\* Two registrations with one email, both past the check that the user does not
\* exist, never make two accounts, and at most one of them is told it succeeded.
OneAccountPerEmail ==
    /\ \A a, b \in Ids("account") : rows["account"][a].email = rows["account"][b].email => a = b
    /\ LET told == {r \in Req : Asked[r].kind = "account" /\ res[r] # 0}
       IN  \A r, s \in told : SameThing(r, s) => r = s

\* "Check if a whiteboard already has been created before for the conversation"
\* (whiteboard_service.go:20): a conversation has one whiteboard, as the field
\* models.Conversation.Whiteboard says.
OneWhiteboardPerConversation ==
    \A b, c \in Ids("whiteboard") : rows["whiteboard"][b] = rows["whiteboard"][c] => b = c
=============================================================================
