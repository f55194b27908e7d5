------------------------------- MODULE MCRest -------------------------------
(***************************************************************************)
(* Small instances of Rest.                                                *)
(***************************************************************************)
EXTENDS RestProperties

CONSTANTS alice, bob, carol, mail, post, pw1, pw2, ann, lee, kim, png,
          c1, c2, c3, w1, w2, g1, g2, g3, g4, g5, g6,
          l1, l2, p1, p2, n1, n2, s1, s2, s3, h1, h2, h3, h4, h5

Conversation(us) == [kind |-> "conversation", users |-> us]
WhiteboardOf(u, c) == [kind |-> "whiteboard", user |-> u, conv |-> c]
Registration(e, p, ok) ==
    [kind |-> "account", email |-> e, password |-> p, name |-> ann, valid |-> ok,
     id |-> 0, photo |-> Nil, deleted |-> FALSE]
PhotoOfFirst == [user |-> 1, at |-> 0, ext |-> png]
LoginAs(e, p) == [kind |-> "login", email |-> e, password |-> p]
PhotoBy(l) == [kind |-> "photo", login |-> l, ext |-> png]
NamesBy(l, n, ok) == [kind |-> "names", login |-> l, name |-> n, valid |-> ok]
MessageIn(c) == [kind |-> "message", conv |-> c]
MessagesOf(c, n) == [kind |-> "list", of |-> "message", conv |-> c, size |-> n]
UsersBy(n) == [kind |-> "list", of |-> "account", size |-> n]
ConversationsOf(u, n) == [kind |-> "list", of |-> "conversation", user |-> u, size |-> n]

MCAsked ==
    (c1 :> Conversation(<<alice, bob>>)) @@ (c2 :> Conversation(<<bob, alice, carol>>))
    @@ (c3 :> Conversation(<<alice, carol>>))
    @@ (w1 :> WhiteboardOf(alice, 1)) @@ (w2 :> WhiteboardOf(bob, 1))
    @@ (g1 :> Registration(mail, pw1, TRUE)) @@ (g2 :> Registration(mail, pw2, TRUE))
    @@ (g4 :> Registration(post, pw1, TRUE)) @@ (g3 :> Registration(mail, pw1, FALSE))
    @@ (g5 :> [Registration(post, pw1, TRUE) EXCEPT !.id = 1, !.photo = PhotoOfFirst])
    @@ (g6 :> [Registration(mail, pw1, TRUE) EXCEPT !.id = 2, !.deleted = TRUE])
    @@ (l1 :> LoginAs(mail, pw1)) @@ (l2 :> LoginAs(mail, pw2))
    @@ (p1 :> PhotoBy(l1)) @@ (p2 :> PhotoBy(l1))
    @@ (n1 :> NamesBy(l1, lee, TRUE)) @@ (n2 :> NamesBy(l1, kim, TRUE))
    @@ (s1 :> MessageIn(1)) @@ (s2 :> MessageIn(1)) @@ (s3 :> MessageIn(2))
    @@ (h1 :> ConversationsOf(alice, 1)) @@ (h2 :> MessagesOf(1, 1))
    @@ (h3 :> ConversationsOf(alice, 3)) @@ (h4 :> ConversationsOf(alice, 2)) @@ (h5 :> UsersBy(1))

Load(reqs, conversations, accounts) ==
    [reqs |-> reqs, conversations |-> conversations, accounts |-> accounts]

Ann == [email |-> mail, password |-> pw1, name |-> ann, photo |-> Nil, deleted |-> FALSE]

\* Rows looked for and created: conversations of two users in both orders, a
\* whiteboard asked for by two members.
Creations == Load({c1, c2, w1, w2}, <<>>, <<>>)
Groups == Load({c1, c2, c3}, <<>>, <<>>)
\* Two registrations of an email with different passwords, and both log in.
Registrations == Load({g1, g2, g3, l1, l2, p1}, <<>>, <<>>)
\* Registrations that bring an id: one also a photo, with an id that the sequence
\* gives to another, and one a time of deletion, with an email that others ask for.
Bodies == Load({g2, g5, g6, l1}, <<>>, <<>>)
\* One user in two tabs: two photos and an update of the names, or the reverse.
Photos == Load({l1, p1, p2, n1}, <<>>, <<Ann>>)
Names == Load({l1, p2, n1, n2}, <<>>, <<Ann>>)
\* A client pages through its conversations while messages are saved in them,
\* and while a conversation is created and gets its first message.
Paging == Load({s1, s3, h1}, <<<<alice, bob>>, <<alice, carol>>>>, <<>>)
Growing == Load({c3, s1, s3, h1}, <<<<alice, bob>>>>, <<>>)
\* A client pages through messages that are being saved; another one asks for more
\* conversations than a page may have, while a third one pages through them one by one.
Messages == Load({s1, s2, h2}, <<<<alice, bob>>>>, <<>>)
LargePages == Load({s1, s2, h1, h3}, <<<<alice, bob>>, <<alice, carol>>, <<carol, alice>>>>, <<>>)
\* A conversation is created while a client is between two pages; the others were
\* created at once for the same two users.
TwoPages == Load({c3, h4}, <<<<alice, bob>>, <<bob, alice>>, <<alice, bob>>>>, <<>>)
\* A client lists the users while two of them register.
Everyone == Load({g1, g4, h5}, <<>>, <<>>)

MCLoads == {Creations, Groups, Registrations, Bodies, Photos, Names, Paging, Growing,
            Messages, LargePages, TwoPages, Everyone}
=============================================================================
