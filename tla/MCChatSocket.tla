---------------------------- MODULE MCChatSocket ----------------------------
(***************************************************************************)
(* Small instances of ChatSocket. Where Carol has a connection, she asks   *)
(* for a conversation that she is not a member of.                         *)
(***************************************************************************)
EXTENDS ChatSocketProperties

CONSTANTS a1, a2, b1, c1, alice, bob, carol, room, hall

People == {alice, bob, carol}
Members == {<<alice, room>>, <<bob, room>>, <<alice, hall>>, <<carol, hall>>}

\* Alice has two connections to the room, Bob one.
TwoTabs == {a1, a2, b1, c1}
TwoTabsUser == (a1 :> alice) @@ (a2 :> alice) @@ (b1 :> bob) @@ (c1 :> carol)
TwoTabsConv == (a1 :> room) @@ (a2 :> room) @@ (b1 :> room) @@ (c1 :> room)

\* Alice and Bob have one connection each to the room.
OneEach == {a1, b1, c1}
OneEachUser == (a1 :> alice) @@ (b1 :> bob) @@ (c1 :> carol)
OneEachConv == (a1 :> room) @@ (b1 :> room) @@ (c1 :> room)

\* The same without Carol.
Friends == {alice, bob}
OfFriends == {a1, b1}
FriendsUser == (a1 :> alice) @@ (b1 :> bob)
FriendsConv == (a1 :> room) @@ (b1 :> room)
FriendsMembers == {<<alice, room>>, <<bob, room>>, <<alice, hall>>}

\* Alice's connections to the room are interchangeable.
Tabs == Permutations({a1, a2})
=============================================================================
