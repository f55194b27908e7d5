----------------------------- MODULE MCPresence -----------------------------
(***************************************************************************)
(* Small instances of Presence.                                            *)
(***************************************************************************)
EXTENDS PresenceProperties

CONSTANTS a1, a2, b1, alice, bob, nobody

People == {alice, bob}

\* Alice has two connections, Bob one, with which he observes her.
TwoTabs == {a1, a2, b1}
TwoTabsUser == (a1 :> alice) @@ (a2 :> alice) @@ (b1 :> bob)
TwoTabsNotifiers == (a1 :> << >>) @@ (a2 :> << >>) @@ (b1 :> <<alice>>)

\* One connection each.
OneEach == {a1, b1}
OneEachUser == (a1 :> alice) @@ (b1 :> bob)

\* Alice observes Bob.
OneWayNotifiers == (a1 :> <<bob>>) @@ (b1 :> << >>)

\* Alice names Bob twice, Bob an id that no user can have.
Named == {alice, bob, nobody}
TwiceNotifiers == (a1 :> <<bob, bob>>) @@ (b1 :> <<nobody>>)
=============================================================================
