------------------------------- MODULE MCStore -------------------------------
(***************************************************************************)
(* A small instance of Store: two members ask for a whiteboard at once,    *)
(* and no request meets an error.                                          *)
(***************************************************************************)
EXTENDS StoreProperties

CONSTANTS alice, bob, c1, w1, w2

WhiteboardOf(u, c) == [kind |-> "whiteboard", user |-> u, conv |-> c]

RaceAsked ==
    (c1 :> [kind |-> "conversation", users |-> <<alice, bob>>])
    @@ (w1 :> WhiteboardOf(alice, 1)) @@ (w2 :> WhiteboardOf(bob, 1))

Race == {[reqs |-> Req, conversations |-> <<>>, accounts |-> <<>>]}
=============================================================================
