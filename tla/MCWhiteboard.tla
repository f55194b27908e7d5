---------------------------- MODULE MCWhiteboard ----------------------------
(***************************************************************************)
(* A small instance of Whiteboard: Alice and Bob have a connection to the  *)
(* plan, and Alice another one to the sketch.                              *)
(***************************************************************************)
EXTENDS WhiteboardProperties

CONSTANTS a1, a2, b1, alice, bob, plan, sketch

BoardUser == (a1 :> alice) @@ (a2 :> alice) @@ (b1 :> bob)
Board == (a1 :> plan) @@ (a2 :> sketch) @@ (b1 :> plan)
=============================================================================
