------------------------------- MODULE Fanout -------------------------------
(***************************************************************************)
(* What the chat's event distribution promises, with the hub, the mutex,   *)
(* the goroutines and Redis hidden: events are published in one order, and *)
(* each connection is written a subsequence of the events of its own       *)
(* conversation, in that order, none of them twice, and only if its user   *)
(* is a member. Nothing promises that an event reaches anybody (Redis      *)
(* pub/sub is at most once and a client may leave at any time).            *)
(***************************************************************************)
EXTENDS Naturals, Sequences

CONSTANTS Conn, ConvOf, Listener, Event

VARIABLES
    log,     \* every event published, in Redis' order
    sent     \* sent[c]: positions in log of the events written to c

vars == <<log, sent>>

Init ==
    /\ log = << >>
    /\ sent = [c \in Conn |-> << >>]

Publish ==
    \E e \in Event :
        /\ log' = Append(log, e)
        /\ UNCHANGED sent

Deliver(c, p) ==
    /\ c \in Listener
    /\ log[p].conv = ConvOf[c]
    /\ \A i \in DOMAIN sent[c] : sent[c][i] < p
    /\ sent' = [sent EXCEPT ![c] = Append(@, p)]
    /\ UNCHANGED log

Next == Publish \/ \E c \in Conn : \E p \in DOMAIN log : Deliver(c, p)

Spec == Init /\ [][Next]_vars
=============================================================================
