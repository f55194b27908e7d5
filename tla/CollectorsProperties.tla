------------------------- MODULE CollectorsProperties -------------------------
(***************************************************************************)
(* What is claimed of Collectors; an instance only has to give N a value.  *)
(***************************************************************************)
EXTENDS Collectors

\* Every variable stays in its set, and the wait group never goes negative
\* (which would panic).
TypeOK ==
    /\ mode \in {"sequential", "indexed", "mutex"}
    /\ main \in {"querying", "looping", "returned", "failed"}
    /\ next \in 1..N + 1
    /\ pc \in [Users -> {"none", "started", "locked", "appending", "appended",
                         "stored", "done"}]
    /\ list \in Seq(Users \union {Nil})
    /\ read \in [Users -> Seq(Users)]
    /\ mu \in Users \union {Nil}
    /\ wg \in 0..N

\* The list that is returned has each user once, however the goroutines
\* interleaved; without the mutex's free choice of order, in the query's order.
ReturnsEachOnce ==
    main = "returned" =>
        /\ Len(list) = N
        /\ \A u \in Users : \E i \in DOMAIN list : list[i] = u
        /\ mode # "mutex" => \A i \in DOMAIN list : list[i] = i

\* Once the handler has returned the list, which gin then serializes, no
\* goroutine writes to it any more.
NoLateWriter == [][main = "returned" => UNCHANGED list]_vars

\* The handler returns (wg.Wait does not wait for ever).
Returns == <>(main \in {"returned", "failed"})
===============================================================================
