----------------------------- MODULE Collectors -----------------------------
(***************************************************************************)
(* GET /users/sent-message/:concurrent/:mutex (rest_handler.go,            *)
(* chat_repository.go): the users who have sent a message are turned into  *)
(* responses by a goroutine each, which stores its own at the user's index *)
(* or appends it under a mutex, or by the handler alone. A wait group      *)
(* tells the handler when to return the list. A user is its position in    *)
(* the query's result. The fourth, racy variant has no caller.             *)
(***************************************************************************)
EXTENDS Integers, Sequences

CONSTANT N      \* how many users the query finds

ASSUME NAssumption == N \in Nat

Users == 1..N
Nil == 0

VARIABLES
    mode,       \* "sequential", "indexed" or "mutex"
    main,       \* the handler: "querying", "looping", "returned" or "failed"
    next,       \* the user it comes to next
    pc,         \* pc[u]: where the goroutine of u is
    list,       \* userResponses
    read,       \* read[u]: the slice that the goroutine of u is appending to
    mu,         \* the user whose goroutine holds the mutex, or Nil
    wg          \* the wait group's counter

vars == <<mode, main, next, pc, list, read, mu, wg>>

\* GetUsersWhoHaveSentMessage picks the variant by the route's parameters.
Init ==
    /\ mode \in {"sequential", "indexed", "mutex"}
    /\ main = "querying"
    /\ next = 1
    /\ pc = [u \in Users |-> "none"]
    /\ list = << >>
    /\ read = [u \in Users |-> << >>]
    /\ mu = Nil
    /\ wg = 0

Query ==
    /\ main = "querying"
    /\ main' = "looping"
    /\ list' = IF mode = "indexed" THEN [u \in Users |-> Nil] ELSE << >>
    /\ UNCHANGED <<mode, next, pc, read, mu, wg>>

QueryFails ==
    /\ main = "querying"
    /\ main' = "failed"
    /\ UNCHANGED <<mode, next, pc, list, read, mu, wg>>

\* Mutant: the goroutine itself adds to the wait group, too late; here, not at all.
SpawnUncounted ==
    /\ main = "looping" /\ mode # "sequential" /\ next <= N
    /\ pc' = [pc EXCEPT ![next] = "started"]
    /\ next' = next + 1
    /\ UNCHANGED <<mode, main, list, read, mu, wg>>

Spawn ==
    /\ main = "looping" /\ mode # "sequential" /\ next <= N
    /\ wg' = wg + 1
    /\ pc' = [pc EXCEPT ![next] = "started"]
    /\ next' = next + 1
    /\ UNCHANGED <<mode, main, list, read, mu>>

AppendAlone ==
    /\ main = "looping" /\ mode = "sequential" /\ next <= N
    /\ list' = Append(list, next)
    /\ next' = next + 1
    /\ UNCHANGED <<mode, main, pc, read, mu, wg>>

Goto(u, from, to) == pc[u] = from /\ pc' = [pc EXCEPT ![u] = to]

StoreAtIndex(u) ==
    /\ mode = "indexed"
    /\ Goto(u, "started", "stored")
    /\ list' = [list EXCEPT ![u] = u]
    /\ UNCHANGED <<mode, main, next, read, mu, wg>>

\* Mutant: the mutex is not waited for.
LockAnyway(u) ==
    /\ mode = "mutex"
    /\ Goto(u, "started", "locked")
    /\ mu' = u
    /\ UNCHANGED <<mode, main, next, list, read, wg>>

Lock(u) ==
    /\ mode = "mutex"
    /\ mu = Nil
    /\ Goto(u, "started", "locked")
    /\ mu' = u
    /\ UNCHANGED <<mode, main, next, list, read, wg>>

\* append reads the slice and assigns a longer one.
ReadSlice(u) ==
    /\ Goto(u, "locked", "appending")
    /\ read' = [read EXCEPT ![u] = list]
    /\ UNCHANGED <<mode, main, next, list, mu, wg>>

WriteSlice(u) ==
    /\ Goto(u, "appending", "appended")
    /\ list' = Append(read[u], u)
    /\ UNCHANGED <<mode, main, next, read, mu, wg>>

\* Mutant: the mutex stays locked.
UnlockForgotten(u) ==
    /\ Goto(u, "appended", "stored")
    /\ UNCHANGED <<mode, main, next, list, read, mu, wg>>

Unlock(u) ==
    /\ Goto(u, "appended", "stored")
    /\ mu' = Nil
    /\ UNCHANGED <<mode, main, next, list, read, wg>>

\* The deferred wg.Done().
Done(u) ==
    /\ Goto(u, "stored", "done")
    /\ wg' = wg - 1
    /\ UNCHANGED <<mode, main, next, list, read, mu>>

\* Past wg.Wait(); the sequential variant has nothing to wait for.
Return ==
    /\ main = "looping" /\ next > N /\ wg = 0
    /\ main' = "returned"
    /\ UNCHANGED <<mode, next, pc, list, read, mu, wg>>

Handler == Query \/ QueryFails \/ Spawn \/ AppendAlone \/ Return

Goroutine(u) ==
    \/ StoreAtIndex(u)
    \/ Lock(u)
    \/ ReadSlice(u)
    \/ WriteSlice(u)
    \/ Unlock(u)
    \/ Done(u)

Next == Handler \/ \E u \in Users : Goroutine(u)

Spec == Init /\ [][Next]_vars

\* Goroutines that can run do run; whoever unlocks lets a waiter in.
FairSpec == Spec /\ WF_vars(Handler) /\ \A u \in Users : WF_vars(Goroutine(u))
=============================================================================
