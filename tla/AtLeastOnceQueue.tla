-------------------------- MODULE AtLeastOnceQueue --------------------------
(***************************************************************************)
(* What internal/pkg/redisqueue promises its users.  A task that is pushed *)
(* becomes pending and live, that is, some copy of it will reach a worker. *)
(* While it is pending it cannot be pushed again, and it stays live until  *)
(* somebody settles it: a worker that has crawled it, or a user who        *)
(* deletes it.  Settling one copy may leave another one behind.            *)
(***************************************************************************)
CONSTANT Task

VARIABLES pending, live

Init == pending = {} /\ live = {}

Push(t) ==
    /\ t \notin pending
    /\ pending' = pending \cup {t}
    /\ live' = live \cup {t}

Settle(t) ==
    /\ pending' = pending \ {t}
    /\ \/ live' = live
       \/ live' = live \ {t}

Next == \E t \in Task : Push(t) \/ Settle(t)

Spec == Init /\ [][Next]_<<pending, live>>

\* A pending task is never lost.
PendingIsLive == pending \subseteq live
=============================================================================
